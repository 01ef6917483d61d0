------------------------ MODULE ClientSessionProofs -------------------------
(***************************************************************************)
(* Proofs about module ClientSession, for every capacity and bound.        *)
(*                                                                         *)
(* That a session ends for a true reason depends on the order of three     *)
(* steps in whichever goroutine ends it: Reasons says that the reason      *)
(* precedes the cancelled context and that the connection is closed last,  *)
(* so that a reader whose connection fails can tell the two cases apart.   *)
(*                                                                         *)
(* That the screen never goes back to older settings depends on every      *)
(* place a roster passes through: Flow says that the generations on the    *)
(* wire, in the reader's hands, in the event channel and on the screen are *)
(* in one order from end to end.                                           *)
(***************************************************************************)
EXTENDS ClientSession, SequenceTheorems, TLAPS

Reasons ==
  /\ ending \in [Closers -> {"no", "said", "parting", "cancelled", "done"}]
  /\ \A who \in Closers : ending[who] # "no" => reason # ""
  /\ \A who \in Closers : ending[who] = "cancelled" => cancelled
  /\ cancelled => reason # ""
  /\ reason = "wentAway" => lost
  /\ link = "down" => cancelled \/ lost

EInv == Reasons /\ EndExplained

\* Init makes the invariant true.
LEMMA InitOK == Init => EInv
  BY DEF Init, EInv, Reasons, EndExplained, Closers

\* A step of one of the goroutines that ends the session.
LEMMA EndStepOK ==
  ASSUME EInv, NEW who \in Closers, EndStep(who)
  PROVE  EInv'
<1> USE DEF EInv, Reasons, EndExplained, readVars, netVars
<1>1. CASE Cancel(who)
  BY <1>1 DEF Cancel
<1>2. CASE CloseConn(who)
  BY <1>2 DEF CloseConn
<1>3. CASE AlreadyClosed(who)
  BY <1>3 DEF AlreadyClosed
<1>4. CASE Part(who)
  BY <1>4 DEF Part, SendStarted
<1> QED
  BY <1>1, <1>2, <1>3, <1>4 DEF EndStep

\* A step of readLoop.
LEMMA ReadStepOK ==
  ASSUME EInv, ReadStep
  PROVE  EInv'
<1> USE DEF EInv, Reasons, EndExplained, netVars
<1>1. CASE Receive
  BY <1>1 DEF Receive, Reading, SayWhy, SetReason, Closers, netVars
<1>2. CASE ReceiveFails
  BY <1>2 DEF ReceiveFails, SetReason
<1>3. CASE Emit
  BY <1>3 DEF Emit, Emitted, endVars
<1>4. CASE Squeeze
  BY <1>4 DEF Squeeze, Emitted, endVars
<1>5. CASE Abandon
  BY <1>5 DEF Abandon, Emitted, endVars
<1>6. CASE CloseStream
  BY <1>6 DEF CloseStream, endVars
<1> QED
  BY <1>1, <1>2, <1>3, <1>4, <1>5, <1>6 DEF ReadStep

\* Giving up on the host and leaving say why first.
LEMMA SayWhyOK ==
  ASSUME EInv, GiveUpOnHost \/ Leave
  PROVE  EInv'
<1> USE DEF EInv, Reasons, EndExplained, SayWhy, SetReason, Closers, netVars
<1>1. CASE GiveUpOnHost
  BY <1>1 DEF GiveUpOnHost, readVars, Pinger
<1>2. CASE Leave
  BY <1>2 DEF Leave, readVars, Screen
<1> QED
  BY <1>1, <1>2

\* The rest of the world changes neither reasons nor the reader.
LEMMA OutsideOK ==
  ASSUME EInv,
         \/ HostReconfigures \/ HostTells \/ HostDismisses \/ HostDies \/ HostTakesReady
         \/ ConnectionStalls \/ ConnectionFails \/ SilencePasses
         \/ TakeEvent \/ PressReady \/ Ping \/ \E who \in Closers : SendStep(who)
  PROVE  EInv'
<1> USE DEF EInv, Reasons, EndExplained, endVars, readVars, netVars
<1>1. CASE HostReconfigures
  BY <1>1 DEF HostReconfigures, HostSends
<1>2. CASE HostTells
  <2>1. PICK msg \in {Msg("tick", 0), Msg("request", 0), Msg("lobby", hostGen)} : HostSends(msg)
    BY <1>2 DEF HostTells
  <2> QED
    BY <2>1 DEF HostSends
<1>3. CASE HostDismisses
  BY <1>3 DEF HostDismisses, HostSends
<1>4. CASE HostDies
  BY <1>4 DEF HostDies
<1>5. CASE HostTakesReady
  BY <1>5 DEF HostTakesReady
<1>6. CASE ConnectionFails
  BY <1>6 DEF ConnectionFails
<1>7. CASE SilencePasses
  BY <1>7 DEF SilencePasses
<1>8. CASE TakeEvent
  BY <1>8 DEF TakeEvent
<1>9. CASE PressReady
  BY <1>9 DEF PressReady, SendStarted
<1>10. CASE ConnectionStalls
  BY <1>10 DEF ConnectionStalls
<1>11. CASE Ping
  BY <1>11 DEF Ping, SendStarted
<1>12. CASE \E who \in Closers : SendStep(who)
  <2>1. PICK who \in Closers : SendStep(who)
    BY <1>12
  <2> QED
    BY <2>1 DEF SendStep
<1> QED
  BY <1>1, <1>2, <1>3, <1>4, <1>5, <1>6, <1>7, <1>8, <1>9, <1>10, <1>11, <1>12

\* The invariant survives every step.
LEMMA StepOK == EInv /\ [Next]_vars => EInv'
<1> SUFFICES ASSUME EInv, [Next]_vars PROVE EInv'
  OBVIOUS
<1>1. CASE Next
  BY <1>1, EndStepOK, ReadStepOK, SayWhyOK, OutsideOK DEF Next
<1>2. CASE UNCHANGED vars
  BY <1>2 DEF vars, hostVars, netVars, readVars, endVars, uiVars, EInv, Reasons, EndExplained
<1> QED
  BY <1>1, <1>2

\* The reason a session gives for its end is never empty, and blames the host or
\* the connection only if they failed, whichever goroutines end it at once.
THEOREM ReasonsCorrect == Spec => []EndExplained
  BY InitOK, StepOK, PTL DEF Spec, EInv
-----------------------------------------------------------------------------
Pieces == [kind : Kinds, gen : Nat]

\* The rosters in a sequence of messages are of generations low to high, in order.
Between(s, low, high) ==
  \A i \in 1 .. Len(s) : s[i].kind = "lobby" =>
    /\ low <= s[i].gen /\ s[i].gen <= high
    /\ \A j \in i .. Len(s) : s[j].kind = "lobby" => s[i].gen <= s[j].gen

Flow ==
  /\ hostGen \in Nat /\ gen \in Nat /\ shown \in Nat
  /\ wire \in Seq(Pieces) /\ held \in Pieces /\ events \in Seq(Pieces)
  /\ shown <= gen /\ gen <= hostGen
  /\ Between(wire, gen, hostGen)
  /\ held.kind = "lobby" => held.gen = gen
  /\ Between(events, shown, gen)

\* Bounds may be loosened.
LEMMA BetweenWider ==
  ASSUME NEW s \in Seq(Pieces), NEW low \in Nat, NEW high \in Nat, Between(s, low, high),
         NEW lower \in Nat, NEW higher \in Nat, lower <= low, high <= higher
  PROVE  Between(s, lower, higher)
<1>1. \A i \in 1 .. Len(s) : s[i] \in Pieces
  OBVIOUS
<1>2. \A i \in 1 .. Len(s) : s[i].gen \in Nat
  BY <1>1 DEF Pieces
<1> QED
  BY <1>2 DEF Between

\* What is left of a sequence when its end is cut off.
LEMMA BetweenPrefix ==
  ASSUME NEW s \in Seq(Pieces), NEW low \in Nat, NEW high \in Nat, Between(s, low, high),
         NEW n \in 0 .. Len(s)
  PROVE  SubSeq(s, 1, n) \in Seq(Pieces) /\ Between(SubSeq(s, 1, n), low, high)
<1>1. /\ SubSeq(s, 1, n) \in Seq(Pieces) /\ Len(SubSeq(s, 1, n)) = n
      /\ \A i \in 1 .. n : SubSeq(s, 1, n)[i] = s[i]
  OBVIOUS
<1>2. \A i \in 1 .. n : i \in 1 .. Len(s)
                      /\ \A j \in i .. n : j \in i .. Len(s) /\ j \in 1 .. n
  OBVIOUS
<1> QED
  BY <1>1, <1>2 DEF Between

\* Taking the first message: a roster is the lower bound of those behind it.
LEMMA BetweenTail ==
  ASSUME NEW s \in Seq(Pieces), NEW low \in Nat, NEW high \in Nat, Between(s, low, high),
         s # <<>>
  PROVE  /\ Head(s) \in Pieces /\ Tail(s) \in Seq(Pieces)
         /\ Between(Tail(s), low, high)
         /\ Head(s).kind = "lobby" => /\ low <= Head(s).gen /\ Head(s).gen <= high
                                      /\ Between(Tail(s), Head(s).gen, high)
<1>1. /\ Head(s) \in Pieces /\ Tail(s) \in Seq(Pieces) /\ Len(Tail(s)) = Len(s) - 1
      /\ Head(s) = s[1] /\ Len(s) \in Nat \ {0}
      /\ \A i \in 1 .. Len(Tail(s)) : Tail(s)[i] = s[i + 1]
  OBVIOUS
<1>2. Between(Tail(s), low, high)
  BY <1>1 DEF Between
<1>3. ASSUME Head(s).kind = "lobby"
      PROVE  /\ low <= Head(s).gen /\ Head(s).gen <= high
             /\ Between(Tail(s), Head(s).gen, high)
  BY <1>1, <1>3 DEF Between
<1> QED
  BY <1>1, <1>2, <1>3

\* Sending a message: a roster has to be of the newest generation.
LEMMA BetweenAppend ==
  ASSUME NEW s \in Seq(Pieces), NEW low \in Nat, NEW high \in Nat, Between(s, low, high),
         low <= high, NEW m \in Pieces, m.kind = "lobby" => m.gen = high
  PROVE  Append(s, m) \in Seq(Pieces) /\ Between(Append(s, m), low, high)
<1>1. /\ Append(s, m) \in Seq(Pieces) /\ Len(Append(s, m)) = Len(s) + 1
      /\ Append(s, m)[Len(s) + 1] = m /\ Len(s) \in Nat
      /\ \A i \in 1 .. Len(s) : Append(s, m)[i] = s[i]
  OBVIOUS
<1> QED
  BY <1>1 DEF Between

\* The session starts in order.
LEMMA FlowInit == Init => Flow
<1> SUFFICES ASSUME Init PROVE Flow
  OBVIOUS
<1>1. held \in Pieces /\ held.kind # "lobby"
  BY DEF Init, Nothing, Msg, Pieces, Kinds
<1>2. wire = <<>> /\ events = <<>> /\ hostGen = 0 /\ gen = 0 /\ shown = 0
  BY DEF Init
<1>3. wire \in Seq(Pieces) /\ events \in Seq(Pieces) /\ Len(wire) = 0 /\ Len(events) = 0
  BY <1>2
<1> QED
  BY <1>1, <1>2, <1>3 DEF Flow, Between

\* The host's messages, and what the network does to them.
LEMMA FlowOutside ==
  ASSUME Flow,
         \/ HostReconfigures \/ HostTells \/ HostDismisses \/ ConnectionFails
         \/ \E who \in Closers : CloseConn(who)
  PROVE  Flow' /\ shown' = shown
<1> USE DEF Flow, readVars, uiVars
<1>1. ASSUME NEW m \in Pieces, NEW top \in Nat, hostGen <= top,
             m.kind = "lobby" => m.gen = top, HostSends(m), hostGen' = top
      PROVE  Flow' /\ shown' = shown
  <2>1. Between(wire, gen, top)
    BY <1>1, BetweenWider
  <2>2. Append(wire, m) \in Seq(Pieces) /\ Between(Append(wire, m), gen, top)
    BY <1>1, <2>1, BetweenAppend
  <2>3. wire' \in Seq(Pieces) /\ Between(wire', gen, top)
    BY <1>1, <2>1, <2>2 DEF HostSends
  <2> QED
    BY <1>1, <2>3 DEF HostSends
<1>2. CASE HostReconfigures
  BY <1>1, <1>2 DEF HostReconfigures, Msg, Pieces, Kinds
<1>3. CASE HostTells
  <2>1. PICK m \in {Msg("tick", 0), Msg("request", 0), Msg("lobby", hostGen)} : HostSends(m)
    BY <1>3 DEF HostTells
  <2>2. m \in Pieces /\ (m.kind = "lobby" => m.gen = hostGen)
    BY <2>1 DEF Msg, Pieces, Kinds
  <2>3. hostGen' = hostGen
    BY <1>3 DEF HostTells
  <2> QED
    BY <1>1, <2>1, <2>2, <2>3
<1>4. CASE HostDismisses
  BY <1>1, <1>4 DEF HostDismisses, Msg, Pieces, Kinds
<1>5. ASSUME NEW n \in 0 .. WireDepth, Buffered(n),
             UNCHANGED <<hostGen, readVars, events, uiVars>>
      PROVE  Flow' /\ shown' = shown
  <2>1. n \in 0 .. Len(wire) /\ wire' = SubSeq(wire, 1, n)
    BY <1>5, ClientAssumption DEF Buffered
  <2>2. wire' \in Seq(Pieces) /\ Between(wire', gen, hostGen)
    BY <2>1, BetweenPrefix
  <2> QED
    BY <1>5, <2>2
<1>6. CASE ConnectionFails
  BY <1>5, <1>6 DEF ConnectionFails, hostVars
<1>7. CASE \E who \in Closers : CloseConn(who)
  BY <1>5, <1>7 DEF CloseConn, hostVars
<1> QED
  BY <1>2, <1>3, <1>4, <1>6, <1>7

\* A step of readLoop passes a message on.
LEMMA FlowRead ==
  ASSUME Flow, ReadStep
  PROVE  Flow' /\ shown' = shown
<1> USE DEF Flow, uiVars, hostVars, netVars
<1>1. CASE Receive
  <2>1. /\ wire # <<>> /\ wire' = Tail(wire)
        /\ UNCHANGED <<hostGen, events, shown>>
    BY <1>1 DEF Receive
  <2>2. /\ Head(wire) \in Pieces /\ wire' \in Seq(Pieces)
        /\ Between(wire', gen, hostGen)
        /\ Head(wire).kind = "lobby" => /\ gen <= Head(wire).gen /\ Head(wire).gen <= hostGen
                                        /\ Between(wire', Head(wire).gen, hostGen)
    BY <2>1, BetweenTail
  <2>3. CASE gen' = gen /\ (held' = held \/ (held' = Head(wire) /\ Head(wire).kind # "lobby"))
    BY <2>1, <2>2, <2>3
  <2>4. CASE gen' = Head(wire).gen /\ held' = Head(wire) /\ Head(wire).kind = "lobby"
    <3>1. Head(wire).gen \in Nat
      BY <2>2 DEF Pieces
    <3>2. Between(events, shown, Head(wire).gen)
      BY <2>2, <2>4, <3>1, BetweenWider
    <3> QED
      BY <2>1, <2>2, <2>4, <3>1, <3>2
  <2> QED
    BY <1>1, <2>3, <2>4 DEF Receive
<1>2. CASE ReceiveFails
  BY <1>2 DEF ReceiveFails
<1>3. ASSUME NEW queue \in Seq(Pieces), Between(queue, shown, gen), Emitted(queue)
      PROVE  Flow' /\ shown' = shown
  <2>1. held' \in Pieces /\ held'.kind # "lobby"
    BY <1>3 DEF Emitted, Nothing, Msg, Pieces, Kinds
  <2> QED
    BY <1>3, <2>1 DEF Emitted
<1>4. CASE Emit
  BY <1>3, <1>4, BetweenAppend DEF Emit
<1>5. CASE Squeeze
  <2>1. events # <<>>
    BY <1>5, ClientAssumption DEF Squeeze
  <2>2. Tail(events) \in Seq(Pieces) /\ Between(Tail(events), shown, gen)
    BY <2>1, BetweenTail
  <2>3. /\ Append(Tail(events), held) \in Seq(Pieces)
        /\ Between(Append(Tail(events), held), shown, gen)
    BY <2>2, BetweenAppend
  <2> QED
    BY <1>3, <1>5, <2>3 DEF Squeeze
<1>6. CASE Abandon
  BY <1>3, <1>6 DEF Abandon
<1>7. CASE CloseStream
  <2>1. Msg("closed", 0) \in Pieces /\ Msg("closed", 0).kind # "lobby"
    BY DEF Msg, Pieces, Kinds
  <2>2. /\ Append(events, Msg("closed", 0)) \in Seq(Pieces)
        /\ Between(Append(events, Msg("closed", 0)), shown, gen)
    BY <2>1, BetweenAppend
  <2> QED
    BY <1>7, <2>2 DEF CloseStream
<1> QED
  BY <1>1, <1>2, <1>4, <1>5, <1>6, <1>7 DEF ReadStep

\* The screen takes an event: what it shows then is no older.
LEMMA FlowTake ==
  ASSUME Flow, TakeEvent
  PROVE  Flow' /\ shown' >= shown
<1> USE DEF Flow, hostVars, netVars, readVars
<1>1. /\ events # <<>> /\ events' = Tail(events)
      /\ UNCHANGED <<hostGen, gen, wire, held>>
  BY DEF TakeEvent
<1>2. /\ Head(events) \in Pieces /\ events' \in Seq(Pieces)
      /\ Between(events', shown, gen)
      /\ Head(events).kind = "lobby" =>
           /\ shown <= Head(events).gen /\ Head(events).gen <= gen
           /\ Between(events', Head(events).gen, gen)
  BY <1>1, BetweenTail
<1>3. CASE shown' = shown
  BY <1>1, <1>2, <1>3
<1>4. CASE Head(events).kind = "lobby" /\ shown' = Head(events).gen
  <2>1. Head(events).gen \in Nat
    BY <1>2 DEF Pieces
  <2> QED
    BY <1>1, <1>2, <1>4, <2>1
<1> QED
  BY <1>3, <1>4 DEF TakeEvent

\* Every step keeps the order, and what is on the screen gets no older.
LEMMA FlowStep == Flow /\ [Next]_vars => Flow' /\ shown' >= shown
<1> SUFFICES ASSUME Flow, [Next]_vars PROVE Flow' /\ shown' >= shown
  OBVIOUS
<1>1. shown \in Nat
  BY DEF Flow
<1>2. CASE \/ HostReconfigures \/ HostTells \/ HostDismisses \/ ConnectionFails
           \/ \E who \in Closers : CloseConn(who)
  BY <1>1, <1>2, FlowOutside
<1>3. CASE ReadStep
  BY <1>1, <1>3, FlowRead
<1>4. CASE TakeEvent
  BY <1>4, FlowTake
<1>5. ASSUME UNCHANGED <<hostGen, gen, shown, wire, held, events>>
      PROVE  Flow' /\ shown' >= shown
  BY <1>1, <1>5 DEF Flow
<1> USE DEF hostVars, netVars, readVars, uiVars, endVars
<1>6. CASE HostDies \/ HostTakesReady \/ ConnectionStalls \/ SilencePasses
  BY <1>5, <1>6 DEF HostDies, HostTakesReady, ConnectionStalls, SilencePasses
<1>7. CASE Ping \/ GiveUpOnHost \/ PressReady \/ Leave
  BY <1>5, <1>7 DEF Ping, GiveUpOnHost, PressReady, Leave, SendStarted
<1>8. CASE \E who \in Closers :
             SendStep(who) \/ Part(who) \/ Cancel(who) \/ AlreadyClosed(who)
  BY <1>5, <1>8 DEF SendStep, Part, Cancel, AlreadyClosed, SendStarted
<1>9. CASE UNCHANGED vars
  BY <1>5, <1>9 DEF vars
<1> QED
  BY <1>2, <1>3, <1>4, <1>6, <1>7, <1>8, <1>9 DEF Next, EndStep

\* The settings a player looks at are never replaced by earlier ones: readLoop, the
\* frames that squeeze events out and the screen all keep the order of the rosters.
THEOREM ShownNeverOlderAlways == Spec => ShownNeverOlder
<1>1. Spec => []Flow
  BY FlowInit, FlowStep, PTL DEF Spec
<1>2. Flow /\ [Next]_vars => [shown' >= shown]_vars
  BY FlowStep
<1> QED
  BY <1>1, <1>2, PTL DEF Spec, ShownNeverOlder
-----------------------------------------------------------------------------
(***************************************************************************)
(* Types, by what each part of the session changes together.               *)
(***************************************************************************)
Gens == 0 .. MaxGen
Readies == [gen : Gens, shown : Gens]
Whys == {"", "left", "silent", "dismissed", "wentAway"}

HostTyped ==
  hostEnd \in {"open", "closed", "vanished"} /\ hostGen \in Gens /\ talk \in 0 .. MaxTalk

WireTyped == wire \in Seq(Messages) /\ Len(wire) <= WireDepth
EventsTyped == events \in Seq(Messages) /\ Len(events) <= EventDepth

NetTyped ==
  /\ WireTyped /\ up \in Seq(Readies) /\ accepted \in Readies
  /\ link \in {"up", "down"} /\ lost \in BOOLEAN

ReadTyped ==
  /\ reader \in {"recv", "emit", "closing", "done"} /\ held \in Messages
  /\ said \in Whys /\ gen \in Gens /\ dropped \subseteq Kinds /\ quiet \in BOOLEAN

EndTyped ==
  /\ ending \in [Closers -> {"no", "said", "parting", "cancelled", "done"}]
  /\ once \in Closers \union {"nobody"} /\ cancelled \in BOOLEAN /\ reason \in Whys

UITyped ==
  /\ ui \in {"attached", "left", "told"} /\ waiting \in BOOLEAN
  /\ shown \in Gens /\ presses \in 0 .. MaxPresses

SendTyped ==
  /\ sending \in [Closers -> {"no", "queued", "writing", "clearing"}]
  /\ deadline \in BOOLEAN /\ draft \in Readies /\ stalled \in BOOLEAN

Types ==
  HostTyped /\ NetTyped /\ ReadTyped /\ EventsTyped /\ EndTyped /\ UITyped /\ SendTyped

\* What does not change keeps its type.
LEMMA Untouched ==
  /\ HostTyped /\ UNCHANGED hostVars => HostTyped'
  /\ NetTyped /\ UNCHANGED netVars => NetTyped'
  /\ ReadTyped /\ UNCHANGED readVars => ReadTyped'
  /\ EventsTyped /\ UNCHANGED events => EventsTyped'
  /\ EndTyped /\ UNCHANGED endVars => EndTyped'
  /\ UITyped /\ UNCHANGED uiVars => UITyped'
  /\ SendTyped /\ UNCHANGED sendVars => SendTyped'
<1>1. HostTyped /\ UNCHANGED hostVars => HostTyped'
  BY DEF HostTyped, hostVars
<1>2. NetTyped /\ UNCHANGED netVars => NetTyped'
  BY DEF NetTyped, WireTyped, netVars
<1>3. ReadTyped /\ UNCHANGED readVars => ReadTyped'
  BY DEF ReadTyped, readVars
<1>4. EventsTyped /\ UNCHANGED events => EventsTyped'
  BY DEF EventsTyped
<1>5. EndTyped /\ UNCHANGED endVars => EndTyped'
  BY DEF EndTyped, endVars
<1>6. UITyped /\ UNCHANGED uiVars => UITyped'
  BY DEF UITyped, uiVars
<1>7. SendTyped /\ UNCHANGED sendVars => SendTyped'
  BY DEF SendTyped, sendVars
<1> QED
  BY <1>1, <1>2, <1>3, <1>4, <1>5, <1>6, <1>7

\* A message joins a queue that has room; the first of one leaves; the end of one is lost.
LEMMA QueueKept ==
  ASSUME NEW S, NEW q \in Seq(S), NEW d \in Nat, Len(q) <= d
  PROVE  /\ \A e \in S : Len(q) < d => Append(q, e) \in Seq(S) /\ Len(Append(q, e)) <= d
         /\ q # <<>> => Head(q) \in S /\ Tail(q) \in Seq(S) /\ Len(Tail(q)) < d
         /\ \A n \in Nat : n <= Len(q) =>
              SubSeq(q, 1, n) \in Seq(S) /\ Len(SubSeq(q, 1, n)) <= d
<1>1. Len(q) \in Nat
  OBVIOUS
<1>2. ASSUME NEW e \in S, Len(q) < d
      PROVE  Append(q, e) \in Seq(S) /\ Len(Append(q, e)) <= d
  BY <1>1, <1>2, AppendProperties
<1>3. ASSUME q # <<>>
      PROVE  Head(q) \in S /\ Tail(q) \in Seq(S) /\ Len(Tail(q)) < d
  BY <1>1, <1>3, HeadTailProperties
<1>4. ASSUME NEW n \in Nat, n <= Len(q)
      PROVE  SubSeq(q, 1, n) \in Seq(S) /\ Len(SubSeq(q, 1, n)) <= d
  BY <1>1, <1>4, SubSeqProperties
<1> QED
  BY <1>2, <1>3, <1>4

\* What is read of the connection after it ended is some of what it held.
LEMMA BufferedTyped ==
  ASSUME WireTyped, NEW n \in 0 .. WireDepth, Buffered(n)
  PROVE  WireTyped'
  BY QueueKept, ClientAssumption DEF WireTyped, Buffered

\* A message on its way to the client.
LEMMA HostSendsTyped ==
  ASSUME Types, NEW m \in Messages, HostSends(m)
  PROVE  NetTyped' /\ ReadTyped' /\ EventsTyped' /\ EndTyped' /\ UITyped' /\ SendTyped'
<1>1. WireTyped'
  BY QueueKept, ClientAssumption DEF HostSends, Types, NetTyped, WireTyped
<1>2. UNCHANGED <<readVars, events, endVars, uiVars, sendVars>>
  BY DEF HostSends
<1>3. NetTyped'
  BY <1>1 DEF HostSends, Types, NetTyped
<1> QED
  BY <1>2, <1>3, Untouched DEF Types

\* The host and the network.
LEMMA OutsideTyped ==
  ASSUME Types,
         \/ HostReconfigures \/ HostTells \/ HostDismisses \/ HostDies \/ HostTakesReady
         \/ ConnectionStalls \/ ConnectionFails \/ SilencePasses
  PROVE  Types'
<1>0. hostGen \in Gens /\ 0 \in Gens /\ MaxGen \in Nat /\ MaxTalk \in Nat
  BY ClientAssumption DEF Types, HostTyped, Gens
<1>1. CASE HostReconfigures
  <2>1. hostGen + 1 \in Gens
    BY <1>0, <1>1 DEF HostReconfigures, Gens
  <2>2. Msg("lobby", hostGen + 1) \in Messages
    BY <2>1 DEF Msg, Messages, Kinds, Gens
  <2>3. HostTyped'
    BY <1>1, <2>1 DEF HostReconfigures, Types, HostTyped
  <2> QED
    BY <1>1, <2>2, <2>3, HostSendsTyped DEF HostReconfigures, Types
<1>2. CASE HostTells
  <2>1. PICK m \in {Msg("tick", 0), Msg("request", 0), Msg("lobby", hostGen)} : HostSends(m)
    BY <1>2 DEF HostTells
  <2>2. m \in Messages
    BY <1>0, <2>1 DEF Msg, Messages, Kinds, Gens
  <2>3. talk' \in 0 .. MaxTalk
    <3>1. talk \in 0 .. MaxTalk /\ talk < MaxTalk /\ talk' = talk + 1
      BY <1>2 DEF HostTells, Types, HostTyped
    <3> QED
      BY <1>0, <3>1
  <2>4. HostTyped'
    BY <1>2, <2>3 DEF HostTells, Types, HostTyped
  <2> QED
    BY <2>1, <2>2, <2>4, HostSendsTyped DEF Types
<1>3. CASE HostDismisses
  <2>1. Msg("dismissal", 0) \in Messages
    BY <1>0 DEF Msg, Messages, Kinds, Gens
  <2>2. HostTyped'
    BY <1>3 DEF HostDismisses, Types, HostTyped
  <2> QED
    BY <1>3, <2>1, <2>2, HostSendsTyped DEF HostDismisses, Types
<1>4. CASE HostDies
  <2>1. HostTyped'
    BY <1>4 DEF HostDies, Types, HostTyped
  <2> QED
    BY <1>4, <2>1, Untouched DEF HostDies, Types
<1>5. CASE HostTakesReady
  <2>1. Head(up) \in Readies /\ Tail(up) \in Seq(Readies)
    BY <1>5, HeadTailProperties DEF HostTakesReady, Types, NetTyped
  <2>2. NetTyped'
    BY <1>5, <2>1 DEF HostTakesReady, Types, NetTyped, WireTyped
  <2> QED
    BY <1>5, <2>2, Untouched DEF HostTakesReady, Types
<1>6. CASE ConnectionStalls
  <2>1. SendTyped'
    BY <1>6 DEF ConnectionStalls, Types, SendTyped
  <2> QED
    BY <1>6, <2>1, Untouched DEF ConnectionStalls, Types
<1>7. CASE ConnectionFails
  <2>1. WireTyped'
    BY <1>7, BufferedTyped DEF ConnectionFails, Types, NetTyped
  <2>2. up' \in Seq(Readies)
    BY <1>7, EmptySeq DEF ConnectionFails
  <2>3. NetTyped'
    BY <1>7, <2>1, <2>2 DEF ConnectionFails, Types, NetTyped
  <2> QED
    BY <1>7, <2>3, Untouched DEF ConnectionFails, Types
<1>8. CASE SilencePasses
  <2>1. ReadTyped'
    BY <1>8 DEF SilencePasses, Types, ReadTyped
  <2> QED
    BY <1>8, <2>1, Untouched DEF SilencePasses, Types
<1> QED
  BY <1>1, <1>2, <1>3, <1>4, <1>5, <1>6, <1>7, <1>8

\* A send under way, and the three steps that end a session.
LEMMA GoroutineTyped ==
  ASSUME Types, NEW who \in Closers, SendStep(who) \/ EndStep(who)
  PROVE  Types'
<1>1. CASE SendStep(who)
  <2>1. SendTyped'
    BY <1>1 DEF SendStep, TakeTurn, WriteReturns, ClearDeadline, Types, SendTyped
  <2>2. up' \in Seq(Readies)
    <3>1. up \in Seq(Readies) /\ draft \in Readies
      BY DEF Types, NetTyped, SendTyped
    <3>2. Append(up, draft) \in Seq(Readies)
      BY <3>1, AppendProperties
    <3> QED
      BY <1>1, <3>1, <3>2 DEF SendStep, TakeTurn, WriteReturns, ClearDeadline
  <2>3. NetTyped'
    BY <1>1, <2>2 DEF SendStep, Types, NetTyped, WireTyped
  <2> QED
    BY <1>1, <2>1, <2>3, Untouched DEF SendStep, Types
<1>2. CASE Part(who)
  <2>1. EndTyped' /\ SendTyped'
    BY <1>2 DEF Part, StartSend, SendStarted, Types, EndTyped, SendTyped
  <2> QED
    BY <1>2, <2>1, Untouched DEF Part, SendStarted, Types
<1>3. CASE Cancel(who)
  <2>1. EndTyped'
    BY <1>3 DEF Cancel, Types, EndTyped
  <2> QED
    BY <1>3, <2>1, Untouched DEF Cancel, Types
<1>4. CASE CloseConn(who)
  <2>1. EndTyped'
    BY <1>4 DEF CloseConn, Types, EndTyped
  <2>2. WireTyped'
    BY <1>4, BufferedTyped DEF CloseConn, Types, NetTyped
  <2>3. NetTyped'
    BY <1>4, <2>2 DEF CloseConn, Types, NetTyped
  <2> QED
    BY <1>4, <2>1, <2>3, Untouched DEF CloseConn, Types
<1>5. CASE AlreadyClosed(who)
  <2>1. EndTyped'
    BY <1>5 DEF AlreadyClosed, Types, EndTyped
  <2> QED
    BY <1>5, <2>1, Untouched DEF AlreadyClosed, Types
<1> QED
  BY <1>1, <1>2, <1>3, <1>4, <1>5 DEF EndStep

\* pingLoop.
LEMMA PingTyped ==
  ASSUME Types, Ping \/ GiveUpOnHost
  PROVE  Types'
<1>1. CASE Ping
  <2>1. SendTyped'
    BY <1>1 DEF Ping, StartSend, SendStarted, Types, SendTyped, Closers
  <2> QED
    BY <1>1, <2>1, Untouched DEF Ping, SendStarted, Types
<1>2. CASE GiveUpOnHost
  <2>1. EndTyped'
    BY <1>2 DEF GiveUpOnHost, SayWhy, SetReason, Types, EndTyped, Whys, Closers
  <2> QED
    BY <1>2, <2>1, Untouched DEF GiveUpOnHost, Types
<1> QED
  BY <1>1, <1>2

\* readLoop: in particular an event is put into the channel only when there is room.
LEMMA ReaderTyped ==
  ASSUME Types, ReadStep
  PROVE  Types'
<1>0. /\ EventDepth \in Nat \ {0} /\ WireDepth \in Nat
      /\ events \in Seq(Messages) /\ Len(events) \in Nat /\ Len(events) <= EventDepth
      /\ wire \in Seq(Messages) /\ Len(wire) <= WireDepth /\ held \in Messages
  BY ClientAssumption DEF Types, NetTyped, WireTyped, EventsTyped, ReadTyped
<1>1. CASE Receive
  <2>1. Head(wire) \in Messages /\ WireTyped'
    BY <1>0, <1>1, QueueKept DEF Receive, WireTyped
  <2>2. NetTyped'
    BY <1>1, <2>1 DEF Receive, Types, NetTyped
  <2>3. Head(wire).gen \in Gens
    BY <2>1 DEF Messages, Gens
  <2>4. ReadTyped'
    BY <1>1, <2>1, <2>3 DEF Receive, Types, ReadTyped
  <2>5. EndTyped'
    BY <1>1 DEF Receive, SayWhy, SetReason, Types, EndTyped, Whys, Closers
  <2>6. SendTyped'
    BY <1>1 DEF Receive, StartSend, Types, SendTyped, Closers
  <2> QED
    BY <1>1, <2>2, <2>4, <2>5, <2>6, Untouched DEF Receive, Types
<1>2. CASE ReceiveFails
  <2>1. reason' \in Whys
    BY <1>2 DEF ReceiveFails, SetReason, Types, EndTyped, Whys
  <2>2. ReadTyped' /\ EndTyped'
    BY <1>2, <2>1 DEF ReceiveFails, Types, ReadTyped, EndTyped
  <2>3. NetTyped'
    BY <1>2 DEF ReceiveFails, Types, NetTyped, WireTyped
  <2> QED
    BY <1>2, <2>2, <2>3, Untouched DEF ReceiveFails, Types
<1>3. ASSUME NEW queue, Emitted(queue), dropped' \subseteq Kinds,
             queue \in Seq(Messages), Len(queue) <= EventDepth
      PROVE  Types'
  <2>1. Nothing \in Messages
    BY ClientAssumption DEF Nothing, Msg, Messages, Kinds
  <2>2. ReadTyped' /\ EventsTyped'
    BY <1>3, <2>1 DEF Emitted, Types, ReadTyped, EventsTyped
  <2> QED
    BY <1>3, <2>2, Untouched DEF Emitted, Types
<1>4. CASE Emit
  BY <1>0, <1>3, <1>4, QueueKept DEF Emit, Types, ReadTyped
<1>5. CASE Squeeze
  <2>1. /\ Head(events) \in Messages /\ Tail(events) \in Seq(Messages)
        /\ Len(Tail(events)) < EventDepth
    <3>1. events # <<>>
      BY <1>0, <1>5, EmptySeq DEF Squeeze
    <3> QED
      BY <1>0, <3>1, QueueKept
  <2>2. /\ Append(Tail(events), held) \in Seq(Messages)
        /\ Len(Append(Tail(events), held)) <= EventDepth
    BY <1>0, <2>1, QueueKept
  <2>3. dropped' \subseteq Kinds
    BY <1>5, <2>1 DEF Squeeze, Types, ReadTyped, Messages
  <2> QED
    BY <1>3, <1>5, <2>2, <2>3 DEF Squeeze
<1>6. CASE Abandon
  BY <1>0, <1>3, <1>6 DEF Abandon, Types, ReadTyped
<1>7. CASE CloseStream
  <2>1. Msg("closed", 0) \in Messages
    BY ClientAssumption DEF Msg, Messages, Kinds
  <2>2. EventsTyped'
    BY <1>0, <1>7, <2>1, QueueKept DEF CloseStream, EventsTyped
  <2>3. ReadTyped'
    BY <1>7 DEF CloseStream, Types, ReadTyped
  <2> QED
    BY <1>7, <2>2, <2>3, Untouched DEF CloseStream, Types
<1> QED
  BY <1>1, <1>2, <1>4, <1>5, <1>6, <1>7 DEF ReadStep

\* The screen.
LEMMA ScreenTyped ==
  ASSUME Types, TakeEvent \/ PressReady \/ Leave
  PROVE  Types'
<1>1. CASE TakeEvent
  <2>1. Head(events) \in Messages /\ EventsTyped'
    BY <1>1, QueueKept, ClientAssumption DEF TakeEvent, Types, EventsTyped
  <2>2. Head(events).gen \in Gens
    BY <2>1 DEF Messages, Gens
  <2>3. UITyped'
    BY <1>1, <2>2 DEF TakeEvent, Types, UITyped
  <2> QED
    BY <1>1, <2>1, <2>3, Untouched DEF TakeEvent, Types
<1>2. CASE PressReady
  <2>1. SendTyped'
    <3>1. draft' \in Readies
      BY <1>2 DEF PressReady, Types, SendTyped, ReadTyped, UITyped, Readies
    <3>2. /\ sending' \in [Closers -> {"no", "queued", "writing", "clearing"}]
          /\ deadline' \in BOOLEAN
      BY <1>2 DEF PressReady, StartSend, Types, SendTyped
    <3> QED
      BY <1>2, <3>1, <3>2 DEF PressReady, SendStarted, Types, SendTyped
  <2>2. presses' \in 0 .. MaxPresses
    <3>1. presses \in 0 .. MaxPresses /\ presses < MaxPresses /\ presses' = presses + 1
      BY <1>2 DEF PressReady, Types, UITyped
    <3> QED
      BY <3>1, ClientAssumption
  <2>3. UITyped'
    BY <1>2, <2>2 DEF PressReady, Types, UITyped
  <2> QED
    BY <1>2, <2>1, <2>3, Untouched DEF PressReady, SendStarted, Types
<1>3. CASE Leave
  <2>1. EndTyped'
    BY <1>3 DEF Leave, SayWhy, SetReason, Types, EndTyped, Whys, Closers
  <2>2. UITyped'
    BY <1>3 DEF Leave, Types, UITyped
  <2> QED
    BY <1>3, <2>1, <2>2, Untouched DEF Leave, Types
<1> QED
  BY <1>1, <1>2, <1>3

\* The three goroutines keep to their states, and the event channel to its room
\* (Client.emit, Client.closeStream).
THEOREM ClientTyped == Spec => []TypeOK
<1>1. Init => Types
  <2> SUFFICES ASSUME Init PROVE Types
    OBVIOUS
  <2>1. wire \in Seq(Messages) /\ up \in Seq(Readies) /\ events \in Seq(Messages)
    <3>1. wire = <<>> /\ up = <<>> /\ events = <<>>
      BY DEF Init
    <3> QED
      BY <3>1, EmptySeq
  <2>2. Len(wire) = 0 /\ Len(events) = 0
    BY DEF Init
  <2>3. /\ 0 \in Gens /\ 0 \in 0 .. MaxTalk /\ 0 \in 0 .. MaxPresses
        /\ 0 <= WireDepth /\ 0 <= EventDepth
    BY ClientAssumption DEF Gens
  <2>4. Nothing \in Messages /\ NoReady \in Readies
    BY <2>3 DEF Nothing, NoReady, Msg, Messages, Readies, Kinds, Gens
  <2>5. HostTyped /\ NetTyped /\ EventsTyped
    BY <2>1, <2>2, <2>3, <2>4 DEF Init, HostTyped, NetTyped, WireTyped, EventsTyped
  <2>6. ReadTyped /\ EndTyped /\ UITyped /\ SendTyped
    BY <2>3, <2>4 DEF Init, ReadTyped, EndTyped, UITyped, SendTyped, Whys
  <2> QED
    BY <2>5, <2>6 DEF Types
<1>2. Types /\ [Next]_vars => Types'
  <2> SUFFICES ASSUME Types, [Next]_vars PROVE Types'
    OBVIOUS
  <2>1. CASE Next
    BY <2>1, OutsideTyped, GoroutineTyped, PingTyped, ReaderTyped, ScreenTyped DEF Next
  <2>2. CASE UNCHANGED vars
    BY <2>2, Untouched DEF vars, Types
  <2> QED
    BY <2>1, <2>2
<1>3. Types => TypeOK
  BY DEF Types, HostTyped, NetTyped, WireTyped, ReadTyped, EventsTyped, EndTyped, UITyped,
         SendTyped, Gens, Readies, Whys, TypeOK
<1> QED
  BY <1>1, <1>2, <1>3, PTL DEF Spec
=============================================================================
