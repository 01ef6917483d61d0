---------------------------- MODULE TsNodeProofs ----------------------------
(***************************************************************************)
(* What holds of TsNode for every set of URLs and every depth of its       *)
(* channels: no status is lost but by a newer one, onboarding can always   *)
(* be left, and the interface comes to show what the backend is.           *)
(***************************************************************************)
EXTENDS TsNode, SequenceTheorems, TLAPS

Notifications ==
  [state : BackendStates \union {""}, url : URLs \union {""}, error : BOOLEAN]
Folds == [st : Statuses, changed : BOOLEAN]
Models == [node : Statuses, screen : {"onboarding", "menu"}, success : BOOLEAN, ever : BOOLEAN]

\* The types that the step needs.
Typed ==
  /\ backend \in [state : BackendStates, url : URLs \union {""}]
  /\ bus \in Seq(Notifications)
  /\ status \in Statuses /\ updates \in Seq(Statuses)
  /\ ui \in Models

IInv == Typed /\ NewestArrives /\ OnboardingEnds

\* phaseFor gives a phase for every state of the backend.
LEMMA PhasesOfStates == \A s \in BackendStates : PhaseFor(s) \in Phases
  BY DEF Phases

\* Each part of handle gives a status.
LEMMA FoldsTyped ==
  ASSUME NEW r \in Folds, NEW n \in Notifications, NEW ok \in BOOLEAN,
         backend \in [state : BackendStates, url : URLs \union {""}]
  PROVE  /\ WithError(r, n) \in Folds
         /\ WithURL(r, n) \in Folds
         /\ WithPhase(r, n) \in Folds
         /\ WithDetails(r, n, ok) \in Folds
<1>0. "failed" \in Phases /\ "needs-login" \in Phases
  BY DEF Phases, PhaseFor, BackendStates
<1>1. WithError(r, n) \in Folds
  BY <1>0 DEF WithError, Folds, Statuses, Errors
<1>2. WithURL(r, n) \in Folds
  BY <1>0 DEF WithURL, Folds, Statuses, Errors, Notifications
<1>3. WithPhase(r, n) \in Folds
  BY PhasesOfStates DEF WithPhase, Folds, Statuses, Notifications
<1>4. WithDetails(r, n, ok) \in Folds
  BY DEF WithDetails, Folds, Statuses, Errors, Notifications
<1>. QED
  BY <1>1, <1>2, <1>3, <1>4

\* What publish leaves in the channel ends with what it was given.
LEMMA PublishEndsWith ==
  ASSUME NEW st \in Statuses, updates \in Seq(Statuses), Publish(st)
  PROVE  /\ updates' \in Seq(Statuses) /\ updates' # <<>>
         /\ updates'[Len(updates')] = st /\ status' = st
<1>1. PICK kept \in Seq(Statuses) : updates' = Append(kept, st)
  <2>1. CASE Len(updates) < Depth
    BY <2>1 DEF Publish
  <2>2. CASE ~(Len(updates) < Depth)
    <3>1. Depth \in Nat \ {0}
      BY TsNodeAssumption
    <3>2. updates # <<>>
      BY <2>2, <3>1
    <3>3. Tail(updates) \in Seq(Statuses)
      BY <3>2
    <3>. QED
      BY <2>2, <3>3 DEF Publish
  <2>. QED
    BY <2>1, <2>2
<1>2. /\ updates' \in Seq(Statuses)
      /\ Len(updates') = Len(kept) + 1
      /\ updates'[Len(kept) + 1] = st
  BY <1>1
<1>3. updates' # <<>>
  BY <1>2
<1>. QED
  BY <1>2, <1>3 DEF Publish

\* The node starts in the invariant.
LEMMA InitHolds == Init => IInv
<1>. SUFFICES ASSUME Init PROVE IInv
  OBVIOUS
<1>1. Unknown \in Statuses
  BY DEF Unknown, Statuses, Phases, PhaseFor, BackendStates, Errors
<1>2. bus \in Seq(Notifications) /\ updates \in Seq(Statuses)
  <2>1. bus = <<>> /\ updates = <<>>
    BY DEF Init
  <2>. QED
    BY <2>1, EmptySeq
<1>3. ui \in Models
  BY <1>1 DEF Init, Models
<1>4. backend \in [state : BackendStates, url : URLs \union {""}]
  BY DEF Init
<1>5. Typed
  BY <1>1, <1>2, <1>3, <1>4 DEF Init, Typed
<1>. QED
  BY <1>5 DEF Init, IInv, NewestArrives, OnboardingEnds

\* Every notification, fault and reading keeps it.
LEMMA StepHolds == IInv /\ [Next]_vars => IInv'
<1>. SUFFICES ASSUME IInv, [Next]_vars PROVE IInv'
  OBVIOUS
<1>. USE DEF IInv
<1>1. CASE Handle
  <2>1. PICK ok \in BOOLEAN, r \in Folds :
          IF r.changed THEN Publish(r.st) ELSE UNCHANGED <<status, updates>>
    <3>1. PICK ok \in BOOLEAN :
            LET r == WithDetails(WithPhase(WithURL(WithError(
                       [st |-> status, changed |-> FALSE], Head(bus)), Head(bus)),
                       Head(bus)), Head(bus), ok)
            IN  IF r.changed THEN Publish(r.st) ELSE UNCHANGED <<status, updates>>
      BY <1>1 DEF Handle
    <3>2. Head(bus) \in Notifications
      BY <1>1, HeadTailProperties DEF Handle, Typed
    <3>3. [st |-> status, changed |-> FALSE] \in Folds
      BY DEF Typed, Folds
    <3>. DEFINE n == Head(bus)
                r1 == WithError([st |-> status, changed |-> FALSE], n)
                r2 == WithURL(r1, n)
                r3 == WithPhase(r2, n)
    <3>4. r1 \in Folds
      BY <3>2, <3>3, FoldsTyped DEF Typed
    <3>. HIDE DEF r1
    <3>5. r2 \in Folds
      BY <3>2, <3>4, FoldsTyped DEF Typed
    <3>. HIDE DEF r2
    <3>6. r3 \in Folds
      BY <3>2, <3>5, FoldsTyped DEF Typed
    <3>. HIDE DEF r3
    <3>7. WithDetails(r3, n, ok) \in Folds
      BY <3>2, <3>6, FoldsTyped DEF Typed
    <3>. QED
      BY <3>1, <3>7 DEF r1, r2, r3
  <2>2. bus' \in Seq(Notifications) /\ backend' = backend /\ ui' = ui
    BY <1>1, HeadTailProperties DEF Handle, Typed
  <2>3. CASE r.changed
    <3>1. r.st \in Statuses
      BY DEF Folds
    <3>2. /\ updates' \in Seq(Statuses) /\ updates' # <<>>
          /\ updates'[Len(updates')] = r.st /\ status' = r.st
      BY <2>1, <2>3, <3>1, PublishEndsWith DEF Typed
    <3>. QED
      BY <2>2, <3>1, <3>2 DEF Typed, NewestArrives, OnboardingEnds
  <2>4. CASE ~r.changed
    BY <2>1, <2>2, <2>4 DEF Typed, NewestArrives, OnboardingEnds
  <2>. QED
    BY <2>3, <2>4
<1>2. CASE AttachFails
  <2>1. [status EXCEPT !.err = "bus"] \in Statuses
    BY DEF Typed, Statuses, Errors
  <2>2. /\ updates' \in Seq(Statuses) /\ updates' # <<>>
        /\ updates'[Len(updates')] = status'
        /\ status' \in Statuses
    BY <1>2, <2>1, PublishEndsWith DEF AttachFails, Typed
  <2>. QED
    BY <1>2, <2>2 DEF AttachFails, Typed, NewestArrives, OnboardingEnds
<1>3. CASE Receive
  <2>1. Head(updates) \in Statuses /\ Tail(updates) \in Seq(Statuses)
    BY <1>3, HeadTailProperties DEF Receive, Typed
  <2>. DEFINE rest == Tail(updates)
  <2>0. /\ updates \in Seq(Statuses) /\ updates # <<>> /\ updates' = rest
        /\ Len(updates) \in Nat \ {0}
        /\ rest \in Seq(Statuses) /\ Len(rest) = Len(updates) - 1
        /\ \A i \in 1 .. Len(rest) : rest[i] = updates[i + 1]
    BY <1>3, HeadTailProperties, EmptySeq DEF Receive, Typed
  <2>2. ui' \in Models /\ ui'.node = Head(updates)
    BY <1>3, <2>1 DEF Receive, Shown, Typed, Models
  <2>3. Typed'
    BY <1>3, <2>1, <2>2 DEF Receive, Typed
  <2>4. NewestArrives'
    <3>1. CASE Len(updates) = 1
      <4>1. updates' = <<>> /\ updates[Len(updates)] = Head(updates)
        <5>1. rest = <<>>
          BY <2>0, <3>1, EmptySeq
        <5>2. updates[1] = Head(updates)
          BY <2>0
        <5>. QED
          BY <2>0, <3>1, <5>1, <5>2
      <4>. QED
        BY <1>3, <2>2, <4>1 DEF Receive, NewestArrives
    <3>2. CASE Len(updates) # 1
      <4>1. updates' # <<>> /\ updates'[Len(updates')] = updates[Len(updates)]
        <5>1. Len(rest) \in Nat \ {0} /\ Len(rest) + 1 = Len(updates)
          BY <2>0, <3>2
        <5>2. rest # <<>>
          BY <5>1, EmptySeq
        <5>3. rest[Len(rest)] = updates[Len(rest) + 1]
          BY <2>0, <5>1
        <5>. QED
          BY <2>0, <5>1, <5>2, <5>3
      <4>. QED
        BY <1>3, <4>1 DEF Receive, NewestArrives
    <3>. QED
      BY <3>1, <3>2
  <2>5. OnboardingEnds'
    BY <1>3 DEF Receive, Shown, OnboardingEnds, Typed, Models
  <2>. QED
    BY <2>3, <2>4, <2>5
<1>4. CASE BeatEnds
  BY <1>4 DEF BeatEnds, Typed, Models, NewestArrives, OnboardingEnds
<1>5. CASE Attach
  <2>1. Current \in Notifications
    BY DEF Current, Typed, Notifications
  <2>2. <<Current>> \in Seq(Notifications)
    BY <2>1
  <2>. QED
    BY <1>5, <2>2 DEF Attach, Typed, NewestArrives, OnboardingEnds
<1>6. CASE BusEnds \/ Wake
  BY <1>6, EmptySeq DEF BusEnds, Wake, Typed, NewestArrives, OnboardingEnds
<1>7. ASSUME NEW n \in Notifications, Notify(n),
             backend' \in [state : BackendStates, url : URLs \union {""}],
             UNCHANGED <<watch, status, updates, ui>>
      PROVE  IInv'
  <2>1. bus' \in Seq(Notifications)
    BY <1>7, AppendProperties DEF Notify, Typed
  <2>. QED
    BY <1>7, <2>1 DEF Typed, NewestArrives, OnboardingEnds
<1>8. CASE Complains
  <2>1. ErrMessage \in Notifications
    BY DEF ErrMessage, Notifications
  <2>. QED
    BY <1>7, <1>8, <2>1 DEF Complains, Typed
<1>9. ASSUME NEW s \in BackendStates, Becomes(s) PROVE IInv'
  <2>1. State(s) \in Notifications
    BY DEF State, Notifications
  <2>2. backend' \in [state : BackendStates, url : URLs \union {""}]
    BY <1>9 DEF Becomes
  <2>. QED
    BY <1>7, <1>9, <2>1, <2>2 DEF Becomes
<1>10. ASSUME NEW u \in URLs, LoginURL(u) PROVE IInv'
  <2>1. BrowseToURL(u) \in Notifications
    BY DEF BrowseToURL, Notifications
  <2>2. backend' \in [state : BackendStates, url : URLs \union {""}]
    BY <1>10 DEF LoginURL, Typed
  <2>. QED
    BY <1>7, <1>10, <2>1, <2>2 DEF LoginURL
<1>11. CASE UNCHANGED vars
  BY <1>11 DEF vars, Typed, NewestArrives, OnboardingEnds
<1>. QED
  BY <1>1, <1>2, <1>3, <1>4, <1>5, <1>6, <1>8, <1>9, <1>10, <1>11 DEF Next

\* Old statuses may be dropped when the interface is behind, the newest is
\* always either shown or the last in the channel (Node.publish).
THEOREM NewestArrivesAlways == Spec => []NewestArrives
BY InitHolds, StepHolds, PTL DEF Spec, IInv

\* However a login is lost and found again, the onboarding screen of a node that
\* is connected shows the success beat, which leads out of it
\* (Model.handleNodeStatus).
THEOREM OnboardingEndsAlways == Spec => []OnboardingEnds
BY InitHolds, StepHolds, PTL DEF Spec, IInv
-----------------------------------------------------------------------------
(***************************************************************************)
(* The channels.                                                           *)
(***************************************************************************)
\* What the channels and the model's own counters hold at most.
Bounded ==
  /\ watch \in {"detached", "attached", "sleeping"}
  /\ watch # "attached" => bus = <<>>
  /\ Len(bus) <= BusDepth /\ Len(updates) <= Depth
  /\ changes \in 0 .. MaxChanges /\ faults \in 0 .. MaxFaults

\* The bounds are numbers, and the channels hold something.
LEMMA Depths ==
  /\ Depth \in Nat \ {0} /\ BusDepth \in Nat \ {0}
  /\ MaxChanges \in Nat /\ MaxFaults \in Nat
<1>1. Depth \in Nat \ {0}
  BY TsNodeAssumption
<1>2. BusDepth \in Nat \ {0}
  BY TsNodeAssumption
<1>3. MaxChanges \in Nat
  BY TsNodeAssumption
<1>4. MaxFaults \in Nat
  BY TsNodeAssumption
<1>. QED
  BY <1>1, <1>2, <1>3, <1>4

\* publish makes room before it sends.
LEMMA PublishFits ==
  ASSUME updates \in Seq(Statuses), Len(updates) <= Depth,
         NEW st \in Statuses, Publish(st)
  PROVE  Len(updates') <= Depth
<1>1. Depth \in Nat \ {0} /\ Len(updates) \in Nat
  BY Depths
<1>2. CASE Len(updates) < Depth
  <2>1. Len(updates') = Len(updates) + 1
    BY <1>2, AppendProperties DEF Publish
  <2>. QED
    BY <1>1, <1>2, <2>1
<1>3. CASE ~(Len(updates) < Depth)
  <2>1. updates # <<>>
    BY <1>1, <1>3
  <2>2. Tail(updates) \in Seq(Statuses) /\ Len(Tail(updates)) = Len(updates) - 1
    BY <2>1, HeadTailProperties
  <2>3. Len(updates') = Len(Tail(updates)) + 1
    BY <1>3, <2>2, AppendProperties DEF Publish
  <2>. QED
    BY <1>1, <2>2, <2>3
<1>. QED
  BY <1>2, <1>3

\* What handle publishes is a status.
LEMMA HandlePublishes ==
  ASSUME Typed, Handle
  PROVE  (\E st \in Statuses : Publish(st)) \/ UNCHANGED <<status, updates>>
<1>. DEFINE n == Head(bus)
            r1 == WithError([st |-> status, changed |-> FALSE], n)
            r2 == WithURL(r1, n)
            r3 == WithPhase(r2, n)
<1>1. PICK ok \in BOOLEAN :
        LET r == WithDetails(r3, n, ok)
        IN  IF r.changed THEN Publish(r.st) ELSE UNCHANGED <<status, updates>>
  BY DEF Handle
<1>2. n \in Notifications
  BY HeadTailProperties DEF Handle, Typed
<1>3. r1 \in Folds
  BY <1>2, FoldsTyped DEF Typed, Folds
<1>. HIDE DEF r1
<1>4. r2 \in Folds
  BY <1>2, <1>3, FoldsTyped DEF Typed
<1>. HIDE DEF r2
<1>5. r3 \in Folds
  BY <1>2, <1>4, FoldsTyped DEF Typed
<1>. HIDE DEF r3
<1>6. WithDetails(r3, n, ok).st \in Statuses
  BY <1>2, <1>5, FoldsTyped DEF Typed, Folds
<1>. QED
  BY <1>1, <1>6

\* A notification joins the bus when there is room, and only a bus that is attached.
LEMMA NotifyFits ==
  ASSUME bus \in Seq(Notifications), watch # "attached" => bus = <<>>,
         Len(bus) < BusDepth, NEW n \in Notifications, Notify(n)
  PROVE  /\ watch # "attached" => bus' = <<>>
         /\ Len(bus') <= BusDepth
<1>1. BusDepth \in Nat \ {0} /\ Len(bus) \in Nat
  BY Depths
<1>2. CASE watch = "attached"
  <2>1. Len(bus') = Len(bus) + 1
    BY <1>2, AppendProperties DEF Notify
  <2>. QED
    BY <1>1, <1>2, <2>1
<1>3. CASE watch # "attached"
  BY <1>1, <1>3 DEF Notify
<1>. QED
  BY <1>2, <1>3

\* Nothing overfills a channel.
LEMMA StepBounded == Typed /\ Bounded /\ [Next]_vars => Bounded'
<1>. SUFFICES ASSUME Typed, Bounded, [Next]_vars PROVE Bounded'
  OBVIOUS
<1>01. bus \in Seq(Notifications) /\ updates \in Seq(Statuses)
  BY DEF Typed
<1>02. Len(bus) \in Nat /\ Len(updates) \in Nat
  BY <1>01
<1>0. /\ Depth \in Nat \ {0} /\ BusDepth \in Nat \ {0}
      /\ MaxChanges \in Nat /\ MaxFaults \in Nat
      /\ bus \in Seq(Notifications) /\ updates \in Seq(Statuses)
      /\ Len(bus) \in Nat /\ Len(updates) \in Nat
  BY ONLY Depths, <1>01, <1>02
<1>1. CASE Handle
  <2>1. Len(bus') <= BusDepth
    <3>1. bus' = Tail(bus) /\ bus # <<>>
      BY <1>1 DEF Handle
    <3>2. Len(bus') = Len(bus) - 1
      BY <1>0, <3>1, HeadTailProperties
    <3>. QED
      BY <1>0, <3>2 DEF Bounded
  <2>2. Len(updates') <= Depth
    BY <1>1, HandlePublishes, PublishFits DEF Typed, Bounded
  <2>3. faults' \in 0 .. MaxFaults
    BY <1>0, <1>1 DEF Handle, Bounded
  <2>4. /\ watch = "attached" /\ watch' = watch
        /\ changes' = changes
    BY <1>1 DEF Handle
  <2>. QED
    BY <2>1, <2>2, <2>3, <2>4 DEF Bounded
<1>2. CASE Attach
  <2>1. Len(bus') = 1
    BY <1>2 DEF Attach
  <2>. QED
    BY <1>0, <1>2, <2>1 DEF Attach, Bounded, counts
<1>3. CASE AttachFails
  <2>1. [status EXCEPT !.err = "bus"] \in Statuses
    BY DEF Typed, Statuses, Errors
  <2>2. Len(updates') <= Depth
    BY <1>3, <2>1, PublishFits DEF AttachFails, Typed, Bounded
  <2>. QED
    BY <1>0, <1>3, <2>2 DEF AttachFails, Bounded
<1>4. CASE BusEnds
  <2>1. Len(bus') = 0
    BY <1>4 DEF BusEnds
  <2>. QED
    BY <1>0, <1>4, <2>1 DEF BusEnds, Bounded
<1>5. CASE Wake
  BY <1>5 DEF Wake, Bounded, counts
<1>6. CASE Receive
  <2>1. Len(updates') = Len(updates) - 1
    BY <1>0, <1>6, HeadTailProperties DEF Receive
  <2>. QED
    BY <1>0, <1>6, <2>1 DEF Receive, Bounded, counts
<1>7. CASE BeatEnds
  BY <1>7 DEF BeatEnds, Bounded, counts
<1>8. CASE Complains
  <2>1. ErrMessage \in Notifications
    BY DEF ErrMessage, Notifications
  <2>2. (watch # "attached" => bus' = <<>>) /\ Len(bus') <= BusDepth
    BY <1>0, <1>8, <2>1, NotifyFits DEF Complains, Bounded
  <2>. QED
    BY <1>0, <1>8, <2>2 DEF Complains, Bounded
<1>9. ASSUME NEW s \in BackendStates, Becomes(s) PROVE Bounded'
  <2>1. State(s) \in Notifications
    BY DEF State, Notifications
  <2>2. (watch # "attached" => bus' = <<>>) /\ Len(bus') <= BusDepth
    BY <1>0, <1>9, <2>1, NotifyFits DEF Becomes, Bounded
  <2>3. changes' \in 0 .. MaxChanges
    <3>1. changes < MaxChanges /\ changes' = changes + 1
      BY <1>9 DEF Becomes
    <3>2. changes \in 0 .. MaxChanges
      BY DEF Bounded
    <3>. QED
      BY <1>0, <3>1, <3>2
  <2>4. UNCHANGED <<watch, updates, faults>>
    BY <1>9 DEF Becomes
  <2>. QED
    BY <2>2, <2>3, <2>4 DEF Bounded
<1>10. ASSUME NEW u \in URLs, LoginURL(u) PROVE Bounded'
  <2>1. BrowseToURL(u) \in Notifications
    BY DEF BrowseToURL, Notifications
  <2>2. (watch # "attached" => bus' = <<>>) /\ Len(bus') <= BusDepth
    BY <1>0, <1>10, <2>1, NotifyFits DEF LoginURL, Bounded
  <2>. QED
    BY <1>0, <1>10, <2>2 DEF LoginURL, Bounded
<1>11. CASE UNCHANGED vars
  BY <1>11 DEF vars, counts, Bounded
<1>. QED
  BY <1>1, <1>2, <1>3, <1>4, <1>5, <1>6, <1>7, <1>8, <1>9, <1>10, <1>11 DEF Next

\* The node's channels never hold more than they may, and a bus that ended is empty
\* (Node.publish, Node.watch).
THEOREM TsNodeTyped == Spec => []TypeOK
<1>1. Init => Bounded
  <2>. SUFFICES ASSUME Init PROVE Bounded
    OBVIOUS
  <2>1. Len(bus) = 0 /\ Len(updates) = 0
    BY DEF Init
  <2>2. 0 <= BusDepth /\ 0 <= Depth /\ 0 \in 0 .. MaxChanges /\ 0 \in 0 .. MaxFaults
    BY Depths
  <2>. QED
    BY <2>1, <2>2 DEF Init, Bounded
<1>2. IInv => Typed
  BY DEF IInv
<1>3. Typed /\ Bounded => TypeOK
  BY DEF Typed, Bounded, TypeOK, Notifications, Models
<1>. QED
  BY <1>1, <1>2, <1>3, InitHolds, StepHolds, StepBounded, PTL DEF Spec
-----------------------------------------------------------------------------
(***************************************************************************)
(* What is said by the backend and not yet read.                           *)
(***************************************************************************)
\* No state, and no URL, is told after the ith notification.
Final(b, i) == \A j \in i + 1 .. Len(b) : b[j].state = ""
LastURL(b, i) == \A j \in i + 1 .. Len(b) : b[j].url = ""

\* The last state told is the backend's, and a URL told after it that of a login.
StatesTold(b, now) ==
  \A i \in 1 .. Len(b) : Final(b, i) =>
    /\ b[i].state \in {"", now.state}
    /\ b[i].url # "" => now.state = "NeedsLogin"

\* The last URL told is that of the login in progress, and no state is told after it.
URLsTold(b, now) ==
  now.url # "" => \A i \in 1 .. Len(b) : LastURL(b, i) =>
    b[i].url = now.url \/ (b[i].url = "" /\ b[i].state = "")

\* What the bus does not tell any more, the status st has.
Known(b, now, st) ==
  /\ Final(b, 0) => st.phase \in {"failed", PhaseFor(now.state)}
  /\ now.url # "" /\ LastURL(b, 0) => st.url = now.url

Heard(b, now, st) == StatesTold(b, now) /\ URLsTold(b, now) /\ Known(b, now, st)

LInv ==
  /\ backend.url # "" => backend.state = "NeedsLogin"
  /\ watch = "attached" => Heard(bus, backend, status)

\* What handle makes of a notification that names no state, a state, or a URL.
LEMMA HandleTells ==
  ASSUME Typed, Handle
  PROVE  LET n == Head(bus)
         IN  /\ n.state # "" => status'.phase = PhaseFor(n.state)
             /\ n.state = "" => \/ status'.phase \in {status.phase, "failed"}
                                \/ n.url # "" /\ status'.phase = "needs-login"
             /\ n.url # "" /\ n.state \in {"", "NeedsLogin"} => status'.url = n.url
             /\ n.url = "" /\ n.state = "" => status'.url = status.url
<1>. DEFINE n == Head(bus)
            r0 == [st |-> status, changed |-> FALSE]
            r1 == WithError(r0, n)
            r2 == WithURL(r1, n)
            r3 == WithPhase(r2, n)
<1>1. PICK ok \in BOOLEAN :
        LET r == WithDetails(r3, n, ok)
        IN  IF r.changed THEN Publish(r.st) ELSE UNCHANGED <<status, updates>>
  BY DEF Handle
<1>2. n \in Notifications /\ r0 \in Folds
  BY HeadTailProperties DEF Handle, Typed, Folds
<1>3. /\ r1 \in Folds /\ r1.st.url = status.url
      /\ n.error => r1.changed /\ r1.st.phase = "failed"
      /\ ~ n.error => r1.st = status /\ ~ r1.changed
  BY <1>2, FoldsTyped DEF WithError, Typed, Statuses, Folds
<1>4. r1.changed \/ r1.st = status
  BY <1>2, <1>3 DEF Notifications
<1>. HIDE DEF r1
<1>5. /\ r2 \in Folds /\ (r2.changed \/ r2.st = status)
      /\ \/ r2.st.phase = r1.st.phase
         \/ n.url # "" /\ r2.st.phase = "needs-login"
      /\ n.url # "" => r2.st.url = n.url
      /\ n.url = "" => r2.st.url = status.url
  <2>1. CASE n.url \in {"", r1.st.url}
    BY <1>3, <1>4, <2>1 DEF WithURL
  <2>2. CASE n.url \notin {"", r1.st.url}
    BY <1>2, <1>3, <2>2, FoldsTyped DEF WithURL, Folds, Statuses, Typed
  <2>. QED
    BY <2>1, <2>2
<1>. HIDE DEF r2
<1>6. /\ r3 \in Folds /\ (r3.changed \/ r3.st = status)
      /\ r3.st.url = r2.st.url
      /\ n.state # "" => r3.st.phase = PhaseFor(n.state)
      /\ n.state = "" => r3.st.phase = r2.st.phase
  <2>1. CASE n.state = "" \/ PhaseFor(n.state) = r2.st.phase
    BY <1>5, <2>1 DEF WithPhase
  <2>2. CASE ~ (n.state = "" \/ PhaseFor(n.state) = r2.st.phase)
    <3>1. r3 = [st |-> [r2.st EXCEPT !.phase = PhaseFor(n.state)], changed |-> TRUE]
      BY <2>2 DEF WithPhase
    <3>2. r3 \in Folds
      BY <1>2, <1>5, FoldsTyped DEF Typed
    <3>3. r2.st \in Statuses
      BY <1>5 DEF Folds
    <3>4. PICK st \in Statuses, phase \in Phases \union {PhaseFor(n.state)} :
            /\ st = r2.st /\ phase = PhaseFor(n.state)
            /\ r3 = [st |-> [st EXCEPT !.phase = phase], changed |-> TRUE]
      BY <3>1, <3>3
    <3>5. r3.st.url = r2.st.url /\ r3.st.phase = PhaseFor(n.state) /\ r3.changed
      <4>. HIDE DEF r3
      <4>. QED
        BY <3>4 DEF Statuses
    <3>. QED
      BY <2>2, <3>2, <3>5
  <2>. QED
    BY <2>1, <2>2
<1>. HIDE DEF r3
<1>. DEFINE r == WithDetails(r3, n, ok)
<1>7. /\ r \in Folds /\ r.st.phase = r3.st.phase
      /\ n.state \in {"", "NeedsLogin"} /\ n.url # "" => r.st.url = r3.st.url
      /\ n.state = "" => r.st.url = r3.st.url
      /\ r.changed \/ (r3.st = status /\ (n.state # "Running" => r.st.url = status.url))
  <2>1. r \in Folds
    BY <1>2, <1>6, FoldsTyped DEF Typed
  <2>2. CASE n.state = "Running"
    BY <1>2, <1>6, <2>1, <2>2 DEF WithDetails, Folds, Statuses
  <2>3. CASE n.state = "NeedsLogin" /\ r3.st.url = "" /\ ok
    BY <1>2, <1>5, <1>6, <2>1, <2>3 DEF WithDetails, Folds, Statuses
  <2>4. CASE n.state = "InUseOtherUser"
    BY <1>2, <1>6, <2>1, <2>4 DEF WithDetails, Folds, Statuses
  <2>5. CASE /\ n.state \notin {"Running", "InUseOtherUser"}
             /\ ~ (n.state = "NeedsLogin" /\ r3.st.url = "" /\ ok)
    BY <1>6, <2>1, <2>5 DEF WithDetails
  <2>. QED
    BY <2>2, <2>3, <2>4, <2>5
<1>. HIDE DEF r
<1>8. (r.changed /\ status' = r.st) \/ (~ r.changed /\ status' = status)
  BY <1>1, <1>7 DEF Publish, Folds, r
<1>9. r1.st.phase \in {status.phase, "failed"}
  BY <1>2, <1>3 DEF Notifications
<1>. QED
  BY <1>5, <1>6, <1>7, <1>8, <1>9

\* Reading a notification, the first of the bus, keeps what is told and known.
LEMMA HeardAfterHandle ==
  ASSUME Typed, LInv, Handle
  PROVE  LInv'
<1>. DEFINE n == Head(bus)
            rest == Tail(bus)
<1>1. /\ bus' = rest /\ backend' = backend /\ watch' = watch /\ watch = "attached"
      /\ n \in Notifications /\ rest \in Seq(Notifications)
      /\ Len(bus) \in Nat \ {0} /\ Len(rest) = Len(bus) - 1 /\ n = bus[1]
      /\ \A i \in 1 .. Len(rest) : rest[i] = bus[i + 1]
  <2>1. /\ bus' = rest /\ backend' = backend /\ watch' = watch /\ watch = "attached"
        /\ bus \in Seq(Notifications) /\ bus # <<>>
    BY DEF Handle, Typed
  <2>2. Len(bus) \in Nat \ {0}
    BY <2>1, EmptySeq
  <2>. QED
    BY <2>1, <2>2, HeadTailProperties
<1>2. StatesTold(bus, backend) /\ URLsTold(bus, backend) /\ Known(bus, backend, status)
  BY <1>1 DEF LInv, Heard
<1>3. /\ n.state # "" => status'.phase = PhaseFor(n.state)
      /\ n.state = "" => \/ status'.phase \in {status.phase, "failed"}
                         \/ n.url # "" /\ status'.phase = "needs-login"
      /\ n.url # "" /\ n.state \in {"", "NeedsLogin"} => status'.url = n.url
      /\ n.url = "" /\ n.state = "" => status'.url = status.url
  BY HandleTells
<1>. HIDE DEF n, rest
<1>4. ASSUME NEW i \in 0 .. Len(rest)
      PROVE  /\ Final(rest, i) <=> Final(bus, i + 1)
             /\ LastURL(rest, i) <=> LastURL(bus, i + 1)
  <2>1. \A j \in i + 1 .. Len(rest) : j + 1 \in i + 2 .. Len(bus) /\ rest[j] = bus[j + 1]
    BY <1>1
  <2>2. \A j \in i + 2 .. Len(bus) : j - 1 \in i + 1 .. Len(rest) /\ rest[j - 1] = bus[j]
    BY <1>1
  <2>3. i + 1 + 1 = i + 2
    OBVIOUS
  <2>4. Final(rest, i) <=> \A j \in i + 2 .. Len(bus) : bus[j].state = ""
    <3>1. ASSUME Final(rest, i), NEW j \in i + 2 .. Len(bus) PROVE bus[j].state = ""
      BY <2>2, <3>1 DEF Final
    <3>2. ASSUME \A j \in i + 2 .. Len(bus) : bus[j].state = "" PROVE Final(rest, i)
      BY <2>1, <3>2 DEF Final
    <3>. QED
      BY <3>1, <3>2
  <2>5. LastURL(rest, i) <=> \A j \in i + 2 .. Len(bus) : bus[j].url = ""
    <3>1. ASSUME LastURL(rest, i), NEW j \in i + 2 .. Len(bus) PROVE bus[j].url = ""
      BY <2>2, <3>1 DEF LastURL
    <3>2. ASSUME \A j \in i + 2 .. Len(bus) : bus[j].url = "" PROVE LastURL(rest, i)
      BY <2>1, <3>2 DEF LastURL
    <3>. QED
      BY <3>1, <3>2
  <2>. QED
    BY <2>3, <2>4, <2>5 DEF Final, LastURL
<1>5. \A i \in 1 .. Len(rest) : i \in 0 .. Len(rest) /\ i + 1 \in 1 .. Len(bus)
  BY <1>1
<1>6. StatesTold(rest, backend)
  BY <1>1, <1>2, <1>4, <1>5 DEF StatesTold
<1>7. URLsTold(rest, backend)
  BY <1>1, <1>2, <1>4, <1>5 DEF URLsTold
<1>8. /\ 1 \in 1 .. Len(bus)
      /\ Final(rest, 0) <=> Final(bus, 1)
      /\ LastURL(rest, 0) <=> LastURL(bus, 1)
  BY <1>1, <1>4
<1>9. /\ Final(bus, 1) /\ n.state = "" => Final(bus, 0)
      /\ LastURL(bus, 1) /\ n.url = "" => LastURL(bus, 0)
  <2>1. \A j \in 0 + 1 .. Len(bus) : j = 1 \/ j \in 1 + 1 .. Len(bus)
    BY <1>1
  <2>. QED
    BY <1>1, <2>1 DEF Final, LastURL
<1>10. Final(rest, 0) => status'.phase \in {"failed", PhaseFor(backend.state)}
  <2>. SUFFICES ASSUME Final(rest, 0)
                PROVE  status'.phase \in {"failed", PhaseFor(backend.state)}
    OBVIOUS
  <2>1. n.state \in {"", backend.state} /\ (n.url # "" => backend.state = "NeedsLogin")
    BY <1>1, <1>2, <1>8 DEF StatesTold
  <2>2. CASE n.state # ""
    BY <1>3, <2>1, <2>2
  <2>3. CASE n.state = ""
    <3>1. status.phase \in {"failed", PhaseFor(backend.state)}
      BY <1>2, <1>8, <1>9, <2>3 DEF Known
    <3>2. PhaseFor("NeedsLogin") = "needs-login"
      BY DEF PhaseFor
    <3>. QED
      BY <1>3, <2>1, <2>3, <3>1, <3>2
  <2>. QED
    BY <2>2, <2>3
<1>11. backend.url # "" /\ LastURL(rest, 0) => status'.url = backend.url
  <2>. SUFFICES ASSUME backend.url # "", LastURL(rest, 0)
                PROVE  status'.url = backend.url
    OBVIOUS
  <2>1. n.url = backend.url \/ (n.url = "" /\ n.state = "")
    BY <1>1, <1>2, <1>8 DEF URLsTold
  <2>2. CASE n.url = backend.url
    <3>1. Final(bus, 1)
      <4>1. SUFFICES ASSUME NEW j \in 1 + 1 .. Len(bus) PROVE bus[j].state = ""
        BY DEF Final
      <4>0. Len(bus) \in Nat
        BY <1>1
      <4>2. j \in 1 .. Len(bus) /\ \A k \in j + 1 .. Len(bus) : k \in 1 + 1 .. Len(bus)
        BY ONLY <4>0, <4>1
      <4>3. LastURL(bus, j) /\ bus[j].url = ""
        BY <1>8, <4>2 DEF LastURL
      <4>. QED
        BY <1>2, <4>2, <4>3 DEF URLsTold
    <3>2. n.state \in {"", "NeedsLogin"}
      BY <1>1, <1>2, <1>8, <2>2, <3>1 DEF StatesTold
    <3>. QED
      BY <1>3, <2>2, <3>2
  <2>3. CASE n.url = "" /\ n.state = ""
    BY <1>2, <1>3, <1>8, <1>9, <2>3 DEF Known
  <2>. QED
    BY <2>1, <2>2, <2>3
<1>. QED
  BY <1>1, <1>6, <1>7, <1>10, <1>11 DEF LInv, Heard, Known

\* So does a notification that joins the bus.
LEMMA HeardAfterNotify ==
  ASSUME Typed, LInv, NEW n \in Notifications, Notify(n), watch' = watch, status' = status,
         \/ n.state = backend'.state /\ n.state # "" /\ n.url = "" /\ backend'.url = ""
         \/ /\ n.state = "" /\ n.url # "" /\ backend'.url = n.url
            /\ backend'.state = backend.state /\ backend.state = "NeedsLogin"
         \/ n.state = "" /\ n.url = "" /\ backend' = backend
  PROVE  LInv'
<1>1. backend'.url # "" => backend'.state = "NeedsLogin"
  BY DEF LInv
<1>2. SUFFICES ASSUME watch = "attached" PROVE Heard(bus', backend', status)
  BY <1>1 DEF LInv
<1>3. StatesTold(bus, backend) /\ URLsTold(bus, backend) /\ Known(bus, backend, status)
  BY <1>2 DEF LInv, Heard
<1>4. PICK m \in Nat \ {0} :
        /\ Len(bus) = m - 1 /\ Len(bus') = m /\ bus'[m] = n
        /\ \A i \in 1 .. m - 1 : bus'[i] = bus[i]
  <2>1. bus \in Seq(Notifications) /\ bus' = Append(bus, n)
    BY <1>2 DEF Notify, Typed
  <2>2. Len(bus) \in Nat
    BY ONLY <2>1
  <2>3. /\ Len(bus') = Len(bus) + 1 /\ bus'[Len(bus) + 1] = n
        /\ \A i \in 1 .. Len(bus) : bus'[i] = bus[i]
    BY ONLY <2>1, n \in Notifications, AppendProperties
  <2>4. Len(bus) + 1 \in Nat \ {0} /\ (Len(bus) + 1) - 1 = Len(bus)
    BY ONLY <2>2
  <2>. QED
    BY <2>3, <2>4
<1>5. /\ \A i \in 1 .. m : i \in 1 .. m - 1 \/ i = m
      /\ \A i \in 0 .. m - 1 : m \in i + 1 .. m
      /\ \A i \in 0 .. m - 1 : \A j \in i + 1 .. m - 1 : j \in i + 1 .. m /\ j \in 1 .. m - 1
      /\ \A i \in 1 .. m - 1 : i \in 0 .. m - 1
      /\ 0 \in 0 .. m - 1
  BY ONLY m \in Nat \ {0}
<1>6. ASSUME NEW i \in 0 .. m - 1
      PROVE  /\ Final(bus', i) => Final(bus, i) /\ n.state = ""
             /\ LastURL(bus', i) => LastURL(bus, i) /\ n.url = ""
  <2>1. m \in i + 1 .. Len(bus') /\ bus'[m] = n
    BY <1>4, <1>5
  <2>2. \A j \in i + 1 .. Len(bus) : j \in i + 1 .. Len(bus') /\ bus'[j] = bus[j]
    BY <1>4, <1>5
  <2>. QED
    BY <2>1, <2>2 DEF Final, LastURL
<1>7. StatesTold(bus', backend')
  <2>1. SUFFICES ASSUME NEW i \in 1 .. m, Final(bus', i)
                 PROVE  /\ bus'[i].state \in {"", backend'.state}
                        /\ bus'[i].url # "" => backend'.state = "NeedsLogin"
    BY <1>4 DEF StatesTold
  <2>2. CASE i = m
    BY <1>4, <2>2
  <2>3. CASE i \in 1 .. m - 1
    <3>1. Final(bus, i) /\ n.state = "" /\ bus'[i] = bus[i]
      BY <1>4, <1>5, <1>6, <2>1, <2>3
    <3>2. backend'.state = backend.state
      BY <3>1
    <3>. QED
      BY <1>3, <1>4, <2>3, <3>1, <3>2 DEF StatesTold
  <2>. QED
    BY <1>5, <2>2, <2>3
<1>8. URLsTold(bus', backend')
  <2>1. SUFFICES ASSUME backend'.url # "", NEW i \in 1 .. m, LastURL(bus', i)
                 PROVE  bus'[i].url = backend'.url \/ (bus'[i].url = "" /\ bus'[i].state = "")
    BY <1>4 DEF URLsTold
  <2>2. CASE i = m
    BY <1>4, <2>1, <2>2
  <2>3. CASE i \in 1 .. m - 1
    <3>1. LastURL(bus, i) /\ n.url = "" /\ bus'[i] = bus[i]
      BY <1>4, <1>5, <1>6, <2>1, <2>3
    <3>2. backend' = backend
      BY <2>1, <3>1
    <3>. QED
      BY <1>3, <1>4, <2>1, <2>3, <3>1, <3>2 DEF URLsTold
  <2>. QED
    BY <1>5, <2>2, <2>3
<1>9. Known(bus', backend', status)
  <2>1. 0 \in 0 .. m - 1
    BY <1>5
  <2>2. Final(bus', 0) => Final(bus, 0) /\ backend'.state = backend.state
    BY <1>6, <2>1
  <2>3. backend'.url # "" /\ LastURL(bus', 0) => LastURL(bus, 0) /\ backend' = backend
    BY <1>6, <2>1
  <2>. QED
    BY <1>3, <2>2, <2>3 DEF Known
<1>. QED
  BY <1>7, <1>8, <1>9 DEF Heard

\* The node starts detached and without a login in progress.
LEMMA InitTold == Init => LInv
  BY DEF Init, LInv

\* Every step keeps what is told and known.
LEMMA StepTold == Typed /\ LInv /\ [Next]_vars => LInv'
<1>. SUFFICES ASSUME Typed, LInv, [Next]_vars PROVE LInv'
  OBVIOUS
<1>1. CASE Handle
  BY <1>1, HeardAfterHandle
<1>2. CASE Attach
  <2>1. /\ bus' = <<Current>> /\ backend' = backend /\ status' = status
        /\ backend.state \in BackendStates
    BY <1>2 DEF Attach, Typed
  <2>2. Current.state = backend.state /\ Current.url = backend.url
    BY DEF Current
  <2>3. backend.state # ""
    BY <2>1 DEF BackendStates
  <2>4. /\ Len(bus') = 1 /\ bus'[1] = Current
        /\ \A i \in 1 .. Len(bus') : i = 1
        /\ 1 \in 0 + 1 .. Len(bus')
    BY ONLY <2>1
  <2>5. StatesTold(bus', backend')
    BY <2>1, <2>2, <2>4 DEF StatesTold, LInv
  <2>6. URLsTold(bus', backend')
    BY <2>1, <2>2, <2>4 DEF URLsTold
  <2>7. ~ Final(bus', 0)
    BY <2>2, <2>3, <2>4 DEF Final
  <2>8. LastURL(bus', 0) => backend.url = ""
    BY <2>2, <2>4 DEF LastURL
  <2>. QED
    BY <2>1, <2>5, <2>6, <2>7, <2>8 DEF LInv, Heard, Known
<1>3. CASE Complains
  <2>1. ErrMessage \in Notifications /\ ErrMessage.state = "" /\ ErrMessage.url = ""
    BY DEF ErrMessage, Notifications
  <2>2. Notify(ErrMessage) /\ backend' = backend /\ watch' = watch /\ status' = status
    BY <1>3 DEF Complains
  <2>. QED
    BY <2>1, <2>2, HeardAfterNotify
<1>4. ASSUME NEW s \in BackendStates, Becomes(s) PROVE LInv'
  <2>1. /\ State(s) \in Notifications /\ State(s).state = s /\ State(s).url = ""
        /\ s # ""
    BY DEF State, Notifications, BackendStates
  <2>2. /\ Notify(State(s)) /\ watch' = watch /\ status' = status
        /\ backend'.state = s /\ backend'.url = ""
    BY <1>4 DEF Becomes
  <2>. QED
    BY <2>1, <2>2, HeardAfterNotify
<1>5. ASSUME NEW u \in URLs, LoginURL(u) PROVE LInv'
  <2>1. /\ BrowseToURL(u) \in Notifications /\ BrowseToURL(u).state = ""
        /\ BrowseToURL(u).url = u /\ u # ""
    BY TsNodeAssumption DEF BrowseToURL, Notifications
  <2>2. /\ Notify(BrowseToURL(u)) /\ watch' = watch /\ status' = status
        /\ backend'.state = backend.state /\ backend'.url = u
        /\ backend.state = "NeedsLogin"
    BY <1>5 DEF LoginURL, Typed
  <2>. QED
    BY <2>1, <2>2, HeardAfterNotify
<1>6. CASE AttachFails \/ BusEnds \/ Wake
  <2>1. watch' # "attached" /\ backend' = backend
    BY <1>6 DEF AttachFails, BusEnds, Wake
  <2>. QED
    BY <2>1 DEF LInv
<1>7. CASE Receive \/ BeatEnds \/ UNCHANGED vars
  <2>1. UNCHANGED <<watch, backend, bus, status>>
    BY <1>7 DEF Receive, BeatEnds, vars
  <2>. QED
    BY <2>1 DEF LInv
<1>. QED
  BY <1>1, <1>2, <1>3, <1>4, <1>5, <1>6, <1>7 DEF Next

\* Whatever was lost with a bus that ended, once all is read the interface shows the
\* backend's phase, or that it failed, and the URL of the login in progress
\* (Node.watch, Node.handle).
THEOREM BackendArrivesAlways == Spec => []BackendArrives
<1>1. IInv /\ LInv => BackendArrives
  <2>. SUFFICES ASSUME IInv, LInv, Settled PROVE
         \/ ui.node.phase = "failed"
         \/ /\ ui.node.phase = PhaseFor(backend.state)
            /\ backend.url # "" => ui.node.url = backend.url
    BY DEF BackendArrives
  <2>1. bus = <<>> /\ status = ui.node /\ Known(bus, backend, status)
    BY DEF Settled, IInv, NewestArrives, LInv, Heard
  <2>2. Final(bus, 0) /\ LastURL(bus, 0)
    BY <2>1 DEF Final, LastURL
  <2>. QED
    BY <2>1, <2>2 DEF Known
<1>2. IInv => Typed
  BY DEF IInv
<1>. QED
  BY <1>1, <1>2, InitHolds, StepHolds, InitTold, StepTold, PTL DEF Spec
=============================================================================
