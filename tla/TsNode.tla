------------------------------- MODULE TsNode -------------------------------
(***************************************************************************)
(* The embedded Tailscale node as the program follows it,                  *)
(* src/internal/tsnode/tsnode.go: notifications of the backend's bus are   *)
(* folded into a status, the statuses go to the interface over a channel   *)
(* that drops the oldest, and the interface turns them into the onboarding *)
(* screen or the menu, src/internal/ui/app.go and onboarding.go.           *)
(*                                                                         *)
(* The backend is Tailscale's: a state, the URL of a login in progress,    *)
(* and a bus that may break and tells its current state when attached.     *)
(***************************************************************************)
EXTENDS Integers, Sequences

CONSTANTS
  URLs,
  Depth,        \* of Node.updates
  BusDepth,     \* bound: notifications under way
  MaxChanges,   \* bound: what the backend does
  MaxFaults     \* bound: bus failures, refused queries, error messages

ASSUME TsNodeAssumption ==
  /\ "" \notin URLs /\ {Depth, BusDepth} \subseteq Nat \ {0}
  /\ {MaxChanges, MaxFaults} \subseteq Nat

VARIABLES
  backend,   \* its state and the URL of the login in progress
  bus,       \* notifications not yet read
  watch,     \* where watch is
  status,    \* Node.status
  updates,   \* Node.updates
  ui,        \* Model: node, screen, onboard.successAt, everConnected
  changes, faults

counts == <<changes, faults>>
vars == <<backend, bus, watch, status, updates, ui, counts>>
-----------------------------------------------------------------------------
BackendStates ==
  {"NoState", "NeedsLogin", "NeedsMachineAuth", "Starting", "Running", "Stopped",
   "InUseOtherUser"}

PhaseFor(s) ==
  CASE s = "NoState" -> "starting"
    [] s = "NeedsLogin" -> "needs-login"
    [] s = "NeedsMachineAuth" -> "needs-approval"
    [] s = "Starting" -> "connecting"
    [] s = "Running" -> "running"
    [] s = "Stopped" -> "stopped"
    [] s = "InUseOtherUser" -> "failed"

Phases == {PhaseFor(s) : s \in BackendStates}
Errors == {"none", "bus", "backend", "in use"}

\* A notification carries what it carries: "" is nothing.
State(s) == [state |-> s, url |-> "", error |-> FALSE]
BrowseToURL(u) == [state |-> "", url |-> u, error |-> FALSE]
ErrMessage == [state |-> "", url |-> "", error |-> TRUE]
Current == [state |-> backend.state, url |-> backend.url, error |-> FALSE]

\* Fault: when the interface is behind, the newest status is dropped.
PublishIfRoom(st) ==
  /\ status' = st
  /\ updates' = IF Len(updates) < Depth THEN Append(updates, st) ELSE updates

Publish(st) ==
  /\ status' = st
  /\ updates' = Append(IF Len(updates) < Depth THEN updates ELSE Tail(updates), st)
-----------------------------------------------------------------------------
(***************************************************************************)
(* handle: the parts of a notification, one after the other.  Each gives   *)
(* the status so far and whether it is to be published.                    *)
(***************************************************************************)
WithError(r, n) ==
  IF n.error THEN [st |-> [r.st EXCEPT !.err = "backend", !.phase = "failed"], changed |-> TRUE]
  ELSE r

WithURL(r, n) ==
  IF n.url \in {"", r.st.url} THEN r
  ELSE [st |-> [r.st EXCEPT !.url = n.url, !.phase = "needs-login", !.err = "none"],
        changed |-> TRUE]

\* Fault: a change of phase alone is not published.
WithPhaseUnseen(r, n) ==
  IF n.state = "" THEN r
  ELSE [r EXCEPT !.st.phase = PhaseFor(n.state)]

WithPhase(r, n) ==
  IF n.state = "" \/ PhaseFor(n.state) = r.st.phase THEN r
  ELSE [st |-> [r.st EXCEPT !.phase = PhaseFor(n.state)], changed |-> TRUE]

\* Running asks who this node is, and a login without URL asks for it; the
\* backend may not answer.
WithDetails(r, n, ok) ==
  CASE n.state = "Running" ->
         [st |-> [r.st EXCEPT !.url = "", !.err = "none", !.self = @ \/ ok],
          changed |-> r.changed \/ (ok /\ ~r.st.self)]
    [] n.state = "NeedsLogin" /\ r.st.url = "" /\ ok ->
         [st |-> [r.st EXCEPT !.url = backend.url],
          changed |-> r.changed \/ backend.url # ""]
    [] n.state = "InUseOtherUser" -> [st |-> [r.st EXCEPT !.err = "in use"], changed |-> TRUE]
    [] OTHER -> r

Handle ==
  /\ watch = "attached" /\ bus # <<>>
  /\ bus' = Tail(bus)
  /\ \E ok \in BOOLEAN :
       LET n == Head(bus)
           r == WithDetails(WithPhase(WithURL(WithError([st |-> status, changed |-> FALSE],
                                                        n), n), n), n, ok)
       IN  /\ ok \/ (faults < MaxFaults /\ n.state \in {"Running", "NeedsLogin"})
           /\ faults' = IF ok THEN faults ELSE faults + 1
           /\ IF r.changed THEN Publish(r.st) ELSE UNCHANGED <<status, updates>>
  /\ UNCHANGED <<backend, watch, ui, changes>>

\* Fault: the bus tells only what happens from now on.
AttachLate ==
  /\ watch = "detached"
  /\ watch' = "attached" /\ bus' = <<>>
  /\ UNCHANGED <<backend, status, updates, ui, counts>>

\* The watch attaches, and the bus begins with the current state.
Attach ==
  /\ watch = "detached"
  /\ watch' = "attached" /\ bus' = <<Current>>
  /\ UNCHANGED <<backend, status, updates, ui, counts>>

\* The backend cannot be reached: an error is published with all that is known.
AttachFails ==
  /\ watch = "detached" /\ faults < MaxFaults
  /\ faults' = faults + 1
  /\ watch' = "sleeping"
  /\ Publish([status EXCEPT !.err = "bus"])
  /\ UNCHANGED <<backend, bus, ui, changes>>

\* The bus ends with whatever was under way on it.
BusEnds ==
  /\ watch = "attached" /\ faults < MaxFaults
  /\ faults' = faults + 1
  /\ watch' = "sleeping" /\ bus' = <<>>
  /\ UNCHANGED <<backend, status, updates, ui, changes>>

\* sleep, unless the node was closed.
Wake ==
  /\ watch = "sleeping" /\ watch' = "detached"
  /\ UNCHANGED <<backend, bus, status, updates, ui, counts>>
-----------------------------------------------------------------------------
(***************************************************************************)
(* The backend.                                                            *)
(***************************************************************************)
Notify(n) == bus' = IF watch = "attached" THEN Append(bus, n) ELSE bus

\* It changes state: a login is over when it leaves NeedsLogin.
Becomes(s) ==
  /\ changes < MaxChanges /\ Len(bus) < BusDepth
  /\ s # backend.state
  /\ changes' = changes + 1
  /\ backend' = [state |-> s, url |-> ""]
  /\ Notify(State(s))
  /\ UNCHANGED <<watch, status, updates, ui, faults>>

\* A login that was started, at first or by Relogin, has a new URL.
LoginURL(u) ==
  /\ changes < MaxChanges /\ Len(bus) < BusDepth
  /\ backend.state = "NeedsLogin" /\ u # backend.url
  /\ changes' = changes + 1
  /\ backend' = [backend EXCEPT !.url = u]
  /\ Notify(BrowseToURL(u))
  /\ UNCHANGED <<watch, status, updates, ui, faults>>

Complains ==
  /\ faults < MaxFaults /\ Len(bus) < BusDepth
  /\ faults' = faults + 1
  /\ Notify(ErrMessage)
  /\ UNCHANGED <<backend, watch, status, updates, ui, changes>>
-----------------------------------------------------------------------------
(***************************************************************************)
(* The interface.                                                          *)
(***************************************************************************)
\* handleNodeStatus: the first time it runs the success beat starts; a login or
\* an approval that is needed ends the session and leads back to onboarding.
Shown(m, st) ==
  CASE st.phase = "running" /\ ~m.ever -> [m EXCEPT !.node = st, !.ever = TRUE, !.success = TRUE]
    [] st.phase \in {"needs-login", "needs-approval"} /\ m.screen # "onboarding" ->
         [node |-> st, screen |-> "onboarding", success |-> FALSE, ever |-> FALSE]
    [] OTHER -> [m EXCEPT !.node = st]

Receive ==
  /\ updates # <<>>
  /\ ui' = Shown(ui, Head(updates)) /\ updates' = Tail(updates)
  /\ UNCHANGED <<backend, bus, watch, status, counts>>

\* The success beat has played out.
BeatEnds ==
  /\ ui.screen = "onboarding" /\ ui.success
  /\ ui' = [ui EXCEPT !.screen = "menu"]
  /\ UNCHANGED <<backend, bus, watch, status, updates, counts>>

\* Which body the onboarding screen has.
View ==
  CASE ui.screen # "onboarding" -> "menu"
    [] ui.success -> "success"
    [] ui.node.phase = "needs-login" /\ ui.node.url # "" -> "authorise"
    [] ui.node.phase = "needs-approval" -> "approval"
    [] ui.node.phase = "stopped" -> "logged out"
    [] ui.node.phase = "failed" \/ ui.node.err # "none" -> "trouble"
    [] OTHER -> "connecting"
-----------------------------------------------------------------------------
Unknown == [phase |-> "starting", url |-> "", err |-> "none", self |-> FALSE]

Init ==
  /\ backend \in [state : BackendStates, url : {""}]
  /\ bus = <<>> /\ watch = "detached"
  /\ status = Unknown /\ updates = <<>>
  /\ ui = [node |-> Unknown, screen |-> "onboarding", success |-> FALSE, ever |-> FALSE]
  /\ changes = 0 /\ faults = 0

Next ==
  \/ Handle \/ Attach \/ AttachFails \/ BusEnds \/ Wake
  \/ Receive \/ BeatEnds \/ Complains
  \/ \E s \in BackendStates : Becomes(s)
  \/ \E u \in URLs : LoginURL(u)

Spec == Init /\ [][Next]_vars

\* The watch and the interface keep running; the backend does as it likes.
FairSpec ==
  /\ Spec
  /\ WF_vars(Handle \/ Attach \/ Wake) /\ WF_vars(Receive) /\ WF_vars(BeatEnds)
-----------------------------------------------------------------------------
(***************************************************************************)
(* Properties.                                                             *)
(***************************************************************************)
Statuses == [phase : Phases, url : URLs \union {""}, err : Errors, self : BOOLEAN]

\* All that the backend said has arrived.
Settled == watch = "attached" /\ bus = <<>> /\ updates = <<>>

\* The states of watch, status and screen; a bus that is not attached is empty,
\* and publish never overfills the channel.
TypeOK ==
  /\ backend \in [state : BackendStates, url : URLs \union {""}]
  /\ bus \in Seq([state : BackendStates \union {""}, url : URLs \union {""}, error : BOOLEAN])
  /\ Len(bus) <= BusDepth
  /\ watch \in {"detached", "attached", "sleeping"} /\ (watch # "attached" => bus = <<>>)
  /\ status \in Statuses /\ updates \in Seq(Statuses) /\ Len(updates) <= Depth
  /\ ui \in [node : Statuses, screen : {"onboarding", "menu"}, success : BOOLEAN, ever : BOOLEAN]
  /\ changes \in 0 .. MaxChanges /\ faults \in 0 .. MaxFaults

\* Old statuses may be dropped, but the newest must never be lost.
NewestArrives ==
  status = IF updates = <<>> THEN ui.node ELSE updates[Len(updates)]

\* Whatever notifications were lost with a bus that ended, the interface comes to
\* show the backend's phase, and the URL of the login that is in progress; or it shows
\* the failed phase, which an error that the backend reports sets in any state.
BackendArrives ==
  Settled => \/ ui.node.phase = "failed"
             \/ /\ ui.node.phase = PhaseFor(backend.state)
                /\ backend.url # "" => ui.node.url = backend.url

\* Onboarding is left again: once it is connected it shows the success beat,
\* which ends in the menu.
OnboardingEnds == ui.screen = "onboarding" /\ ui.ever => ui.success

\* A node that stays connected gets its player to the menu.
ReachesMenu == <>[](backend.state = "Running") => <>[](ui.screen = "menu")

\* A failure of the bus is transient: once the bus is back it is not shown any more.
TransientErrorsPass == Settled /\ ui.node.phase = "running" => ui.node.err # "bus"

\* A node key that expired drops the interface back to onboarding.
ExpiryDropsBack ==
  Settled /\ ui.node.phase = "needs-login" => View \notin {"menu", "success"}

\* A device whose login was revoked shows the screen that says so.
LogoutExplained == Settled /\ ui.node.phase = "stopped" => View = "logged out"
=============================================================================
