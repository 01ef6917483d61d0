----------------------------- MODULE MatchCycle -----------------------------
(***************************************************************************)
(* What a lobby promises about its matches and their records, whatever the *)
(* hosting loop of src/internal/netplay/host.go does in what order.        *)
(*                                                                         *)
(* Players come, go and change the settings while the lobby is open.  A    *)
(* match is counted down on a board that everybody seated has agreed to,   *)
(* and played on that board or called off.  A finished match leaves a      *)
(* record that its players may sign, and that is closed when everybody     *)
(* present has signed or its time is up.                                   *)
(*                                                                         *)
(* Three things a reader may not expect are part of the promise, because   *)
(* the loop does them: closing a record reopens the lobby, and so ends a   *)
(* countdown or a match that has begun since; a match that finishes first  *)
(* takes the place of the record before, which is then never stored; and   *)
(* closing the lobby drops the record that is pending.                     *)
(***************************************************************************)
EXTENDS Integers

CONSTANTS
  Seats, Nobody,   \* where players sit, and who sits in a free seat
  Players, Host,   \* who is named in a record, and who signs it first
  Window           \* how long a record is open for signatures

VARIABLES
  phase,     \* "open", "countdown", "in_game" or "closed"
  seats,     \* who sits where
  ready,     \* the seats that are ready
  terms,     \* the settings
  board,     \* who sat where when the countdown began, until the match is over
  match,     \* the number of matches counted down
  pending,   \* the record that is open for signatures
  log,       \* the records stored
  window     \* what is left of its time

lobby == <<seats, ready, terms>>
records == <<pending, log, window>>
vars == <<phase, lobby, board, match, records>>
-----------------------------------------------------------------------------
Occupied(roster) == {i \in Seats : roster[i] # Nobody}
PlayersOf(roster) == {roster[i] : i \in Seats} \intersect Players
OnlyLeft(before, after) == \A i \in Seats : after[i] \in {before[i], Nobody}

NoBoard == [i \in Seats |-> Nobody]
NoRecord == [match |-> 0, participants |-> {}, sigs |-> {}]
-----------------------------------------------------------------------------
\* Joining, leaving, bots, settings and readiness.
Rearrange ==
  /\ phase = "open"
  /\ UNCHANGED <<phase, board, match, records>>

\* Everybody who is left is ready: they are the board.
Gather ==
  /\ phase = "open" /\ phase' = "countdown"
  /\ OnlyLeft(seats, seats') /\ board' = seats' /\ Occupied(seats') \subseteq ready'
  /\ match' = match + 1
  /\ UNCHANGED <<terms, records>>

Waver ==
  /\ phase = "countdown"
  /\ UNCHANGED <<phase, seats, terms, board, match, records>>

CallOff ==
  /\ phase = "countdown" /\ phase' = "open" /\ board' = NoBoard
  /\ UNCHANGED <<match, records>>

\* Still everybody is ready, and nobody and nothing has changed.
Play ==
  /\ phase = "countdown" /\ phase' = "in_game"
  /\ Occupied(seats) \subseteq ready
  /\ UNCHANGED <<lobby, board, match, records>>

Leave ==
  /\ phase = "in_game"
  /\ OnlyLeft(seats, seats')
  /\ UNCHANGED <<phase, terms, board, match, records>>

Finish ==
  /\ phase = "in_game" /\ phase' = "open" /\ board' = NoBoard
  /\ pending' = [match |-> match, participants |-> PlayersOf(board), sigs |-> {Host}]
  /\ window' = Window
  /\ UNCHANGED <<seats, terms, match, log>>

\* Somebody who played and is present signs.
Sign ==
  /\ \E player \in pending.participants \intersect PlayersOf(seats) :
       pending' = [pending EXCEPT !.sigs = @ \union {player}]
  /\ UNCHANGED <<phase, lobby, board, match, log, window>>

\* Storing may fail.  In the same pass players may have been dropped and a
\* countdown may have begun.
Settle ==
  /\ phase # "closed" /\ phase' = "open" /\ board' = NoBoard
  /\ pending # NoRecord /\ pending' = NoRecord
  /\ OnlyLeft(seats, seats')
  /\ window = 0 \/ PlayersOf(seats') \subseteq pending.sigs
  /\ log' \in {log, log \union {pending}}
  /\ match' \in {match} \union (IF phase = "open" THEN {match + 1} ELSE {})
  /\ UNCHANGED <<terms, window>>

Wait ==
  /\ phase # "closed" /\ window > 0 /\ window' = window - 1
  /\ UNCHANGED <<phase, lobby, board, match, pending, log>>

Close ==
  /\ phase # "closed" /\ phase' = "closed" /\ board' = NoBoard
  /\ UNCHANGED <<lobby, match, records>>

Init ==
  /\ phase = "open" /\ board = NoBoard /\ match = 0
  /\ pending = NoRecord /\ log = {} /\ window = 0

Next ==
  \/ Rearrange \/ Gather \/ Waver \/ CallOff \/ Play \/ Leave \/ Finish
  \/ Sign \/ Settle \/ Wait \/ Close

Spec == Init /\ [][Next]_vars
=============================================================================
