----------------------------- MODULE RoundTimer -----------------------------
(***************************************************************************)
(* The round timers of one consensus instance                              *)
(* (subspecs/consensus/timer/timer.py), in milliseconds: when each node's  *)
(* rounds expire, and how far apart that lets the rounds of the cluster    *)
(* drift.                                                                  *)
(*                                                                         *)
(* External: what the instance does with its timer (protocol.py marks the  *)
(* places where a timer is started and stopped): it asks for a timeout     *)
(* when it starts, when a round expires, and when it follows another node  *)
(* to its round, by f+1 round changes or by a justified pre-prepare.       *)
(***************************************************************************)
EXTENDS Integers

CONSTANTS
  Node,            \* the peers of the instance
  Skew,            \* Skew[n]: how far n's clock is ahead of the slowest
  MaxSkew,         \* no clock is further ahead than this
  GENESIS_TIME,
  SLOT_DURATION,
  Slot,            \* the slot of the duty
  DutyType,        \* the duty types of the runs
  Timer,           \* the timers of the runs: <<timer type, chain timing known>>
  Step,            \* granularity of time
  MaxTime,         \* bound of a run: time of its end, since the slot start
  MaxRound         \* bound of a run: the last round

SECOND == 1000
PROPOSAL_ROUND_TIMEOUT == 1500

ASSUME RoundTimerAssumption ==
  /\ Skew \in [Node -> Nat] /\ MaxSkew \in Nat
  /\ \A n \in Node : Skew[n] <= MaxSkew
  /\ GENESIS_TIME \in Nat /\ SLOT_DURATION \in Nat /\ Slot \in Nat
  /\ Timer \subseteq {"inc", "eager_dlinear", "linear"} \X BOOLEAN
  /\ Step \in Nat \ {0} /\ MaxTime \in Nat /\ MaxRound \in Nat \ {0}

VARIABLES
  duty_type,         \* the type of the duty
  timer,             \* the timer every node runs
  now,               \* time, as the slowest clock has it
  round,             \* round[n]: 0 until n starts
  first_deadlines,   \* first_deadlines[n]: of the rounds n's timer has seen
  deadline,          \* deadline[n]: when n's round expires
  entered            \* history: when n entered its round

vars == <<duty_type, timer, now, round, first_deadlines, deadline, entered>>

Clock(n) == now + Skew[n]

-----------------------------------------------------------------------------
get_duty_start_delay ==
  IF duty_type = "attester" THEN SLOT_DURATION \div 3
  ELSE IF duty_type \in {"aggregator", "sync_contribution"} THEN (2 * SLOT_DURATION) \div 3
  ELSE 0

SlotStart == GENESIS_TIME + SLOT_DURATION * Slot
DutyStart == SlotStart + get_duty_start_delay

_proposal_timeout_optimization(r) == duty_type = "proposer" /\ r = 1

eager_double_linear_timeout(r) ==
  IF _proposal_timeout_optimization(r) THEN PROPOSAL_ROUND_TIMEOUT
  ELSE IF r < 1 THEN SECOND ELSE SECOND * r

(* Mutant: the deadline is counted from the node's own clock *)
DeadlineFromClock(n, r) == Clock(n) + eager_double_linear_timeout(r)

eager_double_linear_deadline(n, r) == DutyStart + eager_double_linear_timeout(r)

IncreasingTimeout(r) ==
  IF _proposal_timeout_optimization(r) THEN PROPOSAL_ROUND_TIMEOUT ELSE 750 + 250 * r

LinearTimeout(r) ==
  IF _proposal_timeout_optimization(r) THEN PROPOSAL_ROUND_TIMEOUT
  ELSE IF r = 1 THEN SECOND ELSE 200 * (r - 1) + 200

(* create_timer: the base timeout of round r *)
BaseTimeout(r) ==
  IF timer[1] = "inc" THEN IncreasingTimeout(r)
  ELSE IF timer[1] = "linear" THEN LinearTimeout(r)
  ELSE eager_double_linear_timeout(r)

(* The eager double linear timer with genesis time and slot duration *)
ChainTimed == timer = <<"eager_dlinear", TRUE>>

(* Mutant: the eager timer counts from the slot, chain timing or none *)
FirstDeadlineOfSlot(n, r) ==
  IF timer[1] = "eager_dlinear" THEN eager_double_linear_deadline(n, r)
  ELSE Clock(n) + BaseTimeout(r)

FirstDeadline(n, r) ==
  IF ChainTimed THEN eager_double_linear_deadline(n, r) ELSE Clock(n) + BaseTimeout(r)

Seen(n, r) == timer[1] = "eager_dlinear" /\ r \in DOMAIN first_deadlines[n]

(* Mutant: a second call restarts the round from the clock *)
RestartRound(n, r) ==
  IF Seen(n, r) THEN Clock(n) + BaseTimeout(r) ELSE FirstDeadline(n, r)

(* Mutant: every further call extends the deadline again *)
ExtendAgain(n, r) ==
  IF Seen(n, r) /\ r = round[n] THEN deadline[n] + BaseTimeout(r) ELSE FirstDeadline(n, r)

(* calculate_timeout, as the time the round expires: a call for a round the eager timer
   has seen before extends the round's first deadline by its base timeout *)
calculate_timeout(n, r) ==
  IF Seen(n, r) THEN first_deadlines[n][r] + BaseTimeout(r) ELSE FirstDeadline(n, r)

-----------------------------------------------------------------------------
Init ==
  /\ duty_type \in DutyType
  /\ timer \in Timer
  /\ now = SlotStart
  /\ round = [n \in Node |-> 0]
  /\ first_deadlines = [n \in Node |-> <<>>]
  /\ deadline = [n \in Node |-> 0]
  /\ entered = [n \in Node |-> 0]

(* Mutant: the first deadline of a round is not remembered *)
NotTracked(n, r) == first_deadlines[n]

Tracked(n, r) ==
  IF timer[1] # "eager_dlinear" \/ Seen(n, r) THEN first_deadlines[n]
  ELSE [k \in DOMAIN first_deadlines[n] \cup {r} |->
         IF k = r THEN FirstDeadline(n, r) ELSE first_deadlines[n][k]]

(* Node n asks its timer for the timeout of round r, and runs it *)
RunTimer(n, r) ==
  /\ round' = [round EXCEPT ![n] = r]
  /\ deadline' = [deadline EXCEPT ![n] = calculate_timeout(n, r)]
  /\ first_deadlines' = [first_deadlines EXCEPT ![n] = Tracked(n, r)]
  /\ entered' = [entered EXCEPT ![n] = IF r = round[n] THEN @ ELSE Clock(n)]
  /\ UNCHANGED <<duty_type, timer, now>>

Started(n) == round[n] > 0
Due(n) == Started(n) /\ Clock(n) >= deadline[n]

(* On time or late *)
Start(n) ==
  /\ ~Started(n)
  /\ RunTimer(n, 1)

Timeout(n) ==
  /\ Due(n)
  /\ round[n] < MaxRound
  /\ RunTimer(n, round[n] + 1)

(* A justified pre-prepare of its own or of a later round, or f+1 round changes *)
Follow(n, r) ==
  /\ Started(n)
  /\ r >= round[n]
  /\ \E m \in Node : round[m] = r
  /\ RunTimer(n, r)

(* Timers fire when they are due *)
Tick ==
  /\ now + Step <= SlotStart + MaxTime
  /\ \A n \in Node : ~Due(n)
  /\ now' = now + Step
  /\ UNCHANGED <<duty_type, timer, round, first_deadlines, deadline, entered>>

Next ==
  \/ \E n \in Node : Start(n)
  \/ \E n \in Node : Timeout(n)
  \/ \E n \in Node, r \in 1 .. MaxRound : Follow(n, r)
  \/ Tick

Spec == Init /\ [][Next]_vars

-----------------------------------------------------------------------------
(* The eager timer has seen the round of its node, and no later one *)
TypeOK ==
  /\ duty_type \in DutyType /\ timer \in Timer /\ now \in Int
  /\ round \in [Node -> 0 .. MaxRound]
  /\ DOMAIN first_deadlines = Node
  /\ \A n \in Node :
       /\ DOMAIN first_deadlines[n] \subseteq 1 .. round[n]
       /\ (timer[1] = "eager_dlinear" /\ Started(n)) => round[n] \in DOMAIN first_deadlines[n]
       /\ \A r \in DOMAIN first_deadlines[n] : first_deadlines[n][r] \in Int
  /\ deadline \in [Node -> Int] /\ entered \in [Node -> Int]

(* The chain-timed deadline of round r, the same on every node *)
Boundary(r) == DutyStart + eager_double_linear_timeout(r)

(* A node waits in the round, and no pre-prepare has extended it *)
Settled(n) == Started(n) /\ ~Due(n) /\ deadline[n] = first_deadlines[n][round[n]]

(* No node is in a round before its predecessor has expired by some node's clock: neither
   late starts nor following others moves the cluster ahead of the chain
   (docs/dv-spec/consensus.md:74, "round boundaries stay aligned across all peers") *)
NeverAhead ==
  ChainTimed =>
    \A n \in Node : round[n] > 1 => now + MaxSkew >= Boundary(round[n] - 1)

(* Two nodes that wait in unextended rounds are in different rounds only while a round
   boundary lies between the slowest and the fastest clock, whenever they started
   (timer.py:247-252, "keeping round transitions aligned across the cluster") *)
Aligned ==
  ChainTimed =>
    \A n, m \in Node :
      (Settled(n) /\ Settled(m) /\ round[n] < round[m]) =>
        now < Boundary(round[n]) /\ Boundary(round[n]) <= now + MaxSkew

(* However many pre-prepares a node gets, and however late, it waits in a round no longer
   than twice the round's timeout: the others can get ahead of it by no more
   (timer.py:299, "effectively doubling") *)
LagBounded ==
  ChainTimed =>
    \A n, m \in Node :
      (Started(n) /\ ~Due(n) /\ round[m] > 1) =>
        Boundary(round[m] - 1) < Boundary(round[n]) + eager_double_linear_timeout(round[n]) + MaxSkew

(* A pre-prepare never brings forward the end of a round, with any timer (timer.py:235,
   "it doubles the round duration instead of resetting the timer") *)
NeverShortened ==
  [][\A n \in Node :
       (round'[n] = round[n] /\ Started(n)) => deadline'[n] >= deadline[n]]_vars

(* Node n's round is over, by its timer *)
Expired(n) == Due(n) /\ round'[n] # round[n]

(* With a timer that counts from the local clock, a round that a node leaves by its timer
   has lasted its timeout, whichever timer it is *)
RoundLastsLocally ==
  [][\A n \in Node :
       (~ChainTimed /\ Expired(n)) => Clock(n) - entered[n] >= BaseTimeout(round[n])]_vars

(* docs/dv-spec/consensus.md:68, "round r lasts r seconds", and timer.py:242, "Round
   duration increases linearly with the round number: 1s, 2s, 3s": said of a round that was
   entered when the one before it expired *)
RoundLasts ==
  [][\A n \in Node :
       (Expired(n) /\ round[n] > 1 /\ entered[n] <= Boundary(round[n] - 1)) =>
         Clock(n) - entered[n] >= BaseTimeout(round[n])]_vars
=============================================================================
