-------------------------- MODULE RoundTimer_proofs --------------------------
(***************************************************************************)
(* Proofs about the chain-timed eager double linear timer, for every set   *)
(* of nodes, every skew of their clocks and every duty.  The invariant     *)
(* behind them: the first deadlines a timer keeps are the boundaries of    *)
(* the chain, a deadline is the first one of its round or that extended    *)
(* once, and a round is entered only when its predecessor has expired by   *)
(* the fastest clock.                                                      *)
(***************************************************************************)
EXTENDS RoundTimer, TLAPS

(* The deadlines of a node are those of the chain *)
OnChain(n) ==
  /\ \A r \in DOMAIN first_deadlines[n] : first_deadlines[n][r] = Boundary(r)
  /\ Started(n) =>
       deadline[n] \in {Boundary(round[n]),
                       Boundary(round[n]) + eager_double_linear_timeout(round[n])}

(* With chain timing this is so at every node *)
ChainInv == ChainTimed => \A n \in Node : OnChain(n)

(* The base timeouts of the eager timer: positive, and growing with the round *)
LEMMA EagerTimeoutGrows ==
  ASSUME NEW r \in Nat, NEW q \in Nat, 1 <= r, r < q
  PROVE  /\ eager_double_linear_timeout(r) \in Nat
         /\ eager_double_linear_timeout(r) >= 1000
         /\ eager_double_linear_timeout(r) <= eager_double_linear_timeout(q)
BY DEF eager_double_linear_timeout, _proposal_timeout_optimization, PROPOSAL_ROUND_TIMEOUT, SECOND

(* Every timer has a timeout for every round *)
LEMMA TimeoutType ==
  ASSUME NEW r \in Nat, timer \in Timer
  PROVE  /\ eager_double_linear_timeout(r) \in Nat
         /\ BaseTimeout(r) \in Nat
         /\ timer[1] = "eager_dlinear" => BaseTimeout(r) = eager_double_linear_timeout(r)
         /\ timer[1] \in {"inc", "eager_dlinear", "linear"}
<1>1. timer[1] \in {"inc", "eager_dlinear", "linear"}
  BY RoundTimerAssumption
<1>2. eager_double_linear_timeout(r) \in Nat
  BY DEF eager_double_linear_timeout, PROPOSAL_ROUND_TIMEOUT, SECOND
<1>3. IncreasingTimeout(r) \in Nat /\ LinearTimeout(r) \in Nat
  BY DEF IncreasingTimeout, LinearTimeout, PROPOSAL_ROUND_TIMEOUT, SECOND
<1>4. QED
  BY <1>1, <1>2, <1>3 DEF BaseTimeout

(* The duty start and the boundaries are times *)
LEMMA BoundaryType ==
  ASSUME NEW r \in Nat
  PROVE  DutyStart \in Int /\ Boundary(r) \in Int /\ SlotStart \in Int
<1>1. SLOT_DURATION * Slot \in Nat /\ SLOT_DURATION \div 3 \in Int
      /\ (2 * SLOT_DURATION) \div 3 \in Int
  BY RoundTimerAssumption
<1>2. get_duty_start_delay \in Int
  BY <1>1 DEF get_duty_start_delay
<1>3. eager_double_linear_timeout(r) \in Nat
  BY DEF eager_double_linear_timeout, PROPOSAL_ROUND_TIMEOUT, SECOND
<1>4. QED
  BY <1>1, <1>2, <1>3, RoundTimerAssumption DEF DutyStart, SlotStart, Boundary

-----------------------------------------------------------------------------
(* What running the timer of n for a round r that is not before its own does to the
   first deadlines *)
LEMMA RunTimerKeepsType ==
  ASSUME TypeOK, NEW n \in Node, NEW r \in 1 .. MaxRound, r >= round[n], RunTimer(n, r)
  PROVE  TypeOK'
<1>1. r \in Nat /\ now \in Int /\ Clock(n) \in Int /\ DutyStart \in Int
  BY BoundaryType, RoundTimerAssumption DEF TypeOK, Clock
<1>2. BaseTimeout(r) \in Nat /\ eager_double_linear_timeout(r) \in Nat
  BY <1>1, TimeoutType DEF TypeOK
<1>3. FirstDeadline(n, r) \in Int
  BY <1>1, <1>2 DEF FirstDeadline, eager_double_linear_deadline
<1>4. calculate_timeout(n, r) \in Int
  BY <1>1, <1>2, <1>3 DEF calculate_timeout, Seen, TypeOK
<1>5. /\ \A k \in DOMAIN Tracked(n, r) : Tracked(n, r)[k] \in Int
      /\ DOMAIN Tracked(n, r) \subseteq 1 .. r
      /\ timer[1] = "eager_dlinear" => r \in DOMAIN Tracked(n, r)
  BY <1>1, <1>3 DEF Tracked, Seen, TypeOK
<1>6. \A m \in Node :
        /\ DOMAIN first_deadlines'[m] \subseteq 1 .. round'[m]
        /\ (timer[1] = "eager_dlinear" /\ round'[m] > 0) => round'[m] \in DOMAIN first_deadlines'[m]
        /\ \A k \in DOMAIN first_deadlines'[m] : first_deadlines'[m][k] \in Int
  <2> TAKE m \in Node
  <2>1. CASE m = n
    BY <2>1, <1>5 DEF RunTimer, TypeOK
  <2>2. CASE m # n
    BY <2>2 DEF RunTimer, TypeOK, Started
  <2>3. QED
    BY <2>1, <2>2
<1>7. entered' \in [Node -> Int] /\ deadline' \in [Node -> Int]
      /\ round' \in [Node -> 0 .. MaxRound] /\ DOMAIN first_deadlines' = Node
  BY <1>1, <1>4 DEF RunTimer, TypeOK
<1>8. QED
  BY <1>6, <1>7 DEF RunTimer, TypeOK, Started

(* Running the timer of n keeps the deadlines of every node on the chain *)
LEMMA RunTimerKeepsChain ==
  ASSUME TypeOK, ChainInv, NEW n \in Node, NEW r \in 1 .. MaxRound, r >= round[n], RunTimer(n, r)
  PROVE  ChainInv'
<1> SUFFICES ASSUME ChainTimed, NEW m \in Node
             PROVE  OnChain(m)'
  BY DEF ChainInv, ChainTimed, RunTimer
<1>1. /\ timer' = timer /\ duty_type' = duty_type
      /\ \A k \in Nat : Boundary(k)' = Boundary(k)
      /\ \A k \in Nat : eager_double_linear_timeout(k)' = eager_double_linear_timeout(k)
  BY DEF RunTimer, Boundary, DutyStart, get_duty_start_delay, eager_double_linear_timeout,
         _proposal_timeout_optimization
<1>2. r \in Nat /\ timer[1] = "eager_dlinear"
  BY DEF ChainTimed
<1>3. FirstDeadline(n, r) = Boundary(r)
  BY DEF FirstDeadline, eager_double_linear_deadline, Boundary
<1>4. \A k \in DOMAIN Tracked(n, r) : Tracked(n, r)[k] = Boundary(k)
  BY <1>3 DEF Tracked, ChainInv, OnChain
<1>5. calculate_timeout(n, r) \in {Boundary(r), Boundary(r) + eager_double_linear_timeout(r)}
  <2>1. CASE Seen(n, r)
    BY <2>1, <1>2, TimeoutType DEF calculate_timeout, Seen, ChainInv, OnChain, TypeOK
  <2>2. CASE ~Seen(n, r)
    BY <2>2, <1>3 DEF calculate_timeout
  <2>3. QED
    BY <2>1, <2>2
<1>6. DOMAIN first_deadlines'[m] \subseteq Nat /\ round'[m] \in Nat
  BY RunTimerKeepsType DEF TypeOK
<1>7. CASE m = n
  <2>1. first_deadlines'[m] = Tracked(n, r) /\ round'[m] = r
        /\ deadline'[m] = calculate_timeout(n, r)
    BY <1>7 DEF RunTimer, TypeOK
  <2>2. QED
    BY <2>1, <1>1, <1>2, <1>4, <1>5, <1>6 DEF OnChain
<1>8. CASE m # n
  <2>1. first_deadlines'[m] = first_deadlines[m] /\ round'[m] = round[m]
        /\ deadline'[m] = deadline[m]
    BY <1>8 DEF RunTimer, TypeOK
  <2>2. QED
    BY <2>1, <1>1, <1>6 DEF OnChain, ChainInv, Started
<1>9. QED
  BY <1>7, <1>8

-----------------------------------------------------------------------------
(* Every action but Tick runs the timer of a node for a round in bounds, one that is not
   before its own; that round is the first, follows an expired one, or is another node's *)
LEMMA NextRunsTimer ==
  ASSUME TypeOK, Next, ~Tick
  PROVE  \E n \in Node, r \in 1 .. MaxRound :
           /\ r >= round[n] /\ RunTimer(n, r)
           /\ \/ r = 1
              \/ Due(n) /\ r = round[n] + 1
              \/ Started(n) /\ \E m \in Node : round[m] = r
<1>1. ASSUME NEW n \in Node, Start(n)
      PROVE  1 \in 1 .. MaxRound /\ 1 >= round[n] /\ RunTimer(n, 1)
  BY <1>1, RoundTimerAssumption DEF Start, Started, TypeOK
<1>2. ASSUME NEW n \in Node, Timeout(n)
      PROVE  /\ round[n] + 1 \in 1 .. MaxRound /\ round[n] + 1 >= round[n]
             /\ Due(n) /\ RunTimer(n, round[n] + 1)
  BY <1>2, RoundTimerAssumption DEF Timeout, TypeOK
<1>3. ASSUME NEW n \in Node, NEW r \in 1 .. MaxRound, Follow(n, r)
      PROVE  /\ r >= round[n] /\ RunTimer(n, r)
             /\ Started(n) /\ \E m \in Node : round[m] = r
  BY <1>3 DEF Follow
<1>4. QED
  BY <1>1, <1>2, <1>3 DEF Next

(* NeverAhead through a call of the timer: an expired round is over by the clock of its
   node, and whoever follows is not ahead of the node it follows *)
LEMMA RunTimerNeverAhead ==
  ASSUME TypeOK, ChainInv, NeverAhead, Next, ~Tick
  PROVE  NeverAhead'
<1>1. PICK n \in Node, r \in 1 .. MaxRound :
        /\ r >= round[n] /\ RunTimer(n, r)
        /\ \/ r = 1
           \/ Due(n) /\ r = round[n] + 1
           \/ Started(n) /\ \E m \in Node : round[m] = r
  BY NextRunsTimer
<1> SUFFICES ASSUME ChainTimed, NEW m \in Node, round'[m] > 1
             PROVE  now + MaxSkew >= Boundary(round'[m] - 1)
  BY <1>1 DEF NeverAhead, ChainTimed, RunTimer, Boundary, DutyStart, get_duty_start_delay,
              eager_double_linear_timeout, _proposal_timeout_optimization
<1>2. r \in Nat /\ round[n] \in Nat /\ Clock(n) \in Int /\ Clock(n) <= now + MaxSkew
  BY RoundTimerAssumption DEF TypeOK, Clock
<1>3. CASE round'[m] = round[m]
  BY <1>3 DEF NeverAhead
<1>4. CASE round'[m] # round[m]
  <2>1. m = n /\ round'[m] = r
    BY <1>1, <1>4 DEF RunTimer, TypeOK
  <2>2. CASE Due(n) /\ r = round[n] + 1
    <3>1. deadline[n] >= Boundary(round[n]) /\ Boundary(round[n]) \in Int
      BY <1>2, <2>2, BoundaryType, TimeoutType DEF ChainInv, OnChain, Due, TypeOK
    <3>2. deadline[n] \in Int /\ Clock(n) >= deadline[n] /\ round[n] = r - 1
      BY <1>2, <2>2 DEF Due, TypeOK
    <3>3. QED
      BY <1>2, <2>1, <3>1, <3>2, RoundTimerAssumption DEF TypeOK
  <2>3. CASE Started(n) /\ \E k \in Node : round[k] = r
    BY <2>1, <2>3 DEF NeverAhead
  <2>4. QED
    BY <1>1, <2>1, <2>2, <2>3
<1>5. QED
  BY <1>3, <1>4

(* The inductive invariant *)
Inv == TypeOK /\ ChainInv /\ NeverAhead

(* It holds when nothing has started *)
LEMMA InitInv ==
  ASSUME Init
  PROVE  Inv
<1>1. TypeOK
  BY BoundaryType, RoundTimerAssumption DEF Init, TypeOK, Started
<1>2. ChainInv /\ NeverAhead
  BY DEF Init, ChainInv, OnChain, Started, NeverAhead
<1>3. QED
  BY <1>1, <1>2 DEF Inv

(* Every step keeps it *)
LEMMA NextInv ==
  ASSUME Inv, [Next]_vars
  PROVE  Inv'
<1>1. CASE UNCHANGED vars
  <2>1. TypeOK'
    BY <1>1 DEF vars, Inv, TypeOK, Started
  <2>2. ChainInv'
    BY <1>1 DEF vars, Inv, ChainInv, ChainTimed, OnChain, Started, Boundary, DutyStart,
                get_duty_start_delay, eager_double_linear_timeout, _proposal_timeout_optimization
  <2>3. NeverAhead'
    BY <1>1 DEF vars, Inv, NeverAhead, ChainTimed, Boundary, DutyStart, get_duty_start_delay,
                eager_double_linear_timeout, _proposal_timeout_optimization
  <2>4. QED
    BY <2>1, <2>2, <2>3 DEF Inv
<1>2. CASE Tick
  <2>1. TypeOK'
    BY <1>2, RoundTimerAssumption DEF Tick, Inv, TypeOK, Started
  <2>2. ChainInv'
    BY <1>2 DEF Tick, Inv, ChainInv, ChainTimed, OnChain, Started, Boundary, DutyStart,
                get_duty_start_delay, eager_double_linear_timeout, _proposal_timeout_optimization
  <2>3. NeverAhead'
    <3> SUFFICES ASSUME ChainTimed, NEW m \in Node, round[m] > 1
                 PROVE  now' + MaxSkew >= Boundary(round[m] - 1)
      BY <1>2 DEF Tick, NeverAhead, ChainTimed, Boundary, DutyStart, get_duty_start_delay,
                  eager_double_linear_timeout, _proposal_timeout_optimization
    <3>1. Boundary(round[m] - 1) \in Int
      BY BoundaryType DEF Inv, TypeOK
    <3>2. now + MaxSkew >= Boundary(round[m] - 1)
      BY DEF Inv, NeverAhead
    <3>3. QED
      BY <1>2, <3>1, <3>2, RoundTimerAssumption DEF Tick, Inv, TypeOK
  <2>4. QED
    BY <2>1, <2>2, <2>3 DEF Inv
<1>3. CASE Next /\ ~Tick
  <2>1. PICK n \in Node, r \in 1 .. MaxRound : r >= round[n] /\ RunTimer(n, r)
    BY <1>3, NextRunsTimer DEF Inv
  <2>2. TypeOK' /\ ChainInv'
    BY <2>1, RunTimerKeepsType, RunTimerKeepsChain DEF Inv
  <2>3. NeverAhead'
    BY <1>3, RunTimerNeverAhead DEF Inv
  <2>4. QED
    BY <2>2, <2>3 DEF Inv
<1>4. QED
  BY <1>1, <1>2, <1>3

(* The timers keep their types and track the rounds they were asked for *)
THEOREM TimerType == Spec => []TypeOK
BY InitInv, NextInv, PTL DEF Spec, Inv

(* No node is in a round before the previous one has expired by the fastest clock *)
THEOREM TimerNeverAhead == Spec => []NeverAhead
BY InitInv, NextInv, PTL DEF Spec, Inv

-----------------------------------------------------------------------------
(* Boundaries are in the order of their rounds *)
LEMMA BoundariesGrow ==
  ASSUME NEW r \in Nat, NEW q \in Nat, 1 <= r, r <= q
  PROVE  Boundary(r) <= Boundary(q)
<1>1. DutyStart \in Int
  BY BoundaryType
<1>2. CASE r = q
  <2>1. Boundary(r) \in Int
    BY BoundaryType
  <2>2. QED
    BY <1>2, <2>1
<1>3. CASE r < q
  <2>1. /\ eager_double_linear_timeout(r) <= eager_double_linear_timeout(q)
        /\ eager_double_linear_timeout(r) \in Nat
    BY <1>3, EagerTimeoutGrows
  <2>2. Boundary(q) \in Int /\ eager_double_linear_timeout(q) \in Nat
    BY BoundaryType DEF eager_double_linear_timeout, PROPOSAL_ROUND_TIMEOUT, SECOND
  <2>3. QED
    BY <1>1, <2>1, <2>2 DEF Boundary
<1>4. QED
  BY <1>2, <1>3

(* Nodes that wait in unextended rounds are in different rounds only while a boundary lies
   between the slowest and the fastest clock *)
THEOREM TimersAligned == Spec => []Aligned
<1>1. ASSUME Inv PROVE Aligned
  <2> SUFFICES ASSUME ChainTimed, NEW n \in Node, NEW m \in Node,
                      Settled(n), Settled(m), round[n] < round[m]
               PROVE  now < Boundary(round[n]) /\ Boundary(round[n]) <= now + MaxSkew
    BY DEF Aligned
  <2>1. /\ now \in Int /\ round[n] \in Nat /\ round[m] \in Nat /\ deadline[n] \in Int
        /\ 1 <= round[n] /\ round[m] > 1 /\ Clock(n) \in Int /\ now <= Clock(n)
    BY <1>1, RoundTimerAssumption DEF Inv, TypeOK, Settled, Started, Clock
  <2>2. deadline[n] = Boundary(round[n])
    BY <1>1 DEF Inv, TypeOK, ChainInv, OnChain, Settled, ChainTimed
  <2>3. now < Boundary(round[n])
    BY <2>1, <2>2 DEF Settled, Due
  <2>4. Boundary(round[m] - 1) <= now + MaxSkew
    <3>1. Boundary(round[m] - 1) \in Int
      BY <2>1, BoundaryType
    <3>2. QED
      BY <1>1, <2>1, <3>1, RoundTimerAssumption DEF Inv, NeverAhead
  <2>5. Boundary(round[n]) <= Boundary(round[m] - 1)
    BY <2>1, BoundariesGrow
  <2>6. QED
    BY <2>1, <2>3, <2>4, <2>5, BoundaryType, RoundTimerAssumption
<1>2. QED
  BY <1>1, InitInv, NextInv, PTL DEF Spec

(* A node waits in a round no longer than twice its timeout, so that the others get no
   further ahead of it *)
THEOREM TimersLagBounded == Spec => []LagBounded
<1>1. ASSUME Inv PROVE LagBounded
  <2> SUFFICES ASSUME ChainTimed, NEW n \in Node, NEW m \in Node,
                      Started(n), ~Due(n), round[m] > 1
               PROVE  Boundary(round[m] - 1)
                        < Boundary(round[n]) + eager_double_linear_timeout(round[n]) + MaxSkew
    BY DEF LagBounded
  <2>1. /\ now \in Int /\ round[n] \in Nat /\ round[m] \in Nat /\ deadline[n] \in Int
        /\ Clock(n) \in Int /\ now <= Clock(n) /\ MaxSkew \in Nat
    BY <1>1, RoundTimerAssumption DEF Inv, TypeOK, Clock
  <2>2. /\ Boundary(round[n]) \in Int /\ Boundary(round[m] - 1) \in Int
        /\ eager_double_linear_timeout(round[n]) \in Nat
    BY <1>1, <2>1, BoundaryType, TimeoutType DEF Inv, TypeOK
  <2>3. deadline[n] <= Boundary(round[n]) + eager_double_linear_timeout(round[n])
    BY <1>1, <2>1, <2>2 DEF Inv, ChainInv, OnChain
  <2>4. now < deadline[n]
    BY <2>1 DEF Due
  <2>5. now + MaxSkew >= Boundary(round[m] - 1)
    BY <1>1 DEF Inv, NeverAhead
  <2>6. QED
    BY <2>1, <2>2, <2>3, <2>4, <2>5
<1>2. QED
  BY <1>1, InitInv, NextInv, PTL DEF Spec

-----------------------------------------------------------------------------
(* What every timer keeps of the deadline of n: the eager ones extend the first deadline of
   the round once, the others never look further ahead than a timeout, and those that count
   from the local clock give the round its timeout *)
DeadlineOK(n) ==
  Started(n) =>
    /\ timer[1] = "eager_dlinear" =>
         deadline[n] \in {first_deadlines[n][round[n]],
                          first_deadlines[n][round[n]] + BaseTimeout(round[n])}
    /\ timer[1] # "eager_dlinear" => deadline[n] <= Clock(n) + BaseTimeout(round[n])
    /\ ~ChainTimed =>
         /\ entered[n] <= Clock(n)
         /\ deadline[n] >= entered[n] + BaseTimeout(round[n])

(* This holds at every node, whatever the timer *)
DeadlineInv == TypeOK /\ \A n \in Node : DeadlineOK(n)

(* The chain-timed timer is the eager one *)
LEMMA ChainTimedIsEager ==
  ASSUME ChainTimed
  PROVE  timer[1] = "eager_dlinear"
BY DEF ChainTimed

(* The timeouts do not change while the timer runs *)
LEMMA SameTimer ==
  ASSUME UNCHANGED <<timer, duty_type>>
  PROVE  ChainTimed' = ChainTimed /\ \A k \in Nat : BaseTimeout(k)' = BaseTimeout(k)
BY DEF ChainTimed, BaseTimeout, IncreasingTimeout, LinearTimeout, eager_double_linear_timeout,
       _proposal_timeout_optimization

(* A call for round r, not before the current one: a later round has not been seen *)
LEMMA RunTimerKeepsDeadline ==
  ASSUME DeadlineInv, NEW n \in Node, NEW r \in 1 .. MaxRound, r >= round[n], RunTimer(n, r)
  PROVE  /\ DeadlineOK(n)'
         /\ (r = round[n]) => deadline'[n] >= deadline[n]
<1>1. /\ r \in Nat /\ r > 0 /\ round[n] \in Nat /\ deadline[n] \in Int /\ entered[n] \in Int
      /\ Clock(n) \in Int /\ BaseTimeout(r) \in Nat
  BY TimeoutType, RoundTimerAssumption DEF DeadlineInv, TypeOK, Clock
<1>2. /\ timer' = timer /\ Clock(n)' = Clock(n) /\ BaseTimeout(r)' = BaseTimeout(r)
      /\ ChainTimed' = ChainTimed
  BY DEF RunTimer, Clock, BaseTimeout, IncreasingTimeout, LinearTimeout, ChainTimed,
         eager_double_linear_timeout, _proposal_timeout_optimization
<1>3. /\ round'[n] = r /\ deadline'[n] = calculate_timeout(n, r)
      /\ first_deadlines'[n] = Tracked(n, r)
      /\ entered'[n] = IF r = round[n] THEN entered[n] ELSE Clock(n)
  BY DEF RunTimer, DeadlineInv, TypeOK
<1>4. CASE timer[1] = "eager_dlinear" /\ r = round[n]
  <2>1. Seen(n, r) /\ first_deadlines[n][r] \in Int
    BY <1>1, <1>4 DEF Seen, DeadlineInv, TypeOK, Started
  <2>2. /\ calculate_timeout(n, r) = first_deadlines[n][r] + BaseTimeout(r)
        /\ Tracked(n, r) = first_deadlines[n]
    BY <2>1 DEF calculate_timeout, Tracked
  <2>3. deadline[n] \in {first_deadlines[n][r], first_deadlines[n][r] + BaseTimeout(r)}
    BY <1>1, <1>4 DEF DeadlineInv, DeadlineOK, Started
  <2>4. deadline'[n] >= deadline[n]
    BY <1>1, <1>3, <2>1, <2>2, <2>3
  <2>5. ~ChainTimed => entered[n] <= Clock(n) /\ deadline[n] >= entered[n] + BaseTimeout(r)
    BY <1>1, <1>4 DEF DeadlineInv, DeadlineOK, Started
  <2>6. QED
    BY <1>1, <1>2, <1>3, <1>4, <2>1, <2>2, <2>4, <2>5 DEF DeadlineOK
<1>5. CASE timer[1] = "eager_dlinear" /\ r # round[n]
  <2> DOMAIN first_deadlines[n] \subseteq 1 .. round[n] /\ r > round[n]
    BY <1>1, <1>5 DEF DeadlineInv, TypeOK
  <2>1. ~Seen(n, r)
    BY <1>1 DEF Seen
  <2>2. calculate_timeout(n, r) = FirstDeadline(n, r) /\ Tracked(n, r)[r] = FirstDeadline(n, r)
    BY <1>5, <2>1 DEF calculate_timeout, Tracked
  <2>3. ~ChainTimed => FirstDeadline(n, r) = Clock(n) + BaseTimeout(r)
    BY DEF FirstDeadline
  <2>4. QED
    BY <1>1, <1>2, <1>3, <1>5, <2>2, <2>3 DEF DeadlineOK
<1>6. CASE timer[1] # "eager_dlinear"
  <2> ~ChainTimed
    BY <1>6, ChainTimedIsEager
  <2> ~Seen(n, r)
    BY <1>6 DEF Seen
  <2>1. calculate_timeout(n, r) = Clock(n) + BaseTimeout(r)
    BY DEF calculate_timeout, FirstDeadline
  <2>2. r = round[n] => entered[n] <= Clock(n) /\ deadline[n] <= Clock(n) + BaseTimeout(r)
    BY <1>1, <1>6, <2>1 DEF DeadlineInv, DeadlineOK, Started
  <2>3. QED
    BY <1>1, <1>2, <1>3, <1>6, <2>1, <2>2 DEF DeadlineOK
<1>7. QED
  BY <1>4, <1>5, <1>6

(* The invariant holds initially *)
LEMMA InitDeadlines ==
  ASSUME Init
  PROVE  DeadlineInv
BY InitInv DEF Inv, DeadlineInv, DeadlineOK, Init, Started

(* Every step keeps it, and shortens no round *)
LEMMA NextDeadlines ==
  ASSUME DeadlineInv, [Next]_vars
  PROVE  /\ DeadlineInv'
         /\ \A n \in Node : (round'[n] = round[n] /\ Started(n)) => deadline'[n] >= deadline[n]
<1>1. CASE UNCHANGED vars
  <2>1. ASSUME NEW n \in Node PROVE DeadlineOK(n)'
    <3>1. DeadlineOK(n) /\ round[n] \in Nat
      BY DEF DeadlineInv, TypeOK
    <3>2. ChainTimed' = ChainTimed /\ BaseTimeout(round[n])' = BaseTimeout(round[n])
      BY <1>1, <3>1, SameTimer DEF vars
    <3>3. QED
      BY <1>1, <3>1, <3>2 DEF vars, DeadlineOK, Started, Clock
  <2>2. QED
    BY <1>1, <2>1 DEF vars, DeadlineInv, TypeOK, Started
<1>2. CASE Tick
  <2>1. TypeOK' /\ \A n \in Node : deadline[n] \in Int
    BY <1>2, RoundTimerAssumption DEF Tick, DeadlineInv, TypeOK, Started
  <2>2. ASSUME NEW n \in Node PROVE DeadlineOK(n)'
    <3>1. /\ Clock(n) \in Int /\ Clock(n)' \in Int /\ Clock(n) <= Clock(n)'
          /\ entered[n] \in Int /\ deadline[n] \in Int /\ round[n] \in Nat
      BY <1>2, RoundTimerAssumption DEF Tick, Clock, DeadlineInv, TypeOK
    <3>2. /\ BaseTimeout(round[n]) \in Nat
          /\ BaseTimeout(round[n])' = BaseTimeout(round[n]) /\ ChainTimed' = ChainTimed
      BY <1>2, <3>1, TimeoutType, SameTimer DEF Tick, DeadlineInv, TypeOK
    <3>3. DeadlineOK(n)
      BY DEF DeadlineInv
    <3>4. QED
      BY <1>2, <3>1, <3>2, <3>3 DEF Tick, DeadlineOK, Started
  <2>3. QED
    BY <1>2, <2>1, <2>2 DEF Tick, DeadlineInv
<1>3. CASE Next /\ ~Tick
  <2>1. PICK n \in Node, r \in 1 .. MaxRound : r >= round[n] /\ RunTimer(n, r)
    BY <1>3, NextRunsTimer DEF DeadlineInv
  <2>2. TypeOK'
    BY <2>1, RunTimerKeepsType DEF DeadlineInv
  <2>3. DeadlineOK(n)' /\ (r = round[n] => deadline'[n] >= deadline[n])
    BY <2>1, RunTimerKeepsDeadline
  <2>4. ASSUME NEW m \in Node, m # n
        PROVE  DeadlineOK(m)' /\ deadline'[m] >= deadline[m]
    <3>1. /\ round'[m] = round[m] /\ deadline'[m] = deadline[m] /\ entered'[m] = entered[m]
          /\ first_deadlines'[m] = first_deadlines[m] /\ timer' = timer
          /\ duty_type' = duty_type /\ now' = now /\ deadline[m] \in Int
      BY <2>1, <2>4 DEF RunTimer, DeadlineInv, TypeOK
    <3>2. DeadlineOK(m) /\ round[m] \in Nat
      BY DEF DeadlineInv, TypeOK
    <3>3. ChainTimed' = ChainTimed /\ BaseTimeout(round[m])' = BaseTimeout(round[m])
      BY <3>1, <3>2, SameTimer
    <3>4. QED
      BY <3>1, <3>2, <3>3 DEF DeadlineOK, Started, Clock
  <2>5. round'[n] = r
    BY <2>1 DEF RunTimer, DeadlineInv, TypeOK
  <2>6. QED
    BY <2>2, <2>3, <2>4, <2>5 DEF DeadlineInv
<1>4. QED
  BY <1>1, <1>2, <1>3

(* A further call for a round never brings its end forward, whichever timer runs *)
THEOREM TimersNeverShortened == Spec => NeverShortened
<1>1. ASSUME DeadlineInv, [Next]_vars
      PROVE  [\A n \in Node :
                (round'[n] = round[n] /\ Started(n)) => deadline'[n] >= deadline[n]]_vars
  BY <1>1, NextDeadlines
<1>2. QED
  BY <1>1, InitDeadlines, NextDeadlines, PTL DEF Spec, NeverShortened

(* A round left by a timer that counts from the local clock has lasted its timeout *)
THEOREM LocalRoundsLast == Spec => RoundLastsLocally
<1>1. ASSUME DeadlineInv
      PROVE  \A n \in Node :
               (~ChainTimed /\ Due(n)) => Clock(n) - entered[n] >= BaseTimeout(round[n])
  <2> SUFFICES ASSUME NEW n \in Node, ~ChainTimed, Due(n)
               PROVE  Clock(n) - entered[n] >= BaseTimeout(round[n])
    OBVIOUS
  <2>1. /\ Clock(n) \in Int /\ entered[n] \in Int /\ deadline[n] \in Int
        /\ BaseTimeout(round[n]) \in Nat
    BY <1>1, TimeoutType, RoundTimerAssumption DEF DeadlineInv, TypeOK, Clock
  <2>2. deadline[n] >= entered[n] + BaseTimeout(round[n]) /\ Clock(n) >= deadline[n]
    BY <1>1 DEF DeadlineInv, DeadlineOK, Due
  <2>3. QED
    BY <2>1, <2>2
<1>2. ASSUME DeadlineInv
      PROVE  [\A n \in Node :
                (~ChainTimed /\ Expired(n)) => Clock(n) - entered[n] >= BaseTimeout(round[n])]_vars
  BY <1>1, <1>2 DEF Expired
<1>3. QED
  BY <1>2, InitDeadlines, NextDeadlines, PTL DEF Spec, RoundLastsLocally
=============================================================================
