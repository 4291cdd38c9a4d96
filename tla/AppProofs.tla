----------------------------- MODULE AppProofs -----------------------------
(* The reaper's arithmetic, for every number of connections, interval and timeout: *)
(* what it counted never exceeds the silence there was, and so it closes no one *)
(* early. *)
EXTENDS App, TLAPS

LEMMA CappedValue ==
  ASSUME NEW n \in Nat
  PROVE  Capped(n) = IF n <= IdleTimeout THEN n ELSE IdleTimeout
<1>1. PICK m \in {n, IdleTimeout} : m <= n /\ m <= IdleTimeout
  BY TimesAssumption
<1>2. Capped(n) \in {n, IdleTimeout} /\ Capped(n) <= n /\ Capped(n) <= IdleTimeout
  BY <1>1 DEF Capped, Min
<1> QED
  BY <1>2, TimesAssumption

LEMMA Countdown ==
  ASSUME NEW n \in Nat
  PROVE  Max({n - 1, 0}) = IF n = 0 THEN 0 ELSE n - 1
<1>1. PICK m \in {n - 1, 0} : m >= n - 1 /\ m >= 0
  OBVIOUS
<1>2. Max({n - 1, 0}) \in {n - 1, 0} /\ Max({n - 1, 0}) >= n - 1 /\ Max({n - 1, 0}) >= 0
  BY <1>1 DEF Max
<1> QED
  BY <1>2

---------------------------------------------------------------------------
(* The inductive invariant *)

\* What the reaper counted of a connection since its last read, less the seconds
\* since the last check, is silence; the interval in which it was accepted is
\* counted in full.
Counted(c) ==
  \/ quiet[c] = IdleTimeout
  \/ quiet[c] >= idle_time[c] - timer + IF everRead[c] THEN CheckInterval ELSE 0

SilenceInv ==
  \A c \in Conns :
    /\ state[c] = "new" => ~everRead[c]
    /\ state[c] = "open" /\ ~moved[c] => Counted(c)

IInv == TypeOK /\ SilenceInv

LEMMA InitInv == Init => IInv
BY TimesAssumption DEF Init, IInv, TypeOK, SilenceInv, Counted, Phases, States

LEMMA CloseFacts ==
  ASSUME TypeOK, NEW closed, Close(closed)
  PROVE  /\ state' \in [Conns -> States]
         /\ \A c \in Conns : /\ state'[c] = "open" => state[c] = "open"
                             /\ state'[c] = "new" <=> state[c] = "new"
                             /\ state'[c] # state[c] => c \in closed
BY DEF TypeOK, Close, States

LEMMA CancelType ==
  ASSUME TypeOK, NEW killed, Cancel(killed)
  PROVE  cancelled' \in [Conns -> BOOLEAN]
BY DEF TypeOK, Cancel

LEMMA TickInv == IInv /\ Tick => IInv'
<1> SUFFICES ASSUME IInv, Tick PROVE IInv'
  OBVIOUS
<1> USE TimesAssumption
<1>1. timer' = (IF timer = 0 THEN 0 ELSE timer - 1) /\ timer \in 0..CheckInterval
  <2>1. timer \in Nat
    BY DEF IInv, TypeOK
  <2> QED
    BY <2>1, Countdown DEF Tick, IInv, TypeOK
<1>2. nap' = (IF nap = 0 THEN 0 ELSE nap - 1) /\ nap \in {0, 1}
  BY Countdown DEF Tick, IInv, TypeOK
<1>3. \A c \in Conns :
        /\ quiet[c] \in 0..IdleTimeout
        /\ quiet'[c] = IF c \in Connections
                       THEN (IF quiet[c] + 1 <= IdleTimeout THEN quiet[c] + 1 ELSE IdleTimeout)
                       ELSE quiet[c]
  <2>1. \A c \in Conns : quiet[c] \in 0..IdleTimeout /\ quiet[c] + 1 \in Nat
    BY DEF IInv, TypeOK
  <2>2. \A c \in Conns :
          Capped(quiet[c] + 1) = IF quiet[c] + 1 <= IdleTimeout THEN quiet[c] + 1 ELSE IdleTimeout
    BY <2>1, CappedValue
  <2> QED
    BY <2>1, <2>2 DEF Tick
<1>4. TypeOK'
  <2>1. quiet' \in [Conns -> 0..IdleTimeout]
    <3>1. \A c \in Conns : quiet'[c] \in 0..IdleTimeout
      BY <1>3
    <3>2. quiet' = [c \in Conns |-> quiet'[c]]
      BY DEF Tick
    <3> QED
      BY <3>1, <3>2
  <2>2. timer' \in 0..CheckInterval /\ nap' \in {0, 1}
    BY <1>1, <1>2
  <2> QED
    BY <2>1, <2>2 DEF Tick, IInv, TypeOK
<1>5. SilenceInv'
  <2> SUFFICES ASSUME NEW c \in Conns
      PROVE  /\ state'[c] = "new" => ~everRead'[c]
             /\ state'[c] = "open" /\ ~moved'[c] => Counted(c)'
    BY DEF SilenceInv
  <2>1. state' = state /\ moved' = moved /\ everRead' = everRead /\ idle_time' = idle_time
    BY DEF Tick
  <2>2. idle_time[c] \in 0..IdleTimeout
    BY DEF IInv, TypeOK
  <2>3. ASSUME state[c] = "open", ~moved[c] PROVE Counted(c)'
    <3>1. c \in Connections
      BY <2>3 DEF Connections
    <3>2. Counted(c)
      BY <2>3 DEF IInv, SilenceInv
    <3> QED
      BY <3>1, <3>2, <2>1, <2>2, <1>1, <1>3 DEF Counted
  <2> QED
    BY <2>1, <2>3 DEF IInv, SilenceInv
<1> QED
  BY <1>4, <1>5 DEF IInv

LEMMA CheckInv == IInv /\ check_idle => IInv'
<1> SUFFICES ASSUME IInv, check_idle PROVE IInv'
  OBVIOUS
<1> USE TimesAssumption
<1>1. timer = 0 /\ timer' = CheckInterval
  BY DEF check_idle, CheckDue
<1>2. \A c \in Conns : idle_time[c] \in 0..IdleTimeout /\ idle_time[c] + CheckInterval \in Nat
  BY DEF IInv, TypeOK
<1>3. \A c \in Conns :
        Capped(idle_time[c] + CheckInterval) =
          IF idle_time[c] + CheckInterval <= IdleTimeout THEN idle_time[c] + CheckInterval ELSE IdleTimeout
  BY <1>2, CappedValue
<1>4. TypeOK'
  <2>1. idle_time' \in [Conns -> 0..IdleTimeout]
    <3>1. \A c \in Conns : IdleTime(c) \in 0..IdleTimeout
      BY <1>2, <1>3 DEF IdleTime
    <3> QED
      BY <3>1, <1>2 DEF check_idle
  <2>2. state' \in [Conns -> States]
    BY CloseFacts DEF IInv, check_idle
  <2>3. moved' \in [Conns -> BOOLEAN]
    BY DEF check_idle, IInv, TypeOK
  <2> QED
    BY <1>1, <2>1, <2>2, <2>3 DEF check_idle, IInv, TypeOK, drainVars
<1>5. SilenceInv'
  <2> SUFFICES ASSUME NEW c \in Conns
      PROVE  /\ state'[c] = "new" => ~everRead'[c]
             /\ state'[c] = "open" /\ ~moved'[c] => Counted(c)'
    BY DEF SilenceInv
  <2>1. everRead' = everRead /\ quiet' = quiet
    BY DEF check_idle
  <2>2. /\ state'[c] = "new" => state[c] = "new"
        /\ state'[c] = "open" => state[c] = "open"
    BY CloseFacts DEF IInv, check_idle
  <2>3. ASSUME state'[c] = "open" PROVE Counted(c)'
    <3>1. c \in Connections
      BY <2>2, <2>3 DEF Connections
    <3>2. idle_time'[c] = IdleTime(c)
      BY <3>1 DEF check_idle
    <3>3. quiet[c] \in 0..IdleTimeout
      BY DEF IInv, TypeOK
    <3>4. CASE moved[c]
      <4>1. idle_time'[c] = 0
        BY <3>2, <3>4 DEF IdleTime
      <4> QED
        BY <4>1, <3>3, <2>1, <1>1 DEF Counted
    <3>5. CASE ~moved[c]
      <4>1. Counted(c)
        BY <3>5, <2>2, <2>3 DEF IInv, SilenceInv
      <4>2. idle_time'[c] <= idle_time[c] + CheckInterval /\ idle_time'[c] \in Int
        BY <3>2, <3>5, <1>2, <1>3 DEF IdleTime
      <4> QED
        BY <4>1, <4>2, <3>3, <2>1, <1>1, <1>2 DEF Counted
    <3> QED
      BY <3>4, <3>5
  <2> QED
    BY <2>1, <2>2, <2>3 DEF IInv, SilenceInv
<1> QED
  BY <1>4, <1>5 DEF IInv

\* The steps that leave every count alone.
LEMMA UncountedInv ==
  ASSUME IInv, TypeOK', UNCHANGED <<moved, idle_time, timer, quiet, everRead>>,
         \A c \in Conns : /\ state'[c] = "open" => state[c] = "open"
                          /\ state'[c] = "new" => state[c] = "new"
  PROVE  IInv'
BY DEF IInv, SilenceInv, Counted

LEMMA StepInv == IInv /\ [Next]_vars => IInv'
<1> SUFFICES ASSUME IInv, [Next]_vars PROVE IInv'
  OBVIOUS
<1> USE TimesAssumption
<1>1. CASE Tick
  BY <1>1, TickInv
<1>2. CASE check_idle
  BY <1>2, CheckInv
<1>3. ASSUME NEW c \in Conns, connection_made(c) PROVE IInv'
  <2>1. TypeOK'
    BY <1>3 DEF connection_made, drainVars, IInv, TypeOK, States
  <2>2. SilenceInv'
    <3> SUFFICES ASSUME NEW d \in Conns
        PROVE  /\ state'[d] = "new" => ~everRead'[d]
               /\ state'[d] = "open" /\ ~moved'[d] => Counted(d)'
      BY DEF SilenceInv
    <3>1. CASE d = c
      <4>1. idle_time'[c] = 0 /\ ~everRead'[c] /\ state'[c] = "open" /\ quiet' = quiet /\ timer' = timer
        BY <1>3 DEF connection_made, IInv, TypeOK, SilenceInv
      <4>2. quiet[c] \in 0..IdleTimeout /\ timer \in 0..CheckInterval
        BY DEF IInv, TypeOK
      <4> QED
        BY <3>1, <4>1, <4>2 DEF Counted
    <3>2. CASE d # c
      <4>1. /\ state'[d] = state[d] /\ moved'[d] = moved[d] /\ idle_time'[d] = idle_time[d]
            /\ quiet' = quiet /\ timer' = timer /\ everRead' = everRead
        BY <1>3, <3>2 DEF connection_made, IInv, TypeOK
      <4> QED
        BY <4>1 DEF IInv, SilenceInv, Counted
    <3> QED
      BY <3>1, <3>2
  <2> QED
    BY <2>1, <2>2 DEF IInv
<1>4. ASSUME NEW c \in Conns, data_received(c) PROVE IInv'
  <2>1. PICK closes \in BOOLEAN : Close({d \in {c} : closes})
    BY <1>4 DEF data_received
  <2>2. /\ state' \in [Conns -> States]
        /\ \A d \in Conns : /\ state'[d] = "open" => state[d] = "open"
                            /\ state'[d] = "new" => state[d] = "new"
    BY <2>1, CloseFacts DEF IInv
  <2>3. TypeOK'
    <3>1. busy' \in [Conns -> BOOLEAN]
      BY <1>4 DEF data_received, IInv, TypeOK
    <3>2. /\ moved' \in [Conns -> BOOLEAN]
          /\ everRead' \in [Conns -> BOOLEAN]
      BY <1>4 DEF data_received, IInv, TypeOK
    <3>3. quiet' \in [Conns -> 0..IdleTimeout]
      <4>1. 0 \in 0..IdleTimeout
        OBVIOUS
      <4> QED
        BY <1>4, <4>1 DEF data_received, IInv, TypeOK
    <3> QED
      BY <1>4, <2>2, <3>1, <3>2, <3>3 DEF data_received, drainVars, IInv, TypeOK
  <2>4. SilenceInv'
    <3> SUFFICES ASSUME NEW d \in Conns
        PROVE  /\ state'[d] = "new" => ~everRead'[d]
               /\ state'[d] = "open" /\ ~moved'[d] => Counted(d)'
      BY DEF SilenceInv
    <3>1. CASE d = c
      BY <1>4, <3>1, <2>2 DEF data_received, IInv, TypeOK
    <3>2. CASE d # c
      <4>1. /\ moved'[d] = moved[d] /\ idle_time'[d] = idle_time[d] /\ everRead'[d] = everRead[d]
            /\ quiet'[d] = quiet[d] /\ timer' = timer
        BY <1>4, <3>2 DEF data_received, IInv, TypeOK
      <4> QED
        BY <4>1, <2>2 DEF IInv, SilenceInv, Counted
    <3> QED
      BY <3>1, <3>2
  <2> QED
    BY <2>3, <2>4 DEF IInv
<1>5. ASSUME NEW c \in Conns, Finish(c) PROVE IInv'
  <2>1. PICK closes \in BOOLEAN : Close({d \in {c} : closes})
    BY <1>5 DEF Finish
  <2>2. /\ state' \in [Conns -> States]
        /\ \A d \in Conns : /\ state'[d] = "open" => state[d] = "open"
                            /\ state'[d] = "new" => state[d] = "new"
    BY <2>1, CloseFacts DEF IInv
  <2>3. TypeOK'
    BY <1>5, <2>2 DEF Finish, drainVars, IInv, TypeOK
  <2> QED
    BY <1>5, <2>2, <2>3, UncountedInv DEF Finish
<1>6. ASSUME NEW c \in Conns, connection_lost(c) PROVE IInv'
  <2>1. cancelled' \in [Conns -> BOOLEAN]
    BY <1>6, CancelType DEF connection_lost, IInv
  <2>2. /\ state' \in [Conns -> States]
        /\ \A d \in Conns : /\ state'[d] = "open" => state[d] = "open"
                            /\ state'[d] = "new" => state[d] = "new"
    BY <1>6 DEF connection_lost, IInv, TypeOK, States
  <2>3. TypeOK'
    BY <1>6, <2>1, <2>2 DEF connection_lost, drainVars, IInv, TypeOK
  <2> QED
    BY <1>6, <2>2, <2>3, UncountedInv DEF connection_lost
<1>7. CASE Signal \/ SignalAgain \/ Stop
  <2>1. TypeOK' /\ UNCHANGED <<timer, connVars>>
    BY <1>7 DEF Signal, SignalAgain, Stop, connVars, IInv, TypeOK, Phases
  <2> QED
    BY <2>1, UncountedInv DEF connVars
<1>8. CASE DrainStart
  <2>1. /\ state' \in [Conns -> States]
        /\ \A d \in Conns : /\ state'[d] = "open" => state[d] = "open"
                            /\ state'[d] = "new" => state[d] = "new"
    BY <1>8, CloseFacts DEF DrainStart, IInv
  <2>2. TypeOK'
    BY <1>8, <2>1 DEF DrainStart, IInv, TypeOK, Phases
  <2> QED
    BY <1>8, <2>1, <2>2, UncountedInv DEF DrainStart
<1>9. CASE DrainRound
  <2>1. /\ state' \in [Conns -> States]
        /\ \A d \in Conns : /\ state'[d] = "open" => state[d] = "open"
                            /\ state'[d] = "new" => state[d] = "new"
    BY <1>9, CloseFacts DEF DrainRound, IInv
  <2>2. cancelled' \in [Conns -> BOOLEAN]
    BY <1>9, CancelType DEF DrainRound, IInv, TypeOK
  <2>3. phase \in Phases /\ phase' \in Phases /\ (phase' = "draining" => ~LastRound)
    BY <1>9 DEF DrainRound, IInv, TypeOK, Phases
  <2>4. rounds' \in (IF phase' = "draining" THEN 1 ELSE 0)..DrainRounds
    <3>1. rounds \in 1..DrainRounds /\ rounds' = rounds - 1
      BY <1>9 DEF DrainRound, IInv, TypeOK
    <3>2. phase' = "draining" => rounds # 1
      BY <2>3 DEF LastRound
    <3> QED
      BY <3>1, <3>2
  <2>5. nap' \in {0, 1}
    BY <1>9 DEF DrainRound
  <2>6. TypeOK'
    BY <1>9, <2>1, <2>2, <2>3, <2>4, <2>5 DEF DrainRound, IInv, TypeOK
  <2> QED
    BY <1>9, <2>1, <2>6, UncountedInv DEF DrainRound
<1>10. CASE UNCHANGED vars
  BY <1>10 DEF vars, IInv, TypeOK, SilenceInv, Counted
<1> QED
  BY <1>1, <1>2, <1>3, <1>4, <1>5, <1>6, <1>7, <1>8, <1>9, <1>10 DEF Next

\* The variables of App keep their types, the counts their bounds.
THEOREM TypeCorrect == Spec => []TypeOK
<1>1. Spec => []IInv
  BY InitInv, StepInv, PTL DEF Spec
<1>2. IInv => TypeOK
  BY DEF IInv
<1> QED
  BY <1>1, <1>2, PTL

\* What _check_idle closes has been silent for the timeout.
LEMMA CheckClosesSilent ==
  ASSUME IInv, check_idle, NEW c \in Conns, state[c] = "open", state'[c] = "closing"
  PROVE  SilentLongEnough(c)
<1> USE TimesAssumption
<1>1. c \in Overdue
  BY CloseFacts DEF IInv, check_idle
<1>2. ~moved[c] /\ idle_time[c] + CheckInterval >= IdleTimeout
  BY <1>1 DEF Overdue
<1>3. Counted(c) /\ timer = 0
  BY <1>2 DEF IInv, SilenceInv, check_idle, CheckDue
<1>4. quiet[c] \in 0..IdleTimeout /\ idle_time[c] \in 0..IdleTimeout
  BY DEF IInv, TypeOK
<1> QED
  BY <1>2, <1>3, <1>4 DEF Counted, SilentLongEnough

\* The reaper closes no connection before its silence has lasted the timeout,
\* whatever the interval, the timeout and the order of reads and checks.
THEOREM NeverReapedEarly == Spec => ReapedAfterSilence
<1>1. Spec => []IInv
  BY InitInv, StepInv, PTL DEF Spec
<1>2. IInv /\ [Next]_vars =>
        [check_idle => \A c \in Conns : state[c] = "open" /\ state'[c] = "closing" =>
                                          SilentLongEnough(c)]_vars
  BY CheckClosesSilent
<1> QED
  BY <1>1, <1>2, PTL DEF Spec, ReapedAfterSilence
=============================================================================
