-------------------------------- MODULE App --------------------------------
(* The life of a server process: its connections, the reaper that closes the *)
(* ones that read nothing, and the drain that follows SIGTERM. Time advances by *)
(* ticks of one second; a timer never fires early and may fire late. *)
EXTENDS Integers, FiniteSets, FiniteSetsExt

CONSTANTS Conns,          \* the Protocol objects of one process
          CheckInterval,  \* the seconds between two checks of the reaper
          IdleTimeout,    \* the seconds of silence it tolerates
          DrainRounds     \* how many times drain looks again, a second apart

ASSUME TimesAssumption ==
  /\ CheckInterval \in Nat \ {0}
  /\ IdleTimeout \in Nat
  /\ DrainRounds \in Nat \ {0}

VARIABLES
  phase,      \* how far serve() has come
  state,      \* what became of a connection's transport
  busy,       \* the connection's pipeline is not empty
  cancelled,  \* its pipeline was cancelled while it was busy
  moved,      \* read_ops # last_read_ops
  idle_time,  \* what the reaper counted, capped at IdleTimeout
  timer,      \* seconds until the next check is due
  rounds,     \* the looks drain has left
  nap,        \* seconds until drain wakes
  quiet,      \* history: seconds since the last read or the accept, capped
  everRead    \* history: the connection has received something

vars == <<phase, state, busy, cancelled, moved, idle_time, timer, rounds, nap,
          quiet, everRead>>
connVars == <<state, busy, cancelled, moved, idle_time, quiet, everRead>>
drainVars == <<phase, rounds, nap>>

Phases == {"serving", "waiting", "draining", "drained", "stopped", "aborted"}
States == {"new", "open", "closing", "lost"}

Capped(n) == Min({n, IdleTimeout})

\* app._connections
Connections == {c \in Conns : state[c] \in {"open", "closing"}}
Idle == {c \in Connections : ~busy[c]}

\* transport.close(): connection_lost follows in a later turn of the loop;
\* closing twice does nothing.
Close(closed) ==
  state' = [c \in Conns |-> IF c \in closed /\ state[c] = "open" THEN "closing" ELSE state[c]]

\* app.pipeline_cancel() of some connections.
Cancel(killed) == cancelled' = [c \in Conns |-> cancelled[c] \/ (c \in killed /\ busy[c])]

\* The loop runs callbacks until serve() returns or is thrown out of.
Running == phase \notin {"stopped", "aborted"}

Init ==
  /\ phase = "serving"
  /\ state = [c \in Conns |-> "new"]
  /\ busy = [c \in Conns |-> FALSE]
  /\ cancelled = [c \in Conns |-> FALSE]
  /\ moved = [c \in Conns |-> FALSE]
  /\ idle_time = [c \in Conns |-> 0]
  /\ timer = CheckInterval
  /\ rounds = 0
  /\ nap = 0
  /\ quiet = [c \in Conns |-> 0]
  /\ everRead = [c \in Conns |-> FALSE]

Tick ==
  /\ Running
  /\ timer' = Max({timer - 1, 0})
  /\ nap' = Max({nap - 1, 0})
  /\ quiet' = [c \in Conns |-> IF c \in Connections THEN Capped(quiet[c] + 1) ELSE quiet[c]]
  /\ UNCHANGED <<phase, state, busy, cancelled, moved, idle_time, rounds, everRead>>

connection_made(c) ==
  /\ phase = "serving"
  /\ state[c] = "new"
  /\ state' = [state EXCEPT ![c] = "open"]
  /\ moved' = [moved EXCEPT ![c] = FALSE]
  /\ idle_time' = [idle_time EXCEPT ![c] = 0]
  /\ UNCHANGED <<busy, cancelled, timer, quiet, everRead, drainVars>>

\* The requests of the data are answered at once or wait in the pipeline; an
\* answer, or bytes that are no request, may close the transport.
data_received(c) ==
  /\ Running
  /\ state[c] = "open"
  /\ moved' = [moved EXCEPT ![c] = TRUE]
  /\ quiet' = [quiet EXCEPT ![c] = 0]
  /\ everRead' = [everRead EXCEPT ![c] = TRUE]
  /\ \E gathers \in BOOLEAN : busy' = [busy EXCEPT ![c] = busy[c] \/ gathers]
  /\ \E closes \in BOOLEAN : Close({d \in {c} : closes})
  /\ UNCHANGED <<cancelled, idle_time, timer, drainVars>>

\* The last entry of the pipeline is done and answered.
Finish(c) ==
  /\ Running
  /\ busy[c]
  /\ busy' = [busy EXCEPT ![c] = FALSE]
  /\ \E closes \in BOOLEAN : Close({d \in {c} : closes})
  /\ UNCHANGED <<cancelled, moved, idle_time, timer, quiet, everRead, drainVars>>

\* The client left, or the loop gets to what close() scheduled.
connection_lost(c) ==
  /\ Running
  /\ c \in Connections
  /\ state' = [state EXCEPT ![c] = "lost"]
  /\ Cancel({c})
  /\ UNCHANGED <<busy, moved, idle_time, timer, quiet, everRead, drainVars>>

---------------------------------------------------------------------------
(* The reaper *)

\* A mistake: what is read does not start the count again.
IdleTime_KeepsCounting(c) ==
  IF moved[c] THEN idle_time[c] ELSE Capped(idle_time[c] + CheckInterval)

\* A connection's idle_time after a check.
IdleTime(c) == IF moved[c] THEN 0 ELSE Capped(idle_time[c] + CheckInterval)

\* A mistake: a connection whose pipeline waits is never overdue.
Overdue_IfIdle == {c \in Idle : ~moved[c] /\ idle_time[c] + CheckInterval >= IdleTimeout}

\* The connections a check closes, busy or not.
Overdue == {c \in Connections : ~moved[c] /\ idle_time[c] + CheckInterval >= IdleTimeout}

CheckDue == Running /\ timer = 0

check_idle ==
  /\ CheckDue
  /\ Close(Overdue)
  /\ idle_time' = [c \in Conns |-> IF c \in Connections THEN IdleTime(c) ELSE idle_time[c]]
  /\ moved' = [c \in Conns |-> moved[c] /\ c \notin Connections]
  /\ timer' = CheckInterval
  /\ UNCHANGED <<busy, cancelled, quiet, everRead, drainVars>>

---------------------------------------------------------------------------
(* The end of serve() *)

\* SIGTERM or SIGINT stops the loop; server.close() accepts no more.
Signal ==
  /\ phase = "serving"
  /\ phase' = "waiting"
  /\ UNCHANGED <<rounds, nap, timer, connVars>>

\* A second one stops it again, inside run_until_complete, which raises: the rest
\* of the finally block is left out.
SignalAgain ==
  /\ phase \in {"waiting", "draining"}
  /\ phase' = "aborted"
  /\ UNCHANGED <<rounds, nap, timer, connVars>>

\* wait_closed() of a uvloop server returns at once after close(); drain runs to
\* its first sleep.
DrainStart ==
  /\ phase = "waiting"
  /\ Close(Idle)
  /\ IF Connections = {}
     THEN phase' = "drained" /\ UNCHANGED <<rounds, nap>>
     ELSE phase' = "draining" /\ rounds' = DrainRounds /\ nap' = 1
  /\ UNCHANGED <<busy, cancelled, moved, idle_time, timer, quiet, everRead>>

LastRound == rounds = 1 \/ Connections = Idle

\* A mistake: drain forgets the connections that stayed busy.
Killed_None == Connections \cap Idle

\* What drain kills in its last round.
Killed == Connections \ Idle

DrainRound ==
  /\ phase = "draining"
  /\ nap = 0
  /\ Close(Idle)
  /\ rounds' = rounds - 1
  /\ IF LastRound
     THEN phase' = "drained" /\ nap' = 0 /\ Cancel(Killed)
     ELSE phase' = phase /\ nap' = 1 /\ UNCHANGED cancelled
  /\ UNCHANGED <<busy, moved, idle_time, timer, quiet, everRead>>

\* reaper.stop() and loop.close()
Stop ==
  /\ phase = "drained"
  /\ phase' = "stopped"
  /\ UNCHANGED <<rounds, nap, timer, connVars>>

Next ==
  \/ Tick
  \/ \E c \in Conns : connection_made(c) \/ data_received(c) \/ Finish(c) \/ connection_lost(c)
  \/ check_idle
  \/ Signal \/ SignalAgain \/ DrainStart \/ DrainRound \/ Stop

Spec == Init /\ [][Next]_vars

\* Time passes, and the loop runs what is due: its timers, its coroutine, and the
\* connection_lost of a transport that is closed.
FairSpec ==
  /\ Spec
  /\ WF_vars(Tick) /\ WF_vars(check_idle)
  /\ WF_vars(DrainStart) /\ WF_vars(DrainRound) /\ WF_vars(Stop)
  /\ \A c \in Conns : WF_vars(state[c] = "closing" /\ connection_lost(c))

---------------------------------------------------------------------------
TypeOK ==
  /\ phase \in Phases
  /\ state \in [Conns -> States]
  /\ busy \in [Conns -> BOOLEAN]
  /\ cancelled \in [Conns -> BOOLEAN]
  /\ moved \in [Conns -> BOOLEAN]
  /\ idle_time \in [Conns -> 0..IdleTimeout]
  /\ timer \in 0..CheckInterval
  /\ rounds \in (IF phase = "draining" THEN 1 ELSE 0)..DrainRounds
  /\ nap \in {0, 1}
  /\ quiet \in [Conns -> 0..IdleTimeout]
  /\ everRead \in [Conns -> BOOLEAN]

\* What the reaper may ask of a connection: idle_timeout seconds without a read,
\* or, as it counts the whole interval in which a connection was accepted, up
\* to one interval less of one that never read.
SilentLongEnough(c) ==
  quiet[c] >= IF everRead[c] THEN IdleTimeout ELSE IdleTimeout - CheckInterval

\* The reaper (_check_idle) closes an open connection only after it has been
\* silent for the timeout, whenever its reads fell between two checks.
ReapedAfterSilence ==
  [][check_idle => \A c \in Conns : state[c] = "open" /\ state'[c] = "closing" =>
                                      SilentLongEnough(c)]_vars

\* A connection that stays open while the process runs on reads again and again:
\* one that falls silent is reaped, whether or not its pipeline waits for a
\* coroutine.
StaysOnlyIfReads ==
  \A c \in Conns :
    <>[](state[c] = "open" /\ phase = "serving") => []<><<data_received(c)>>_vars

\* After serve()'s finally block every connection was closed or had its coroutines
\* cancelled.
AllTold == phase = "stopped" => \A c \in Conns : state[c] # "open" \/ cancelled[c]

\* A signal ends the process after the drain's rounds, every client closed or
\* cancelled, whatever the clients and the coroutines do meanwhile, unless a second
\* signal cuts it short.
GracefulStop ==
  phase = "waiting" ~> (phase = "aborted" \/ (phase = "stopped" /\ AllTold))

=============================================================================
