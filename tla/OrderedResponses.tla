------------------------- MODULE OrderedResponses -------------------------
(***************************************************************************)
(* What HTTP/1.1 pipelining promises a client, without any queue: requests *)
(* are numbered as they arrive, each is answered once, and the answers     *)
(* leave in the order of arrival, each only when it is complete.           *)
(*                                                                         *)
(* The promise holds up to the first response that cannot be produced      *)
(* (broken): from then on nothing is promised.  Pipeline.tla is shown to   *)
(* implement this specification.                                           *)
(***************************************************************************)
EXTENDS Naturals, Sequences

CONSTANT MaxEntries  \* requests of one connection

VARIABLES
  arrived,   \* number of requests accepted so far
  complete,  \* the requests whose response is known
  output,    \* the responses handed on, by request number
  broken     \* a response could not be produced

vars == <<arrived, complete, output, broken>>

Init ==
  /\ arrived = 0
  /\ complete = {}
  /\ output = <<>>
  /\ broken = FALSE

\* A request arrives; a synchronous handler completes it at once.
Arrive ==
  /\ arrived < MaxEntries
  /\ arrived' = arrived + 1
  /\ complete' \in {complete, complete \cup {arrived + 1}}
  /\ UNCHANGED <<output, broken>>

Complete(r) ==
  /\ r \in 1..arrived
  /\ complete' = complete \cup {r}
  /\ UNCHANGED <<arrived, output, broken>>

\* Every response up to n leaves, none of them before its turn.
Send(n) ==
  /\ n > Len(output)
  /\ 1..n \subseteq complete
  /\ output' = [i \in 1..n |-> i]
  /\ UNCHANGED <<arrived, complete, broken>>

Break == broken'

Next ==
  \/ ~broken /\ (\/ Arrive
                 \/ \E r \in 1..arrived : Complete(r)
                 \/ \E n \in 1..arrived : Send(n))
  \/ Break

Spec == Init /\ [][Next]_vars
===========================================================================
