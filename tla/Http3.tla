-------------------------------- MODULE Http3 --------------------------------
(***************************************************************************)
(* ASGIServer as the application of a request meets it: Asgi.tla receives, *)
(* and here it sends.  send_headers and send_data of cquic.c hand          *)
(* the stream to nghttp3 (submit, resume), and FlushStream asks nghttp3    *)
(* what to write and gives it to MsQuic.  Both run under ctx->lock from    *)
(* beginning to end, so a send is one step.                                *)
(*                                                                         *)
(* nghttp3 is external.  It answers writev_stream for whichever stream of  *)
(* the connection it likes among those it has something to write of, and   *)
(* goes on offering a stream until add_write_offset told it of the end of  *)
(* what it offered.                                                        *)
(***************************************************************************)
EXTENDS Asgi, SequencesExt

CONSTANT Bodies  \* bound: body messages of a response

ASSUME Http3Assumption == Bodies \in Nat

\* What goes out on a stream: its headers, its chunks by number, its FIN.
Headers == 0
End == Bodies + 1

VARIABLES
  resp,       \* resp[s]: resp_head to resp_tail, after headers not written yet
  resp_fin,   \* streams with sctx->resp_fin
  scheduled,  \* external, nghttp3: streams it would offer
  handed,     \* handed[s]: what MsQuic->StreamSend accepted for s, which
              \* refuses what comes after a FIN
  said,       \* history: what the application of s sent
  emptyEnd    \* history: responses whose last message had no body

sendVars == <<resp, resp_fin, scheduled, handed, said, emptyEnd>>

SendInit ==
  /\ resp = [s \in Streams |-> <<>>]
  /\ resp_fin = {}
  /\ scheduled = {}
  /\ handed = [s \in Streams |-> <<>>]
  /\ said = [s \in Streams |-> <<>>]
  /\ emptyEnd = {}

---------------------------------------------------------------------------
\* nghttp3 has no other stream of the connection to offer.
Alone(s) == \A t \in scheduled \ {s} : t[1] # s[1]

\* server_read_data: what nghttp3 has of a stream when it may write it out.
\* EOF comes with the last chunk, or alone if there is none.
Ready(waiting, fin) == waiting \o IF fin THEN <<End>> ELSE <<>>

\* How much of it the rounds of FlushStream see.  A round in which nghttp3
\* offers another request stream has no TargetStream and writes nothing, and
\* a hundred of them end the loop.
Offers(s, waiting, fin) ==
  LET all == Len(Ready(waiting, fin)) IN
  IF Alone(s) THEN {all}
  ELSE IF fin THEN {all} \cup 0..Len(waiting) - 1 \cup {0}
  ELSE 0..all

\* The loop ends when writev_stream returns 0, as the one of FlushConn does:
\* an end without data is never written.
FlushStream_NoBareFin(s, waiting, fin) ==
  \E n \in Offers(s, waiting, fin) :
    LET out == Ready(waiting, fin)
        written == IF out = <<End>> THEN 0 ELSE n
    IN /\ handed' = [handed EXCEPT ![s] = @ \o SubSeq(out, 1, written)]
       /\ resp' = [resp EXCEPT ![s] = SubSeq(waiting, written + 1, Len(waiting))]
       /\ scheduled' = IF written < Len(out) THEN scheduled \cup {s} ELSE scheduled \ {s}

\* nghttp3 lets go of the stream when all it offered was accounted for; for an
\* end without data add_write_offset is not called.
FlushStream(s, waiting, fin) ==
  \E n \in Offers(s, waiting, fin) :
    LET out == Ready(waiting, fin)
    IN /\ handed' = [handed EXCEPT ![s] = @ \o SubSeq(out, 1, n)]
       /\ resp' = [resp EXCEPT ![s] = SubSeq(waiting, n + 1, Len(waiting))]
       /\ scheduled' = IF n < Len(out) \/ out = <<End>>
                       THEN scheduled \cup {s} ELSE scheduled \ {s}

---------------------------------------------------------------------------
\* http.response.start: the headers, and never the end.
SendHeaders(s) ==
  /\ said[s] = <<>>
  /\ said' = [said EXCEPT ![s] = <<Headers>>]
  /\ FlushStream(s, resp[s] \o <<Headers>>, s \in resp_fin)
  /\ UNCHANGED <<resp_fin, emptyEnd>>

\* http.response.body after it: a chunk unless the body is empty, and the end
\* unless more_body.
SendData(s, chunk, more_body) ==
  /\ said[s] # <<>> /\ s \notin resp_fin
  /\ chunk => Len(said[s]) <= Bodies
  /\ LET body == IF chunk THEN <<Len(said[s])>> ELSE <<>>
     IN /\ said' = [said EXCEPT ![s] = @ \o Ready(body, ~more_body)]
        /\ FlushStream(s, resp[s] \o body, ~more_body)
  /\ IF more_body
     THEN UNCHANGED <<resp_fin, emptyEnd>>
     ELSE /\ resp_fin' = resp_fin \cup {s}
          /\ emptyEnd' = IF chunk THEN emptyEnd ELSE emptyEnd \cup {s}

\* RECEIVE flushes too, when more of the request comes: only a response held
\* up before has something left for it.
FlushOnReceive(s) ==
  /\ s \in scheduled /\ s \notin finished
  /\ handed[s] # said[s]
  /\ FlushStream(s, resp[s], s \in resp_fin)
  /\ UNCHANGED <<resp_fin, said, emptyEnd>>

---------------------------------------------------------------------------
httpVars == <<vars, sendVars>>

HttpInit == Init /\ SendInit

\* send(message) of a running application, which starts its response once
\* and says nothing after its last message.
AppSends(s) ==
  /\ task[s] = "running"
  /\ \/ SendHeaders(s)
     \/ \E chunk, more_body \in BOOLEAN : SendData(s, chunk, more_body)
  /\ UNCHANGED vars

HttpNext ==
  \/ Next /\ UNCHANGED sendVars
  \/ \E s \in Streams : AppSends(s)
  \/ \E s \in Streams : FlushOnReceive(s) /\ UNCHANGED vars

HttpSpec == HttpInit /\ [][HttpNext]_httpVars

\* As FairSpec of Asgi.tla: the loop runs tasks, and applications receive.
HttpFairSpec ==
  /\ HttpSpec
  /\ \A s \in Streams : /\ WF_httpVars(RunApp(s) /\ UNCHANGED sendVars)
                        /\ WF_httpVars(Receive(s) /\ UNCHANGED sendVars)

---------------------------------------------------------------------------
\* MsQuic has of each response what the application sent, in its order and
\* with FIN last, and has all of it when send returns: unless an earlier
\* response of the connection ended with a message that has no body, which
\* is then in the way of every other.
ResponsesHandedOver ==
  \A s \in Streams :
    /\ IsPrefix(handed[s], said[s])
    /\ handed[s] = said[s] \/ \E t \in emptyEnd \ {s} : t[1] = s[1]
=============================================================================
