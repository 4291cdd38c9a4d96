----------------------------- MODULE MCRequest -----------------------------
(* Requests and routing on small instances: the characters, routes, requests *)
(* and answers. *)
EXTENDS Request

CONSTANTS g, p, u, x, y, two, five, three, F, f, H, h, w, o1, o2, b1, b2

\* Letters with two cases.
Lowercase == (H :> h) @@ (F :> f)

\* %2F, %25 and %3F.
Hex == (<<two, F>> :> Slash) @@ (<<two, five>> :> Percent) @@ (<<three, F>> :> Question)

Route(pattern, methods, coro, simple) ==
  [pattern |-> pattern, methods |-> methods, coro_func |-> coro, simple |-> simple]

\* "/x", for GET, PU and, behind it, P; then two coroutines, "/{y}/x" and "/x/{y}".
SmallRoutes ==
  <<Route(<<Slash, x>>, <<<<g>>, <<p, u>>, <<p>>>>, FALSE, TRUE),
    Route(<<Slash, Open, y, Close, Slash, x>>, <<<<g>>>>, TRUE, FALSE),
    Route(<<Slash, x, Slash, Open, y, Close>>, <<>>, TRUE, TRUE)>>

Plain(s) == [i \in DOMAIN s |-> [char |-> s[i], encoded |-> FALSE]]
Encoded(c) == <<[char |-> c, encoded |-> TRUE]>>
Header(name, value) == [name |-> name, value |-> value]

Ask(method, path, qs, minor, headers) ==
  [method |-> method, path |-> path, qs |-> qs, minor_version |-> minor,
   headers |-> headers]

\* A route with "Connection: close"; a coroutine's, with an encoded path that ends
\* early and an encoded query string, that fits the inner buffer; one that needs the
\* heap for its head, has "connection: keep-alive" in upper case and a text that looks
\* like an escape once it is decoded; one that needs the heap only for the matcher's
\* entries, with an escape in lower case and half an escape at the end; the method P,
\* which the route lists behind PU, with an empty query string; and U, which it does
\* not list, with one header twice.
SmallRequests ==
  {Ask(<<p, u>>, Plain(<<Slash, x>>), Plain(<<Question>>) \o Encoded(Percent), 1,
       <<Header(Connection, <<CloseToken>>)>>),
   Ask(<<g>>, Plain(<<Slash>>) \o Encoded(Question),
       Plain(<<Question>>) \o Encoded(Slash), 1, <<>>),
   Ask(<<g>>, Plain(<<Slash, x, Slash>>) \o Encoded(Percent) \o Plain(<<two, F>>), <<>>, 0,
       <<Header(<<h>>, <<w>>), Header(<<H, H>>, <<KeepAliveToken>>)>>),
   Ask(<<g>>, Plain(<<Slash, Percent, two, f, Percent, two>>), <<>>, 1, <<Header(<<h>>, <<w>>)>>),
   Ask(<<p>>, Plain(<<Slash, x>>), Plain(<<Question>>), 1, <<>>),
   Ask(<<u>>, Plain(<<Slash, x>>), <<>>, 1,
       <<Header(<<h>>, <<w>>), Header(<<H>>, <<x>>)>>)}

Connection1 == <<H, h>>

Text(t) == [NoArguments EXCEPT !.text = t]
SmallAnswers == {Text(y), [NoArguments EXCEPT !.json = y]}
Missing == [Text(x) EXCEPT !.code = 404]
Codes == {200, 404}

TwoClones == {o1, o2}
TwoBlocks == {b1, b2}
Symmetric == Permutations(TwoClones) \cup Permutations(TwoBlocks)
=============================================================================
