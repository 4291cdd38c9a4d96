------------------------------ MODULE Response ------------------------------
(***************************************************************************)
(* A response of fpy3 and how it becomes bytes (cresponse.c).  The fields  *)
(* are what Response_init keeps of the arguments of request.Response(),    *)
(* with the protocol version and the keep-alive decision of the request    *)
(* (Request_Response).  The bytes are abstracted to what they say: status, *)
(* framing, content type, headers and body.  The cache of rendered         *)
(* responses is one for the whole process, shared by every connection.     *)
(***************************************************************************)
EXTENDS Naturals, Sequences, FiniteSets

CONSTANTS
  None,             \* an argument that is not given; NULL in the C
  application_json, application_octet, text_plain, utf8,
  TextTypes,        \* mime types that start with text/ or end with /json
  StatusCodes,      \* the codes reasons.h has a reason for
  LongBodies,       \* bodies of CACHE_CUTOFF bytes and more
  CACHE_LEN

ASSUME ResponseAssumption ==
  /\ CACHE_LEN \in Nat
  /\ text_plain \in TextTypes

VARIABLE cache      \* the rendered responses: <<[body, response_bytes], ...>>

\* What Response() takes, nothing given.
NoArguments == [text |-> None, body |-> None, json |-> None, code |-> None,
                mime_type |-> None, encoding |-> None,
                headers |-> None, cookies |-> None]

\* The body a text is sent as: UTF-8, or the encoding that was asked for.
Encode(text, encoding) == IF encoding = None THEN text ELSE <<text, encoding>>

\* The text of a json argument (json.dumps).
Dumps(json) == <<json, application_json>>

First(x, y) == IF x # None THEN x ELSE y

\* The fields the arguments set; a json argument is dumped and sent as text, and
\* the type of a json or of a body argument is implied when none is given.
Response_init(args) ==
  LET text == IF args.json # None THEN Dumps(args.json) ELSE args.text
      implied == CASE args.json # None -> application_json
                   [] args.json = None /\ args.body # None -> application_octet
                   [] OTHER -> None
  IN [code |-> args.code,
      body |-> IF text # None THEN Encode(text, args.encoding) ELSE args.body,
      mime_type |-> First(args.mime_type, implied),
      encoding |-> args.encoding, headers |-> args.headers,
      cookies |-> args.cookies]

\* What request.Response() returns: the fields, and what the request decides.
Request_Response(args, minor_version, keep_alive) ==
  [fields |-> Response_init(args),
   minor_version |-> minor_version, keep_alive |-> keep_alive]

\* Mutant: a response that closes the connection may be cached too.
Response_cacheable_AnyConnection(r, simple) ==
  /\ simple
  /\ r.fields.body # None /\ r.fields.body \notin LongBodies
  /\ \A f \in {"code", "headers", "cookies", "mime_type", "encoding"} :
       r.fields[f] = None
  /\ r.minor_version = 1

\* Only a plain answer to a kept-alive HTTP/1.1 request may be cached: its
\* bytes depend on nothing but the body.
Response_cacheable(r, simple) ==
  /\ simple
  /\ r.fields.body # None /\ r.fields.body \notin LongBodies
  /\ \A f \in {"code", "headers", "cookies", "mime_type", "encoding"} :
       r.fields[f] = None
  /\ r.minor_version = 1
  /\ r.keep_alive

\* The cached entries for a body; the first one is used.
Cached(body) == {i \in 1..Len(cache) : cache[i].body = body}

Response_from_cache(body) ==
  cache[CHOOSE i \in Cached(body) : \A j \in Cached(body) : i <= j].response_bytes

\* The Connection header: only said when it is not the version's default.
ConnectionHeader(r) ==
  IF r.minor_version = 1
  THEN IF r.keep_alive THEN None ELSE "close"
  ELSE IF r.keep_alive THEN "keep-alive" ELSE None

ContentType(f) ==
  LET mime == First(f.mime_type, text_plain)
  IN IF f.body = None THEN None
     ELSE <<mime, IF f.encoding # None \/ mime \in TextTypes
                  THEN First(f.encoding, utf8) ELSE None>>

\* Status line, framing, headers and body, written in this order into the
\* response's buffer; a code without a reason makes rendering fail.
RenderFresh(r) ==
  IF r.fields.code # None /\ r.fields.code \notin StatusCodes THEN None
  ELSE [minor_version |-> r.minor_version,
        status |-> First(r.fields.code, 200),
        connection |-> ConnectionHeader(r),
        content_type |-> ContentType(r.fields),
        headers |-> r.fields.headers, cookies |-> r.fields.cookies,
        body |-> r.fields.body]

\* The bytes of a response: the cached ones when it may be cached and its body
\* was rendered before.
Response_render(r, simple) ==
  IF Response_cacheable(r, simple) /\ Cached(r.fields.body) # {}
  THEN Response_from_cache(r.fields.body)
  ELSE RenderFresh(r)

\* What rendering leaves in the cache: a new entry while there is room.
Response_cache(r, simple) ==
  IF /\ Response_cacheable(r, simple)
     /\ Cached(r.fields.body) = {}
     /\ Len(cache) < CACHE_LEN
  THEN Append(cache, [body |-> r.fields.body, response_bytes |-> RenderFresh(r)])
  ELSE cache
=============================================================================
