------------------------------- MODULE Matcher -------------------------------
(***************************************************************************)
(* The router of fpy3: patterns are parsed into segments (route.py),       *)
(* compiled into the entries of one buffer (route.py, cmatcher.c) and      *)
(* scanned for each request by the C matcher (cmatcher.c) or, in its place,*)
(* by the Python one (matcher.py).  Paths, patterns and methods are        *)
(* sequences of characters.                                                *)
(***************************************************************************)
EXTENDS Naturals, Sequences, FiniteSets, FiniteSetsExt, SequencesExt

CONSTANTS
  Slash, Space, Open, Close,  \* the characters '/', ' ', '{' and '}'
  Routes                      \* the routes, in the order they were added:
                              \* [pattern, methods, coro_func, simple]

ASSUME CharacterAssumption == Slash \notin {Open, Close}

\* A sequence, whatever its elements are.
IsSequence(s) == s \in Seq(ToSet(s))

-----------------------------------------------------------------------------
(* route.py: patterns. *)

\* Where the exact text that starts at i ends: at the next '{' that is not
\* doubled.
ExactEnd(p) ==
  LET end[i \in 1..(Len(p) + 2)] ==
        IF i > Len(p) THEN Len(p) + 1
        ELSE IF p[i] # Open THEN end[i + 1]
        ELSE IF i < Len(p) /\ p[i + 1] = Open THEN end[i + 2] ELSE i
  IN end

\* A doubled brace stands for the brace.
Unescaped(s) ==
  LET rest[i \in 1..(Len(s) + 2)] ==
        IF i > Len(s) THEN <<>>
        ELSE IF s[i] \in {Open, Close} /\ i < Len(s) /\ s[i + 1] = s[i]
        THEN <<s[i]>> \o rest[i + 2] ELSE <<s[i]>> \o rest[i + 1]
  IN rest[1]

\* The '}' that closes the name which starts at i; 0 when there is none.
NameEnd(p, i) == LET ends == {j \in i..Len(p) : p[j] = Close}
                 IN IF ends = {} THEN 0 ELSE Min(ends)

Exact(text) == [type |-> "exact", data |-> text]
Placeholder(name) == [type |-> "placeholder", data |-> name]

\* The segments of a pattern: exact texts and placeholders in turn.
parse(p) ==
  LET segments[i \in 1..(Len(p) + 1)] ==
        LET open == ExactEnd(p)[i]
            close == NameEnd(p, open + 1)
            exact == IF open = i THEN <<>>
                     ELSE <<Exact(Unescaped(SubSeq(p, i, open - 1)))>>
        IN IF open >= Len(p) THEN exact
           ELSE exact \o <<Placeholder(SubSeq(p, open + 1, close - 1))>>
                      \o segments[close + 1]
  IN IF p = <<>> THEN <<>> ELSE segments[1]

Names(segments) == {i \in DOMAIN segments : segments[i].type = "placeholder"}

\* What parse refuses with a ValueError: a '{' that is not closed, a '}' with
\* something other than '/' after it, a name used twice.
WellFormed(p) ==
  LET opens == {i \in 1..(Len(p) - 1) : \E j \in 1..i : ExactEnd(p)[j] = i}
      segments == parse(p)
  IN /\ \A i \in opens : LET c == NameEnd(p, i + 1)
                         IN c # 0 /\ (c < Len(p) => p[c + 1] = Slash)
     /\ \A i, j \in Names(segments) : segments[i] = segments[j] => i = j

\* The entry a route is compiled to.  The methods are joined by spaces, with one
\* more at the end, in the order the set happens to be iterated.
compile(route) ==
  LET segments == parse(route.pattern)
  IN [segments |-> segments,
      methods |-> FlattenSeq([i \in DOMAIN route.methods |->
                                Append(route.methods[i], Space)]),
      placeholder_cnt |-> Cardinality(Names(segments)),
      coro_func |-> route.coro_func, simple |-> route.simple]

compile_all == [i \in DOMAIN Routes |-> compile(Routes[i])]

-----------------------------------------------------------------------------
(* cmatcher.c: the scan of one entry over the path. *)

\* The characters before the first '/'.
UpToSlash(s) == LET slashes == {i \in DOMAIN s : s[i] = Slash}
                IN IF slashes = {} THEN s ELSE SubSeq(s, 1, Min(slashes) - 1)

Drop(s, n) == SubSeq(s, n + 1, Len(s))

ScanStart(path) ==
  [rest |-> path, value_length |-> 1, entries |-> <<>>, stopped |-> FALSE]

\* One segment: an exact text must be what the rest starts with, a placeholder
\* takes what comes before the next '/'; a mismatch or an empty value ends the
\* scan.  A value is remembered as its place in the path.
ScanSegment(path, scan, segment) ==
  LET data == segment.data
      value == Len(UpToSlash(scan.rest))
  IN IF scan.stopped THEN scan
     ELSE IF segment.type = "exact"
     THEN IF IsPrefix(data, scan.rest)
          THEN [scan EXCEPT !.rest = Drop(@, Len(data))]
          ELSE [scan EXCEPT !.stopped = TRUE]
     ELSE [rest |-> Drop(scan.rest, value), value_length |-> value,
           entries |-> IF value = 0 THEN scan.entries
                       ELSE Append(scan.entries,
                                   [key |-> data, value_length |-> value,
                                    value |-> Len(path) - Len(scan.rest)]),
           stopped |-> value = 0]

Scan(entry, path) ==
  LET after[n \in 0..Len(entry.segments)] ==
        IF n = 0 THEN ScanStart(path)
        ELSE ScanSegment(path, after[n - 1], entry.segments[n])
  IN  after[Len(entry.segments)]

\* memmem: where a text first occurs in another.
Occurrences(s, in) ==
  {i \in 1..(Len(in) - Len(s) + 1) : SubSeq(in, i, i + Len(s) - 1) = s}

\* Mutant: a method is found when a listed one starts with it.
MethodFound_Prefix(entry, method) ==
  entry.methods = <<>> \/ Occurrences(method, entry.methods) # {}

\* The first occurrence of the method in the list must end at a space.
MethodFound(entry, method) ==
  \/ entry.methods = <<>>
  \/ LET found == Occurrences(method, entry.methods)
     IN found # {} /\ entry.methods[Min(found) + Len(method)] = Space

EntryMatches(entry, path, method) ==
  LET scan == Scan(entry, path)
  IN /\ scan.rest = <<>>
     /\ scan.value_length # 0
     /\ Len(scan.entries) = entry.placeholder_cnt
     /\ MethodFound(entry, method)

\* The first entry that matches, by its number, with its values; 0 for none.
Matcher_match_request(path, method) ==
  LET matching == {i \in DOMAIN compile_all :
                     EntryMatches(compile_all[i], path, method)}
  IN IF matching = {} THEN [entry |-> 0, entries |-> <<>>]
     ELSE [entry |-> Min(matching),
           entries |-> Scan(compile_all[Min(matching)], path).entries]

-----------------------------------------------------------------------------
(* matcher.py: the same in Python, over the routes themselves. *)

PyStart(path) ==
  [rest |-> path, value |-> TRUE, match_dict |-> {}, stopped |-> FALSE]

\* str.partition drops the '/' it stops at; it is put back after the value is
\* known not to be empty.
PySegment(scan, segment) ==
  LET data == segment.data
      value == UpToSlash(scan.rest)
  IN IF scan.stopped THEN scan
     ELSE IF segment.type = "exact"
     THEN IF IsPrefix(data, scan.rest)
          THEN [scan EXCEPT !.rest = Drop(@, Len(data))]
          ELSE [scan EXCEPT !.stopped = TRUE]
     ELSE IF value = <<>>
     THEN [scan EXCEPT !.rest = Drop(@, 1), !.value = FALSE, !.stopped = TRUE]
     ELSE [scan EXCEPT !.rest = Drop(@, Len(value)), !.value = TRUE,
                       !.match_dict = @ \cup {<<data, value>>}]

PyScan(segments, path) ==
  LET after[n \in 0..Len(segments)] ==
        IF n = 0 THEN PyStart(path) ELSE PySegment(after[n - 1], segments[n])
  IN  after[Len(segments)]

PyMatches(route, path, method) ==
  LET scan == PyScan(parse(route.pattern), path)
  IN /\ scan.rest = <<>>
     /\ scan.value
     /\ Cardinality(scan.match_dict) = Cardinality(Names(parse(route.pattern)))
     /\ route.methods # <<>> => \E i \in DOMAIN route.methods :
                                  route.methods[i] = method

PyMatch(path, method) ==
  LET matching == {i \in DOMAIN Routes : PyMatches(Routes[i], path, method)}
  IN IF matching = {} THEN [entry |-> 0, values |-> {}]
     ELSE [entry |-> Min(matching),
           values |-> PyScan(parse(Routes[Min(matching)].pattern), path).match_dict]

-----------------------------------------------------------------------------
(* What a pattern means, said without a scan. *)

\* The segments with the placeholders replaced.
Substituted(segments, values) ==
  FlattenSeq([i \in DOMAIN segments |->
    IF segments[i].type = "exact" THEN segments[i].data ELSE values[i]])

Substrings(s) == {SubSeq(s, i, j) : i, j \in DOMAIN s}

\* The ways to replace the placeholders of the first k segments, by texts
\* without a '/', that give the path.
Instances(segments, k, path) ==
  LET head == SubSeq(segments, 1, k)
      texts == {t \in Substrings(path) \ {<<>>} : \A i \in DOMAIN t : t[i] # Slash}
  IN {v \in [Names(head) -> texts] : Substituted(head, v) = path}

\* Segments after the last placeholder that are not needed to give the path: both
\* matchers accept a path that ends where an exact segment should begin.
Lengths(segments) == {k \in 0..Len(segments) : Names(segments) \subseteq 1..k}

Describes(segments, path) ==
  \E k \in Lengths(segments) : Instances(segments, k, path) # {}

Describing(path) == {i \in DOMAIN Routes : Describes(parse(Routes[i].pattern), path)}

\* A method is among those of a route, or the route takes any: what matcher.py asks.
Includes(methods, method) ==
  methods = <<>> \/ \E j \in DOMAIN methods : methods[j] = method

\* What the C matcher takes for it: the first of the methods that contains the
\* method does so once, at its end.  An UNLOCK route takes a LOCK, or an OCK, and
\* a method is not found behind one that begins with it.
Takes(methods, method) ==
  \/ methods = <<>>
  \/ \E j \in DOMAIN methods :
       /\ Occurrences(method, methods[j]) = {Len(methods[j]) - Len(method) + 1}
       /\ \A i \in 1..(j - 1) : Occurrences(method, methods[i]) = {}

\* The routes for a request, by the C matcher and by the Python one: the request is
\* for the first of them.
Described(path, method) == {i \in Describing(path) : Takes(Routes[i].methods, method)}
PyDescribed(path, method) == {i \in Describing(path) : Includes(Routes[i].methods, method)}

\* The values of a request for a described route, by name.
DescribedValues(segments, path) ==
  UNION {{<<segments[i].data, v[i]>> : i \in DOMAIN v} :
           v \in UNION {Instances(segments, k, path) : k \in Lengths(segments)}}
=============================================================================
