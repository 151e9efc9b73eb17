------------------------------- MODULE Router -------------------------------
(***************************************************************************)
(* The router of an HTTP server (http/include/Router.h, http/src/          *)
(* Router.cc): two tables of static routes and two lists of patterns.      *)
(*                                                                         *)
(* A path is the sequence of its segments.  A pattern is one too, in which *)
(* some segments are parameters (":id").  A route is what the program      *)
(* registers: [table, method, path, to], to being its callback or handler. *)
(***************************************************************************)
EXTENDS Naturals, Sequences, FiniteSets

CONSTANTS Parameters,   \* the segments of patterns that are parameters
          Fallback      \* HttpServer::httpCallback_

VARIABLE tables         \* the four members of Router

Tables == {"staticCallbacks", "staticHandlers", "regexCallbacks", "regexHandlers"}

IsStatic(table) == table \in {"staticCallbacks", "staticHandlers"}

NoRoutes == [staticCallbacks |-> <<>>, staticHandlers |-> <<>>,
             regexCallbacks  |-> <<>>, regexHandlers  |-> <<>>]

-----------------------------------------------------------------------------
(* Registration.                                                           *)

AnySegment == "([^/]+)"

ConvertToRegex(pattern) ==
    [i \in DOMAIN pattern |->
        IF pattern[i] \in Parameters THEN AnySegment ELSE pattern[i]]

RouteKey(method, path) == <<method, path>>

\* registerCallback(), registerHandler(): the key's entry is set.
WithStatic(table, key, to) ==
    [k \in DOMAIN table \cup {key} |-> IF k = key THEN to ELSE table[k]]

\* addRegexCallback(), addRegexHandler(): the pattern goes to the end.
WithRegex(list, method, pattern, to) ==
    Append(list, [method |-> method, pattern |-> ConvertToRegex(pattern), to |-> to])

RegisterRoute(r) ==
    tables' = [tables EXCEPT ![r.table] =
        IF IsStatic(r.table) THEN WithStatic(@, RouteKey(r.method, r.path), r.to)
                             ELSE WithRegex(@, r.method, r.path, r.to)]

-----------------------------------------------------------------------------
(* route().                                                                *)

\* A parameter takes any segment but an empty one.
Captures(part, segment) == part = AnySegment /\ segment # ""

RegexMatch(path, pattern) ==
    /\ Len(path) = Len(pattern)
    /\ \A i \in DOMAIN path : pattern[i] = path[i] \/ Captures(pattern[i], path[i])

\* extractPathParameters(): param1, param2, ... are the captured segments.
PathParameters(path, pattern) ==
    LET segments == [i \in DOMAIN path |-> [at |-> pattern[i], is |-> path[i]]]
        captured == SelectSeq(segments, LAMBDA s : s.at = AnySegment)
    IN  [i \in DOMAIN captured |-> captured[i].is]

Chosen(to, params) == [to |-> to, params |-> params]

\* The entries of a list that a request meets.
Matching(list, method, path) ==
    {i \in DOMAIN list : list[i].method = method /\ RegexMatch(path, list[i].pattern)}

First(S) == CHOOSE i \in S : \A j \in S : i <= j

ChosenIn(list, method, path) ==
    LET e == list[First(Matching(list, method, path))]
    IN  Chosen(e.to, PathParameters(path, e.pattern))

\* Mutant: the patterns are tried before the static handlers.
Route_RegexFirst(method, path) ==
    LET key == RouteKey(method, path)
    IN  CASE key \in DOMAIN tables.staticCallbacks ->
               Chosen(tables.staticCallbacks[key], <<>>)
          [] OTHER ->
               IF Matching(tables.regexCallbacks, method, path) # {}
               THEN ChosenIn(tables.regexCallbacks, method, path)
               ELSE IF key \in DOMAIN tables.staticHandlers
               THEN Chosen(tables.staticHandlers[key], <<>>)
               ELSE IF Matching(tables.regexHandlers, method, path) # {}
               THEN ChosenIn(tables.regexHandlers, method, path)
               ELSE Chosen(Fallback, <<>>)

\* The four are asked in turn; if none answers, httpCallback_ does.
Route(method, path) ==
    LET key == RouteKey(method, path)
    IN  IF key \in DOMAIN tables.staticCallbacks
        THEN Chosen(tables.staticCallbacks[key], <<>>)
        ELSE IF key \in DOMAIN tables.staticHandlers
        THEN Chosen(tables.staticHandlers[key], <<>>)
        ELSE IF Matching(tables.regexCallbacks, method, path) # {}
        THEN ChosenIn(tables.regexCallbacks, method, path)
        ELSE IF Matching(tables.regexHandlers, method, path) # {}
        THEN ChosenIn(tables.regexHandlers, method, path)
        ELSE Chosen(Fallback, <<>>)
=============================================================================
