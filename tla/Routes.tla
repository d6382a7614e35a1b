-------------------------------- MODULE Routes --------------------------------
(* The routes of a goji mux: string patterns, how one matches a path, and the   *)
(* promise of package web, that the first route in the order of insertion that   *)
(* matches both path and method is used.  A path is a sequence of bytes; only    *)
(* their order and the few that are special to patterns matter.                *)
EXTENDS Integers, FiniteSets, SequencesExt

Slash == 47
Colon == 58
Star == 42
Separators == {Slash, 46, 59, 44}  \* the bytes of bc: / . ; ,

Methods == {"CONNECT", "DELETE", "GET", "HEAD", "OPTIONS", "PATCH", "POST", "PUT", "TRACE"}
Unknown == "other"             \* mIDK
AllMethods == Methods \cup {Unknown}

httpMethod(name) == IF name \in Methods THEN name ELSE Unknown

Rest(s, n) == SubSeq(s, n, Len(s))

-----------------------------------------------------------------------------
(* Patterns.                                                                  *)

(* parseStringPattern: a parameter is a colon behind a break, and the name that *)
(* runs to the next break.  The pattern falls into the literals between them.   *)
parseStringPattern(raw) ==
    LET wildcard == IsSuffix(<<Slash, Star>>, raw)
        s == IF wildcard THEN Front(raw) ELSE raw
        colons == {i \in 2..Len(s) - 1 : /\ s[i] = Colon
                                         /\ s[i - 1] \in Separators /\ s[i + 1] \notin Separators}
        at == [k \in 1..Cardinality(colons) |->
                  CHOOSE i \in colons : Cardinality({j \in colons : j <= i}) = k]
        end == [i \in DOMAIN at |->
                   CHOOSE e \in at[i] + 1..Len(s) + 1 :
                       /\ e = Len(s) + 1 \/ s[e] \in Separators
                       /\ \A j \in at[i] + 1..e - 1 : s[j] \notin Separators]
    IN  [wildcard |-> wildcard,
         pats |-> [i \in DOMAIN at |-> SubSeq(s, at[i] + 1, end[i] - 1)],
         breaks |-> [i \in DOMAIN at |-> IF end[i] > Len(s) THEN Slash ELSE s[end[i]]],
         literals |-> [i \in 1..Len(at) + 1 |->
                          SubSeq(s, IF i = 1 THEN 1 ELSE end[i - 1],
                                    IF i > Len(at) THEN Len(s) ELSE at[i] - 1)]]

Prefix(pattern) == pattern.literals[1]

\* How far a parameter reaches in a path: to its break or a slash.
Reach(path, break) ==
    CHOOSE m \in 0..Len(path) :
        /\ m = Len(path) \/ path[m + 1] \in {break, Slash}
        /\ \A j \in 1..m : path[j] \notin {break, Slash}

\* One literal and the parameter behind it, which is not empty.
Step(m, literal, break) ==
    LET left == Rest(m.rest, Len(literal) + 1)
        n == Reach(left, break)
    IN  IF IsPrefix(literal, m.rest) /\ n > 0
        THEN {[rest |-> Rest(left, n + 1), bound |-> Append(m.bound, SubSeq(left, 1, n))]}
        ELSE {}

(* stringPattern.match: what is left of the path, and what the parameters are   *)
(* bound to, after each literal and parameter; no element when it fails.        *)
Consume(pattern, path) ==
    LET after[i \in 0..Len(pattern.pats)] ==
            IF i = 0 THEN {[rest |-> path, bound |-> <<>>]}
            ELSE UNION {Step(m, pattern.literals[i], pattern.breaks[i]) : m \in after[i - 1]}
        tail == Last(pattern.literals)
    IN  {m \in after[Len(pattern.pats)] :
            IF pattern.wildcard THEN IsPrefix(tail, m.rest) ELSE m.rest = tail}

Matches(pattern, path) == Consume(pattern, path) # {}

\* The parameters of c.URLParams in the order of the pattern, "*" last.
Params(pattern, path) ==
    LET m == CHOOSE x \in Consume(pattern, path) : TRUE
    IN  IF pattern.wildcard
        THEN Append(m.bound, Rest(m.rest, Len(Last(pattern.literals)))) ELSE m.bound

-----------------------------------------------------------------------------
(* Routes.                                                                    *)

Route(raw, methods, handler) ==
    [pattern |-> parseStringPattern(raw), methods |-> methods, handler |-> handler]

\* Mux.Get takes HEAD as well, Mux.Handle takes every method.
Get(raw, handler) == Route(raw, {"GET", "HEAD"}, handler)
Post(raw, handler) == Route(raw, {"POST"}, handler)
Handle(raw, handler) == Route(raw, AllMethods, handler)

NoRoute == 0

\* What a mux answers a request with: the index of a route, or the methods with
\* which the path would have had one.
Found(i) == [route |-> i, methods |-> {}]
NotFound(methods) == [route |-> NoRoute, methods |-> methods]

\* "The first route that matches both the request's path and method."
FirstMatch(routes, path, method) ==
    LET matching == {i \in DOMAIN routes : Matches(routes[i].pattern, path)}
        usable == {i \in matching : method \in routes[i].methods}
    IN  IF usable = {} THEN NotFound(UNION {routes[i].methods : i \in matching})
        ELSE Found(CHOOSE i \in usable : \A j \in usable : i <= j)

-----------------------------------------------------------------------------
(* The table of a router.                                                     *)

LexLeq(s, t) ==
    \/ IsPrefix(s, t)
    \/ \E i \in 1..Len(s) : /\ i <= Len(t) /\ s[i] < t[i]
                            /\ \A j \in 1..i - 1 : s[j] = t[j]

\* Wrong: sorted by prefix alone.
handleSorted(routes, r) ==
    LET behind == {i \in DOMAIN routes : LexLeq(Prefix(routes[i].pattern), Prefix(r.pattern))}
        at == IF behind = {} THEN 1 ELSE 1 + CHOOSE i \in behind : \A j \in behind : j <= i
    IN  InsertAt(routes, at, r)

(* handle: a route goes behind the last one with a smaller prefix or with one    *)
(* that begins with its own.                                                  *)
handle(routes, r) ==
    LET behind == {i \in DOMAIN routes :
                      \/ LexLeq(Prefix(routes[i].pattern), Prefix(r.pattern))
                      \/ IsPrefix(Prefix(r.pattern), Prefix(routes[i].pattern))}
        at == IF behind = {} THEN 1 ELSE 1 + CHOOSE i \in behind : \A j \in behind : j <= i
    IN  InsertAt(routes, at, r)

\* The table when the routes of a list have been added one by one.
TableOf(list) ==
    LET table[n \in 0..Len(list)] == IF n = 0 THEN <<>> ELSE handle(table[n - 1], list[n])
    IN  table[Len(list)]

\* A table and a list of routes answer a request with the same route, or with the same methods.
SameMatch(table, found, list, first) ==
    IF found.route = NoRoute THEN found = first
    ELSE first.route # NoRoute /\ table[found.route] = list[first.route]
=============================================================================
