-------------------------------- MODULE Router --------------------------------
(* How goji routes: the table kept sorted by prefix, compiled to a trie and the  *)
(* trie to a bytecode, and the bytecode run against the path of a request.      *)
EXTENDS Routes

PrefixOf(routes, i) == Prefix(routes[i].pattern)

-----------------------------------------------------------------------------
(* The trie.  A node stands for neighbours in the table, whose prefixes begin   *)
(* with the same dp bytes.                                                    *)

TrieNode(first, last, dp) == [first |-> first, last |-> last, dp |-> dp]

Agree(routes, v) ==
    \A i \in v.first..v.last :
        /\ v.dp <= Len(PrefixOf(routes, i))
        /\ \A x \in 1..v.dp : PrefixOf(routes, i)[x] = PrefixOf(routes, v.first)[x]

Nodes(routes) ==
    {v \in [first : DOMAIN routes, last : DOMAIN routes, dp : Nat] :
        v.first <= v.last /\ Agree(routes, v)}

\* buildTrie: the routes whose prefix ends here, each of which begins a segment; without
\* one in front the first segment has no route.
Own(routes, v) == {i \in v.first..v.last : Len(PrefixOf(routes, i)) = v.dp}
Segments(routes, v) == {v.first} \cup Own(routes, v)

\* buildTrieSegment: where a child begins, as the next byte is not the one of the route
\* before, or that one is of the node itself.
Forks(routes, v) ==
    {i \in (v.first..v.last) \ Own(routes, v) :
        \/ i = v.first \/ i - 1 \in Own(routes, v)
        \/ PrefixOf(routes, i)[v.dp + 1] # PrefixOf(routes, i - 1)[v.dp + 1]}

\* The next element behind i of a set of numbers up to last, or the number behind last.
NextIn(S, i, last) ==
    CHOOSE j \in i + 1..last + 1 : (j \in S \/ j = last + 1) /\ \A k \in i + 1..j - 1 : k \notin S

\* The child that begins at i goes as far down as its routes agree.
Child(routes, v, i) ==
    LET last == NextIn(Own(routes, v) \cup Forks(routes, v), i, v.last) - 1
        depths == {n \in 0..Len(PrefixOf(routes, i)) : Agree(routes, TrieNode(i, last, n))}
    IN  TrieNode(i, last, CHOOSE n \in depths : \A m \in depths : m <= n)

-----------------------------------------------------------------------------
(* The bytecode.  Indices count from 0, as in the code; routes from 1.         *)

Ins(mode, bs, i) == [mode |-> mode, bs |-> bs, i |-> i]

\* Is the index of the instruction an address?
Jumps(ins) == ins.mode \cap {"route", "setCursor"} = {}

\* Code moved by n, which goes on at exit where it fails.
Moved(ins, n, exit) ==
    IF Jumps(ins) THEN [ins EXCEPT !.i = IF @ = -1 THEN exit ELSE @ + n] ELSE ins
Move(code, n, exit) == [j \in 1..Len(code) |-> Moved(code[j], n, exit)]

\* The bytes of p behind the first from and up to to, in threes.
Chunks(p, from, to) ==
    [k \in 1..(to - from + 2) \div 3 |->
        SubSeq(p, from + 3 * k - 2, IF from + 3 * k < to THEN from + 3 * k ELSE to)]

ChildChunks(routes, v, i) == Chunks(PrefixOf(routes, i), v.dp, Child(routes, v, i).dp)

\* The first n of some pieces of code one after another.
Pieced(pieces) ==
    LET upto[n \in 0..Len(pieces)] == IF n = 0 THEN <<>> ELSE upto[n - 1] \o pieces[n]
    IN  upto

\* What a route of a node gives to the body of its segment: where a child begins, all but
\* its first bytes, and sub, its code.
Body(routes, v, sub, i) ==
    LET chunks == ChildChunks(routes, v, i)
        rest == [k \in 1..Len(chunks) - 1 |-> Ins({}, chunks[k + 1], -1)]
    IN  IF i \in Forks(routes, v) THEN rest \o Move(sub[i], Len(rest), -1) ELSE <<>>

\* What it gives to the head of its segment: the cursor is set, the route is tried, and a
\* child is looked for by its first bytes; to is its place in the bodies.
SegmentHead(routes, v, to, i) ==
    (IF i \in Segments(routes, v) THEN <<Ins({"setCursor"}, <<>>, v.dp)>> ELSE <<>>)
    \o (IF i \in Own(routes, v) THEN <<Ins({"route"}, <<>>, i)>> ELSE <<>>)
    \o (IF i \in Forks(routes, v) THEN <<Ins({"jumpOnMatch"}, ChildChunks(routes, v, i)[1], to)>> ELSE <<>>)

(* encode: the heads of the segments, a jump to failure, and the bodies.  What    *)
(* fails in a body goes on at the head of the next segment.                     *)
encode(routes, v, sub) ==
    LET size == v.last - v.first + 1
        body(k) == Body(routes, v, sub, v.first + k - 1)
        bodies == Pieced([k \in 1..size |-> body(k)])
        place(k) == Len(bodies[k - 1])
        heads == Pieced([k \in 1..size |-> SegmentHead(routes, v, place(k), v.first + k - 1)])
        base == Len(heads[size]) + 1
        next(k) == NextIn(Own(routes, v), v.first + k - 1, v.last) - v.first
        moved == Pieced([k \in 1..size |-> Move(body(k), base + place(k), Len(heads[next(k)]))])
    IN  Move(heads[size], base, -1) \o <<Ins({"jumpOnMatch"}, <<>>, -1)>> \o moved[size]

\* What jumps nowhere fails.
Marked(code) ==
    [j \in 1..Len(code) |-> IF code[j].i = -1 THEN [code[j] EXCEPT !.mode = @ \cup {"fail"}] ELSE code[j]]

compile(routes) ==
    LET code[v \in Nodes(routes)] ==
            encode(routes, v, [i \in Forks(routes, v) |-> code[Child(routes, v, i)]])
    IN  IF routes = <<>> THEN <<>> ELSE Marked(code[TrieNode(1, Len(routes), 0)])

-----------------------------------------------------------------------------
(* routeMachine.route: the machine at instruction i, with the cursor behind p    *)
(* bytes of the path; the answer has the methods of the patterns that matched    *)
(* so far.                                                                    *)

Going(i, p, answer) == [i |-> i, p |-> p, answer |-> answer, done |-> FALSE]
Ended(answer) == [i |-> 0, p |-> 0, answer |-> answer, done |-> TRUE]

MatchesAt(bs, path, p) == p + Len(bs) <= Len(path) /\ \A x \in 1..Len(bs) : path[p + x] = bs[x]

\* One turn of the loop.
Turn(sm, routes, path, method, s) ==
    LET ins == sm[s.i + 1]
        match == MatchesAt(ins.bs, path, s.p)
        p == IF match THEN s.p + Len(ins.bs) ELSE s.p
        r == routes[ins.i]
    IN  IF s.done THEN s
        ELSE IF "setCursor" \in ins.mode THEN Going(s.i + 1, ins.i, s.answer)
        ELSE IF match /\ "route" \in ins.mode THEN
            IF ~Matches(r.pattern, path) THEN Going(s.i + 1, p, s.answer)
            ELSE IF method \in r.methods THEN Ended(Found(ins.i))
            ELSE Going(s.i + 1, p, NotFound(s.answer.methods \cup r.methods))
        ELSE IF match <=> "jumpOnMatch" \in ins.mode THEN
            IF "fail" \in ins.mode THEN Ended(s.answer) ELSE Going(ins.i, p, s.answer)
        ELSE Going(s.i + 1, p, s.answer)

\* Where the loop is after a turn for every instruction.  The code does not count the turns.
Halt(sm, routes, path, method) ==
    LET run[n \in Nat] ==
            IF n = 0 THEN IF sm = <<>> THEN Ended(NotFound({})) ELSE Going(0, 0, NotFound({}))
            ELSE Turn(sm, routes, path, httpMethod(method), run[n - 1])
    IN  run[Len(sm)]

route(sm, routes, path, method) == Halt(sm, routes, path, method).answer

-----------------------------------------------------------------------------
(* The promise of package web, of a table, its bytecode and the list of the        *)
(* routes in the order in which they were added.                               *)
RoutesAgree(list, table, sm, asked) ==
    \A path \in asked, method \in AllMethods :
        SameMatch(table, route(sm, table, path, method), list, FirstMatch(list, path, method))

-----------------------------------------------------------------------------
(* A router: routes are added, and a request that finds no machine has one made,   *)
(* which another may have done meanwhile.  Both hold the lock.                  *)

CONSTANTS Handlers,
          Asked      \* paths to ask for

ASSUME AskedAssumption == Asked \in SUBSET Seq(Nat)

VARIABLES added,    \* history: the routes in the order in which they were added
          sorted,   \* rt.routes
          machine   \* the routeMachine, if there is one
routerVars == <<added, sorted, machine>>

RouterInit == added = <<>> /\ sorted = <<>> /\ machine = {}

Add(r) ==
    /\ added' = Append(added, r)
    /\ sorted' = handle(sorted, r)
    /\ machine' = {}

Compile ==
    /\ machine' = {[sm |-> compile(sorted), routes |-> sorted]}
    /\ UNCHANGED <<added, sorted>>

Additions ==
    {Route(raw, methods, handler) :
        raw \in Seq(Nat), methods \in SUBSET AllMethods, handler \in Handlers}

RouterNext == Compile \/ \E r \in Additions : Add(r)

RouterSpec == RouterInit /\ [][RouterNext]_routerVars

-----------------------------------------------------------------------------
(* Properties.                                                                *)

\* Whatever was added, in whatever order, the machine that answers the requests, which runs
\* the bytecode of the sorted table, answers every one as the list of the routes in the order
\* of their addition does ("in insertion order the first route that matches", mux.go says).
\* It is never a machine of an earlier table.
RoutesAreFirstMatch == \A m \in machine : RoutesAgree(added, m.routes, m.sm, Asked)
=============================================================================
