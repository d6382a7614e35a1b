------------------------------- MODULE YamlDecode -------------------------------
(* What package yaml makes of events: a tree of nodes, and from it a value; and    *)
(* the events it makes of a value.  A value is a record: a scalar of a kind and a   *)
(* text, [seq |-> ...], or [map |-> a function of scalars].  Integers are those of   *)
(* the checker, not of 64 bits.  Left out are !!binary, setters, the conversion of an *)
(* infinity to an integer, and the encoding of floats, which loses their precision.  *)
EXTENDS YamlEmitter

Scalar(kind, text) == [kind |-> kind, text |-> text]
String(text) == Scalar("string", text)
Null == Scalar("null", "")
List(items) == [seq |-> items]
Mapping(entries) == [map |-> entries]

-----------------------------------------------------------------------------
(* Scalars: resolve.                                                          *)

TagPrefix == "tag:yaml.org,2002:"
StrTag == TagPrefix \o "str"
TagOf == [string |-> StrTag, bool |-> TagPrefix \o "bool", int |-> TagPrefix \o "int",
          float |-> TagPrefix \o "float", null |-> TagPrefix \o "null",
          merge |-> TagPrefix \o "merge"]

Trues == {"y", "Y", "yes", "Yes", "YES", "true", "True", "TRUE", "on", "On", "ON"}
Falses == {"n", "N", "no", "No", "NO", "false", "False", "FALSE", "off", "Off", "OFF"}
Nulls == {"", "~", "null", "Null", "NULL"}
Floats == {".nan", ".NaN", ".NAN", ".inf", ".Inf", ".INF", "+.inf", "+.Inf", "+.INF",
           "-.inf", "-.Inf", "-.INF"}

\* The first characters of what may be something else than a string.
Hints == Digits \cup CharsOf("+-yYnNtTfFoO~.") \cup {End}

From(text, i) == IF i > Len(text) THEN "" ELSE SubSeq(text, i, Len(text))
AllIn(text, chars) == text # "" /\ CharsOf(text) \subseteq chars
Without(text, char) ==
    Joint(\o, LAMBDA i : IF CharAt(text, i) = char THEN "" ELSE CharAt(text, i), "", 1, Len(text))

Unsigned(text) == IF CharAt(text, 1) \in {"+", "-"} THEN From(text, 2) ELSE text
Signed(text, n) == IF CharAt(text, 1) = "-" THEN -n ELSE n

\* The base of an integer, and its digits; strconv.ParseInt of base 0, and of base 2.
IntegerForm(text) ==
    LET body == Unsigned(text)
        prefix == SubSeq(body, 1, 2)
        rest == From(body, 3)
    IN  CASE Len(body) > 1 /\ prefix \in {"0x", "0X"} -> [base |-> 16, digits |-> rest]
          [] Len(body) > 1 /\ prefix = "0b" /\ CharAt(text, 1) # "+" -> [base |-> 2, digits |-> rest]
          [] Len(body) > 1 /\ CharAt(body, 1) = "0" /\ prefix \notin {"0x", "0X", "0b"} ->
                 [base |-> 8, digits |-> From(body, 2)]
          [] OTHER -> [base |-> 10, digits |-> body]

DigitsOf(base) == IF base = 16 THEN Hex ELSE {CharAt("0123456789", i) : i \in 1..base}
IsInteger(text) == AllIn(IntegerForm(text).digits, DigitsOf(IntegerForm(text).base))
IntegerOf(text) == Signed(text, Numeral(IntegerForm(text).digits, IntegerForm(text).base))

\* The first place of one of `chars' in a text, or the place behind its end.
PlaceOf(text, chars) == CHOOSE i \in 1..Len(text) + 1 :
                            /\ CharAt(text, i) \in chars \cup {End}
                            /\ \A k \in 1..i - 1 : CharAt(text, k) \notin chars

Mantissa(text) == SubSeq(Unsigned(text), 1, PlaceOf(Unsigned(text), {"e", "E"}) - 1)
Exponent(text) == From(Unsigned(text), PlaceOf(Unsigned(text), {"e", "E"}) + 1)

\* The decimal numbers of strconv.ParseFloat, and its infinities with a sign.
IsFloat(text) ==
    \/ /\ AllIn(Without(Mantissa(text), "."), Digits)
       /\ Len(Mantissa(text)) <= 1 + Len(Without(Mantissa(text), "."))
       /\ \/ PlaceOf(Unsigned(text), {"e", "E"}) > Len(Unsigned(text))
          \/ AllIn(Unsigned(Exponent(text)), Digits)
    \/ text \in {"+inf", "+Inf", "-inf", "-Inf"}

\* The whole part of a decimal number.
WholeOf(text) ==
    LET digits == Without(Mantissa(text), ".")
        behind == LargestOf({0, Len(Mantissa(text)) - PlaceOf(Mantissa(text), {"."})})
        power == Signed(Exponent(text), Numeral(Unsigned(Exponent(text)), 10)) - behind
        n == Numeral(digits, 10)
    IN  Signed(text, IF power >= 0 THEN n * 10 ^ power ELSE n \div 10 ^ (-power))

\* Looking a text up, and else parsing it as a number; underscores are no part of one.
Plain(text) ==
    LET plain == Without(text, "_")
    IN  CASE text \in Trues -> Scalar("bool", "true")
          [] text \in Falses -> Scalar("bool", "false")
          [] text \in Nulls -> Null
          [] text \in Floats -> Scalar("float", text)
          [] CharAt(text, 1) \in Digits \cup {"+", "-"} /\ text \notin Floats ->
                 IF IsInteger(plain) THEN Scalar("int", ToString(IntegerOf(plain)))
                 ELSE IF IsFloat(plain) THEN Scalar("float", plain) ELSE String(text)
          [] CharAt(text, 1) = "." /\ text \notin Floats ->
                 IF IsFloat(text) THEN Scalar("float", text) ELSE String(text)
          [] OTHER -> String(text)

ResolvableTags == {"", TagOf["string"], TagOf["bool"], TagOf["int"], TagOf["float"], TagOf["null"]}

\* A text under a tag; `failed' if the tag is not the one of what the text is.
resolve(tag, text) ==
    LET under(value) == [tag |-> TagOf[value.kind], value |-> value,
                         failed |-> tag \notin {"", StrTag, TagOf[value.kind]}]
    IN  IF tag \notin ResolvableTags THEN [tag |-> tag, value |-> String(text), failed |-> FALSE]
        ELSE under(IF CharAt(text, 1) \in Hints /\ tag # StrTag THEN Plain(text) ELSE String(text))

-----------------------------------------------------------------------------
(* The tree of nodes.                                                         *)

Node(kind, event) ==
    [kind |-> kind, anchor |-> event.anchor, tag |-> event.tag, value |-> event.value,
     implicit |-> event.implicit, children |-> <<>>]

\* The node whose first event is the i-th, and where the next one begins.
RECURSIVE NodeAt(_, _), NodesUpTo(_, _, _, _)
NodeAt(events, i) ==
    LET event == events[i]
        kind == CASE event.typ = "SCALAR" -> "scalar" [] event.typ = "ALIAS" -> "alias"
                  [] event.typ = "SEQUENCE-START" -> "sequence" [] event.typ = "MAPPING-START" -> "mapping"
        inner == NodesUpTo(events, i + 1, IF kind = "mapping" THEN "MAPPING-END" ELSE "SEQUENCE-END", <<>>)
    IN  IF kind \in {"scalar", "alias"} THEN [node |-> Node(kind, event), next |-> i + 1]
        ELSE [node |-> [Node(kind, event) EXCEPT !.children = inner.nodes], next |-> inner.next]
NodesUpTo(events, i, end, nodes) ==
    IF events[i].typ = end THEN [nodes |-> nodes, next |-> i + 1]
    ELSE NodesUpTo(events, NodeAt(events, i).next, end, Append(nodes, NodeAt(events, i).node))

\* All nodes of a tree, in the order in which they were begun.
RECURSIVE NodesOf(_)
NodesOf(node) == FoldLeft(LAMBDA all, child : all \o NodesOf(child), <<node>>, node.children)

\* What an alias stands for: the last node of the document that has the anchor.
AnchorsOf(root) ==
    LET anchored == SelectSeq(NodesOf(root), LAMBDA n : n.anchor # "" /\ n.kind # "alias")
    IN  [name \in {anchored[i].anchor : i \in DOMAIN anchored} |->
            Last(SelectSeq(anchored, LAMBDA n : n.anchor = name))]

-----------------------------------------------------------------------------
(* Decoding into a value of a type: a struct has fields, each of a type.          *)

AnyType == [type |-> "any"]
StringType == [type |-> "string"]
IntType == [type |-> "int"]
MapType == [type |-> "map"]
StructType(fields) == [type |-> "struct", fields |-> fields]

RECURSIVE Zero(_)
Zero(type) ==
    CASE type.type = "any" -> Null
      [] type.type = "string" -> String("")
      [] type.type = "int" -> Scalar("int", "0")
      [] type.type = "struct" -> [struct |-> [key \in DOMAIN type.fields |-> Zero(type.fields[key])]]

(* A decoder has read `out'; `good' is the answer of unmarshal, and an error, the     *)
(* panic of fail, ends it all.                                                *)
Result(out, good) == [out |-> out, good |-> good, error |-> ""]
Fail(out, error) == [out |-> out, good |-> FALSE, error |-> error]

Resolved(n) ==
    IF n.tag = "" /\ ~n.implicit THEN [tag |-> StrTag, value |-> String(n.value), failed |-> FALSE]
    ELSE resolve(n.tag, n.value)

Fitted(value, text, type, out) ==
    CASE value = Null -> Result(Zero(type), TRUE)
      [] value # Null /\ type = AnyType -> Result(value, TRUE)
      [] value # Null /\ type = StringType -> Result(String(text), TRUE)
      [] value.kind = "int" /\ type = IntType -> Result(value, TRUE)
      [] value.kind = "float" /\ type = IntType /\ IsFloat(value.text)
             /\ AllIn(Mantissa(value.text), Digits \cup {"."}) ->
             Result(Scalar("int", ToString(WholeOf(value.text))), TRUE)
      [] OTHER -> Result(out, FALSE)

DecodeScalar(n, type, out) ==
    LET scalar(resolved) ==
            IF resolved.failed THEN Fail(out, "cannot decode") ELSE Fitted(resolved.value, n.value, type, out)
    IN  scalar(Resolved(n))

IsMerge(n) == /\ n.kind = "scalar" /\ n.value = "<<"
              /\ n.implicit \/ n.tag = TagOf["merge"]

\* Unmarshal into a field, or an entry of a map; an error of the value is one of the whole.
Entry(whole, k, r) ==
    IF r.error # "" THEN Fail(whole.out, r.error)
    ELSE IF ~r.good THEN whole
    ELSE [whole EXCEPT !.out = Mapping((k :> r.out) @@ @.map)]
Field(whole, key, r) ==
    IF r.error # "" THEN Fail(whole.out, r.error) ELSE [whole EXCEPT !.out.struct[key] = r.out]

RECURSIVE Unmarshal(_, _, _, _, _), Merge(_, _, _, _, _)

\* `within' are the anchors whose values are being decoded.
DecodeAlias(n, type, out, anchors, within) ==
    IF n.anchor \notin DOMAIN anchors THEN Fail(out, "Unknown anchor referenced")
    ELSE IF n.anchor \in within THEN Fail(out, "Anchor value contains itself")
    ELSE Unmarshal(anchors[n.anchor], type, out, anchors, within \cup {n.anchor})

DecodeSequence(n, type, out, anchors, within) ==
    LET item(r, child) ==
            LET one == Unmarshal(child, AnyType, Null, anchors, within)
            IN  IF r.error # "" THEN r
                ELSE IF one.error # "" THEN one
                ELSE IF one.good THEN [r EXCEPT !.out = List(Append(@.seq, one.out))] ELSE r
    IN  IF type # AnyType THEN Result(out, FALSE)
        ELSE FoldLeft(item, Result(List(<<>>), TRUE), n.children)

\* The keys and values of a mapping node, in their order.
PairsOf(n) == [i \in 1..Len(n.children) \div 2 |->
                  [key |-> n.children[2 * i - 1], value |-> n.children[2 * i]]]

DecodeMap(n, out, anchors, within) ==
    LET entry(r, pair) ==
            LET k == Unmarshal(pair.key, AnyType, Null, anchors, within)
            IN  IF r.error # "" THEN r
                ELSE IF IsMerge(pair.key) THEN Merge(pair.value, MapType, r.out, anchors, within)
                ELSE IF k.error # "" THEN k
                ELSE IF ~k.good THEN r
                ELSE IF "kind" \notin DOMAIN k.out THEN Fail(out, "invalid map key")
                ELSE Entry(r, k.out, Unmarshal(pair.value, AnyType, Null, anchors, within))
    IN  FoldLeft(entry, Result(out, TRUE), PairsOf(n))

\* The field that a key names takes the value; an unknown key is passed over.
FieldRead(r, name, value, type, anchors, within) ==
    LET key == name.out.text
    IN  IF name.error # "" THEN Fail(r.out, name.error)
        ELSE IF ~name.good \/ key \notin DOMAIN type.fields THEN r
        ELSE Field(r, key, Unmarshal(value, type.fields[key], r.out.struct[key], anchors, within))

NameOf(key, anchors, within) == Unmarshal(key, StringType, String(""), anchors, within)

\* Wrong: a struct takes nothing in by a merge.
DecodeStructUnmerged(n, type, out, anchors, within) ==
    LET entry(r, pair) ==
            IF r.error # "" THEN r
            ELSE FieldRead(r, NameOf(pair.key, anchors, within), pair.value, type, anchors, within)
    IN  FoldLeft(entry, Result(out, TRUE), PairsOf(n))

\* A value that does not fit leaves its field as it was.
DecodeStruct(n, type, out, anchors, within) ==
    LET entry(r, pair) ==
            IF r.error # "" THEN r
            ELSE IF IsMerge(pair.key) THEN Merge(pair.value, type, r.out, anchors, within)
            ELSE FieldRead(r, NameOf(pair.key, anchors, within), pair.value, type, anchors, within)
    IN  FoldLeft(entry, Result(out, TRUE), PairsOf(n))

DecodeMapping(n, type, out, anchors, within) ==
    CASE type.type = "struct" -> DecodeStruct(n, type, out, anchors, within)
      [] type = AnyType -> DecodeMap(n, Mapping(<<>>), anchors, within)
      [] type = MapType -> DecodeMap(n, out, anchors, within)
      [] OTHER -> Result(out, FALSE)

Unmarshal(n, type, out, anchors, within) ==
    CASE n.kind = "scalar" -> DecodeScalar(n, type, out)
      [] n.kind = "alias" -> DecodeAlias(n, type, out, anchors, within)
      [] n.kind = "sequence" -> DecodeSequence(n, type, out, anchors, within)
      [] n.kind = "mapping" -> DecodeMapping(n, type, out, anchors, within)

\* The maps that a merge takes in, the first of a sequence last, so that it wins.
Merge(n, type, out, anchors, within) ==
    LET mapping(m) == \/ m.kind = "mapping"
                      \/ /\ m.kind = "alias"
                         /\ m.anchor \in DOMAIN anchors => anchors[m.anchor].kind = "mapping"
        maps == IF n.kind = "sequence" THEN Reverse(n.children) ELSE <<n>>
        take(r, m) ==
            LET merged == Unmarshal(m, type, r.out, anchors, within)
            IN  IF r.error # "" THEN r
                ELSE IF ~mapping(m) THEN Fail(r.out, "map merge requires map or sequence of maps as the value")
                ELSE [merged EXCEPT !.good = TRUE]
    IN  FoldLeft(take, Result(out, TRUE), maps)

\* The first document of a stream of events, decoded; a stream without one changes nothing.
Decode(events, type, out) ==
    LET root == NodeAt(events, 3).node
    IN  IF events[2].typ = "STREAM-END" THEN Result(out, TRUE)
        ELSE Unmarshal(root, type, out, AnchorsOf(root), {})

-----------------------------------------------------------------------------
(* Encoding.                                                                  *)

\* A number of base 60, which other parsers would read as one.
IsBase60(text) ==
    LET body == Unsigned(text)
        colon == PlaceOf(body, {":"})
        parts == SelectSeq([i \in 1..Len(body) |-> i], LAMBDA i : CharAt(body, i) = ":")
        dot == PlaceOf(body, {"."})
        stop(k) == IF k = Len(parts) THEN dot ELSE parts[k + 1]
        part(k) == SubSeq(body, parts[k] + 1, stop(k) - 1)
    IN  /\ parts # <<>> /\ CharAt(body, 1) \in Digits /\ dot > parts[Len(parts)]
        /\ AllIn(SubSeq(body, 1, colon - 1), Digits \cup {"_"})
        /\ CharsOf(From(body, dot + 1)) \subseteq Digits \cup {"_"}
        /\ \A k \in DOMAIN parts :
               /\ AllIn(part(k), Digits) /\ Len(part(k)) \in 1..2
               /\ Len(part(k)) = 2 => CharAt(part(k), 1) \in CharsOf("012345")

Encoded(text, style) == <<ScalarEvent("", "", text, TRUE, TRUE, style)>>

\* A string is quoted when its text would be read as something else.
StringStyle(text) ==
    IF resolve("", text).tag # StrTag \/ IsBase60(text) THEN "double"
    ELSE IF LF \in CharsOf(text) THEN "literal"
    ELSE "plain"

Collection(typ, events) ==
    <<StartEvent(typ \o "-START", "", "", "block")>> \o events \o <<Event(typ \o "-END")>>

\* The keys of a map in the order keyList gives them, of which only one thing matters: it is one.
KeysOf(map) == SetToSeq(DOMAIN map)

RECURSIVE Marshal(_)
Marshal(value) ==
    LET entry(key) == Marshal(key) \o Marshal(value.map[key])
    IN  CASE "seq" \in DOMAIN value ->
                 Collection("SEQUENCE", FoldLeft(LAMBDA all, v : all \o Marshal(v), <<>>, value.seq))
          [] "map" \in DOMAIN value ->
                 Collection("MAPPING", FoldLeft(LAMBDA all, k : all \o entry(k), <<>>, KeysOf(value.map)))
          [] "kind" \in DOMAIN value ->
                 CASE value.kind = "string" -> Encoded(value.text, StringStyle(value.text))
                   [] value.kind = "null" -> Encoded("null", "plain")
                   [] value.kind \in {"int", "bool"} -> Encoded(value.text, "plain")

\* The stream of a value: one implicit document.
Stream(value) ==
    <<Event("STREAM-START"), [Event("DOCUMENT-START") EXCEPT !.implicit = TRUE]>>
    \o Marshal(value) \o <<[Event("DOCUMENT-END") EXCEPT !.implicit = TRUE], Event("STREAM-END")>>
=============================================================================
