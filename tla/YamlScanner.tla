------------------------------ MODULE YamlScanner ------------------------------
(* The scanner of package yaml: characters to tokens, with the possible simple    *)
(* keys, the stack of indents and the levels of flow that make YAML hard to scan. *)
(* The scanner's part of yaml_parser_t is a record s.  An error stays: whatever    *)
(* follows it in the code's early returns changes nothing that matters.           *)
EXTENDS YamlText, SequencesExt

Token(typ, value) == [typ |-> typ, value |-> value, suffix |-> "", style |-> ""]
Mark(typ) == Token(typ, "")
ScalarToken(value, style) == [Mark("SCALAR") EXCEPT !.value = value, !.style = style]

NoKey == [possible |-> FALSE, required |-> FALSE, number |-> 0, line |-> 0, column |-> 0, pos |-> 0]

NewScanner(text) ==
    [text |-> text, pos |-> 1, line |-> 0, column |-> 0,
     tokens |-> <<>>, parsed |-> 0, available |-> FALSE,
     started |-> FALSE, ended |-> FALSE,
     keys |-> <<>>, allowed |-> FALSE, indent |-> -1, indents |-> <<>>, error |-> ""]

Failed(s) == s.error # ""

\* yaml_parser_set_scanner_error, and a panic of the Go code.
Error(s, problem) == IF Failed(s) THEN s ELSE [s EXCEPT !.error = problem]
Panic(s, problem) == Error(s, "panic: " \o problem)

\* The character k places ahead, and a string of n characters.
Ahead(s, k) == CharAt(s.text, s.pos + k)
Cur(s) == Ahead(s, 0)
Peeks(s, string) == \A k \in 1..Len(string) : Ahead(s, k - 1) = CharAt(string, k)

\* How many characters of a set follow.
Span(s, chars) ==
    CHOOSE n \in 0..Len(s.text) + 1 - s.pos :
        /\ Ahead(s, n) \notin chars
        /\ \A k \in 0..n - 1 : Ahead(s, k) \in chars

Upto(s, stops) ==
    CHOOSE n \in 0..Len(s.text) + 1 - s.pos :
        /\ Ahead(s, n) \in stops \cup {End}
        /\ \A k \in 0..n - 1 : Ahead(s, k) \notin stops

Taken(s, n) == SubSeq(s.text, s.pos, s.pos + n - 1)

Skip(s, n) == [s EXCEPT !.pos = @ + n, !.column = @ + n]

\* What is read of a text: the scanner behind it, and its value.
Scan(s, value) == [s |-> s, value |-> value]
Take(s, n) == Scan(Skip(s, n), Taken(s, n))
TakeSpan(s, chars) == Take(s, Span(s, chars))
Joined(read, more) == Scan(more.s, read.value \o more.value)

SkipBlanks(s) == Skip(s, Span(s, Blanks))
SkipComment(s) == IF Cur(s) = "#" THEN Skip(s, Upto(s, Breakz)) ELSE s

SkipLine(s) ==
    IF Cur(s) \notin Breaks THEN s
    ELSE [s EXCEPT !.pos = @ + (IF Peeks(s, "\r\n") THEN 2 ELSE 1), !.line = @ + 1, !.column = 0]

\* What read_line makes of the break it reads.
LineBreak(s) == IF Cur(s) = LS THEN LS ELSE IF Cur(s) \in Breaks THEN LF ELSE ""

Flow(s) == Len(s.keys) - 1

\* yaml_insert_token: at the end, or with `at' tokens before it.
Insert(s, token) == [s EXCEPT !.tokens = Append(@, token)]
InsertAfter(s, at, token) == [s EXCEPT !.tokens = InsertAt(@, at + 1, token)]

-----------------------------------------------------------------------------
(* Simple keys and indents.                                                   *)

(* A key that was left behind on an earlier line, or 1024 characters ago, is no   *)
(* key any more; if it had to be one, that is an error.                       *)
Stale(s, key) == key.possible /\ (key.line < s.line \/ key.pos + 1024 < s.pos)

StaleSimpleKeys(s) ==
    IF \E i \in DOMAIN s.keys : Stale(s, s.keys[i]) /\ s.keys[i].required
    THEN Error(s, "could not find expected ':'")
    ELSE [s EXCEPT !.keys = [i \in DOMAIN @ |->
             IF Stale(s, @[i]) THEN [@[i] EXCEPT !.possible = FALSE] ELSE @[i]]]

RemoveSimpleKey(s) ==
    IF Last(s.keys).possible /\ Last(s.keys).required
    THEN Error(s, "could not find expected ':'")
    ELSE [s EXCEPT !.keys[Len(s.keys)].possible = FALSE]

Required(s) == Flow(s) = 0 /\ s.indent = s.column

SaveSimpleKey(s) ==
    IF Required(s) /\ ~s.allowed THEN Panic(s, "should not happen")
    ELSE IF ~s.allowed THEN s
    ELSE LET removed == RemoveSimpleKey(s)
         IN  [removed EXCEPT !.keys[Len(s.keys)] =
                 [possible |-> TRUE, required |-> Required(s),
                  number |-> s.parsed + Len(s.tokens),
                  line |-> s.line, column |-> s.column, pos |-> s.pos]]

\* Mutant: a collection where one of that column is open.
RollIndentTwice(s, column, at, typ) ==
    IF Flow(s) > 0 \/ s.indent > column THEN s
    ELSE InsertAfter([s EXCEPT !.indents = Append(@, s.indent), !.indent = column], at, Mark(typ))

\* Open a block collection at the column, its token with `at' tokens before it.
RollIndent(s, column, at, typ) ==
    IF Flow(s) > 0 \/ s.indent >= column THEN s
    ELSE InsertAfter([s EXCEPT !.indents = Append(@, s.indent), !.indent = column], at, Mark(typ))

RECURSIVE UnrollIndent(_, _)
UnrollIndent(s, column) ==
    IF Flow(s) > 0 \/ s.indent <= column THEN s
    ELSE UnrollIndent([Insert(s, Mark("BLOCK-END")) EXCEPT
                           !.indent = Last(s.indents), !.indents = Front(s.indents)], column)

Allow(s, allowed) == [s EXCEPT !.allowed = allowed]

-----------------------------------------------------------------------------
(* Tokens of one or three characters.                                         *)

\* All block collections end, and no key is waited for.
Unroll(s, column) == Allow(RemoveSimpleKey(UnrollIndent(s, column)), FALSE)

FetchStreamStart(s) ==
    Insert([s EXCEPT !.indent = -1, !.keys = <<NoKey>>, !.allowed = TRUE, !.started = TRUE],
           Mark("STREAM-START"))

FetchStreamEnd(s) ==
    LET line == IF s.column = 0 THEN s ELSE [s EXCEPT !.column = 0, !.line = @ + 1]
    IN  Insert(Unroll(line, -1), Mark("STREAM-END"))

FetchDocumentIndicator(s, typ) == Insert(Skip(Unroll(s, -1), 3), Mark(typ))

FetchFlowCollectionStart(s, typ) ==
    LET saved == SaveSimpleKey(s)
    IN  Insert(Skip([saved EXCEPT !.keys = Append(@, NoKey), !.allowed = TRUE], 1), Mark(typ))

\* The end of a flow collection that was never begun is the parser's to refuse.
FetchFlowCollectionEnd(s, typ) ==
    LET removed == RemoveSimpleKey(s)
        left == IF Flow(s) > 0 THEN [removed EXCEPT !.keys = Front(@)] ELSE removed
    IN  Insert(Skip(Allow(left, FALSE), 1), Mark(typ))

FetchFlowEntry(s) == Insert(Skip(Allow(RemoveSimpleKey(s), TRUE), 1), Mark("FLOW-ENTRY"))

\* An indicator that begins a block collection where a key might stand.
Indicator(s, collection, problem) ==
    IF Flow(s) > 0 THEN s
    ELSE IF ~s.allowed THEN Error(s, problem)
    ELSE RollIndent(s, s.column, Len(s.tokens), collection)

FetchBlockEntry(s) ==
    LET begun == Indicator(s, "BLOCK-SEQUENCE-START", "block sequence entries are not allowed")
    IN  Insert(Skip(Allow(RemoveSimpleKey(begun), TRUE), 1), Mark("BLOCK-ENTRY"))

FetchKey(s) ==
    LET begun == Indicator(s, "BLOCK-MAPPING-START", "mapping keys are not allowed")
    IN  Insert(Skip(Allow(RemoveSimpleKey(begun), Flow(s) = 0), 1), Mark("KEY"))

(* The colon after a possible simple key makes it a key: KEY, and the mapping's   *)
(* start if it is the first, go before the tokens of the key.                   *)
FetchValue(s) ==
    LET key == Last(s.keys)
        at == key.number - s.parsed
        keyed == RollIndent(InsertAfter(s, at, Mark("KEY")), key.column, at, "BLOCK-MAPPING-START")
        begun == Indicator(s, "BLOCK-MAPPING-START", "mapping values are not allowed")
        ready == IF key.possible
                 THEN Allow([keyed EXCEPT !.keys[Len(s.keys)].possible = FALSE], FALSE)
                 ELSE Allow(begun, Flow(s) = 0)
    IN  Insert(Skip(ready, 1), Mark("VALUE"))

-----------------------------------------------------------------------------
(* Anchors, tags and directives.                                              *)

ScanAnchor(s, typ) ==
    LET scanned(name) ==
            IF name.value = "" \/ Cur(name.s) \notin Blankz \cup CharsOf("?:,]}%@")
            THEN Error(name.s, "did not find expected alphabetic or numeric character")
            ELSE Insert(name.s, Token(typ, name.value))
    IN  scanned(TakeSpan(Skip(s, 1), Alpha))

FetchAnchor(s, typ) == ScanAnchor(Allow(SaveSimpleKey(s), FALSE), typ)

(* A handle: "!", "!name!", or "!name", which only a tag may have, as a part of its  *)
(* URI.  In a directive the code looks for a zero behind a lone "!", past the end of *)
(* the one byte it has read.                                                  *)
ScanTagHandle(s, directive) ==
    LET scanned(name) ==
            IF Cur(name.s) = "!" THEN Scan(Skip(name.s, 1), "!" \o name.value \o "!")
            ELSE IF ~directive THEN Scan(name.s, "!" \o name.value)
            ELSE Scan(IF name.value = "" THEN Panic(name.s, "index out of range")
                      ELSE Error(name.s, "did not find expected '!'"), "!")
    IN  IF Cur(s) # "!" THEN Scan(Error(s, "did not find expected '!'"), "!")
        ELSE scanned(TakeSpan(Skip(s, 1), Alpha))

\* How many octets a character has, by its first; 0 for none that is one.
Width(octet) == IF octet < 128 THEN 1 ELSE IF octet \in 192..223 THEN 2
                ELSE IF octet \in 224..239 THEN 3 ELSE IF octet \in 240..247 THEN 4 ELSE 0

\* The code that octets of UTF-8 make.
Decoded(octets) ==
    LET head == octets[1] - (CASE Len(octets) = 1 -> 0 [] Len(octets) = 2 -> 192
                               [] Len(octets) = 3 -> 224 [] OTHER -> 240)
        upTo[i \in 1..Len(octets)] == IF i = 1 THEN head ELSE 64 * upTo[i - 1] + octets[i] - 128
    IN  upTo[Len(octets)]

\* One escaped character of a URI; 255 is not an octet of any.
ScanUriEscapes(s) ==
    LET octet(k) == IF Ahead(s, k) = "%" /\ {Ahead(s, k + 1), Ahead(s, k + 2)} \subseteq Hex
                    THEN 16 * AsHex(Ahead(s, k + 1)) + AsHex(Ahead(s, k + 2)) ELSE 255
        scanned(octets, w) ==
            IF w = 0 \/ \E k \in 2..w : octets[k] \notin 128..191
            THEN Scan(Error(Skip(s, 1), "did not find URI escaped octet"), "")
            ELSE Scan(Skip(s, 3 * w), Char(Decoded(SubSeq(octets, 1, w))))
        character(octets) == scanned(octets, Width(octets[1]))
    IN  character([k \in 1..4 |-> octet(3 * (k - 1))])

RECURSIVE UriFrom(_)
UriBehind(read) == IF Cur(read.s) # "%" THEN read ELSE UriFrom(Joined(read, ScanUriEscapes(read.s)))
UriFrom(uri) == UriBehind(Joined(uri, TakeSpan(uri.s, UriChars \ {"%"})))

\* The URI after what was taken for a handle.
SomeUri(uri) == IF uri.value = "" THEN Scan(Error(uri.s, "did not find expected tag URI"), "") ELSE uri
ScanTagUri(s, head) == SomeUri(UriFrom(Scan(s, SubSeq(head, 2, Len(head)))))

\* A token that white space must follow.
Delimited(s, typ, value, suffix) ==
    IF Cur(s) \notin Blankz THEN Error(s, "did not find expected whitespace or line break")
    ELSE Insert(s, [Mark(typ) EXCEPT !.value = value, !.suffix = suffix])

VerbatimTag(uri) ==
    Delimited(IF Cur(uri.s) = ">" THEN Skip(uri.s, 1) ELSE Error(uri.s, "did not find the expected '>'"),
              "TAG", "", uri.value)

\* A suffix belongs to a handle with two marks, and else is one of "!" with the handle's name in it.
TwoMarks(name) == Len(name) > 1 /\ CharAt(name, Len(name)) = "!"
SuffixedTag(handle, uri) == Delimited(uri.s, "TAG", IF TwoMarks(handle) THEN handle ELSE "!", uri.value)
ShorthandTag(handle) ==
    SuffixedTag(handle.value, ScanTagUri(handle.s, IF TwoMarks(handle.value) THEN "" ELSE handle.value))

ScanTag(s) ==
    IF Peeks(s, "!<") THEN VerbatimTag(ScanTagUri(Skip(s, 2), "")) ELSE ShorthandTag(ScanTagHandle(s, FALSE))

FetchTag(s) == ScanTag(Allow(SaveSimpleKey(s), FALSE))

\* A number of one or two digits.
ScanVersionNumber(s) ==
    LET scanned(number) == IF Len(number.value) \in 1..2 THEN number
                           ELSE Scan(Error(number.s, "did not find expected version number"), "")
    IN  scanned(TakeSpan(s, Digits))

ScanVersion(s) ==
    LET full(major, minor) == Insert(minor.s, [Mark("VERSION-DIRECTIVE") EXCEPT !.value = major,
                                                                                !.suffix = minor.value])
        scanned(major) == IF Cur(major.s) # "." THEN Error(major.s, "did not find expected digit or '.'")
                          ELSE full(major.value, ScanVersionNumber(Skip(major.s, 1)))
    IN  scanned(ScanVersionNumber(SkipBlanks(s)))

TagDirective(handle, prefix) == Delimited(prefix.s, "TAG-DIRECTIVE", handle, prefix.value)
DirectiveBehind(handle) ==
    IF Failed(handle.s) THEN handle.s
    ELSE IF Cur(handle.s) \notin Blanks THEN Error(handle.s, "did not find expected whitespace")
    ELSE TagDirective(handle.value, ScanTagUri(SkipBlanks(handle.s), ""))
ScanTagDirective(s) == DirectiveBehind(ScanTagHandle(SkipBlanks(s), TRUE))

\* The rest of a line that may hold a comment only.
EndLine(s) ==
    LET ended(rest) == IF Cur(rest) \in Breakz THEN SkipLine(rest)
                       ELSE Error(rest, "did not find expected comment or line break")
    IN  ended(SkipComment(SkipBlanks(s)))

ScanDirective(name) ==
    IF name.value = "" \/ Cur(name.s) \notin Blankz THEN Error(name.s, "could not find expected directive name")
    ELSE CASE name.value = "YAML" -> ScanVersion(name.s)
           [] name.value = "TAG" -> ScanTagDirective(name.s)
           [] OTHER -> Error(name.s, "found uknown directive name")

FetchDirective(s) ==
    LET ended(scanned) == IF Failed(scanned) THEN scanned ELSE EndLine(scanned)
    IN  ended(ScanDirective(TakeSpan(Skip(Unroll(s, -1), 1), Alpha)))

-----------------------------------------------------------------------------
(* Block scalars.                                                             *)

LargestOf(set) == CHOOSE n \in set : \A m \in set : m <= n

(* Lines of indent only; an indent of 0 is still to be found: that of the most    *)
(* indented of them or of the line after them, but deeper than the collection.  *)
RECURSIVE BlockBreaks(_, _, _, _)
BlockBreaks(s, indent, breaks, deepest) ==
    LET width(spaces) == IF indent = 0 \/ s.column + spaces < indent THEN spaces
                         ELSE LargestOf({0, indent - s.column})
        behind(at, deeper) ==
            IF (indent = 0 \/ at.column < indent) /\ Cur(at) = "\t"
            THEN [s |-> Error(at, "found a tab character"), indent |-> indent, breaks |-> breaks]
            ELSE IF Cur(at) \in Breaks
            THEN BlockBreaks(SkipLine(at), indent, breaks \o LineBreak(at), deeper)
            ELSE [s |-> at, breaks |-> breaks,
                  indent |-> IF indent > 0 THEN indent ELSE LargestOf({deeper, s.indent + 1, 1})]
        indented(at) == behind(at, LargestOf({deepest, at.column}))
    IN  indented(Skip(s, width(Span(s, {" "}))))

(* The lines of the scalar: the break before a line becomes a space, or nothing     *)
(* beside empty lines, when the scalar is folded and neither line is indented.    *)
RECURSIVE BlockLines(_, _, _, _)
BlockLines(s, literal, indent, read) ==
    LET blank == Cur(s) \in Blanks
        folded == ~literal /\ ~read.blank /\ ~blank /\ read.leading = LF
        joint == IF ~folded THEN read.leading ELSE IF read.trailing = "" THEN " " ELSE ""
        onward(line, next) ==
            BlockLines(next.s, literal, indent,
                [s |-> s, value |-> read.value \o joint \o read.trailing \o line.value,
                 leading |-> LineBreak(line.s), trailing |-> next.breaks, blank |-> blank])
        through(line) == onward(line, BlockBreaks(SkipLine(line.s), indent, "", 0))
    IN  IF Failed(s) \/ s.column # indent \/ Cur(s) = End THEN [read EXCEPT !.s = s]
        ELSE through(Take(s, Upto(s, Breakz)))

\* What is read of a block scalar, from a header with one of the signs for chomping, or none.
BlockToken(read, literal, sign) ==
    Insert(read.s, ScalarToken(read.value \o (IF sign = "-" THEN "" ELSE read.leading)
                                          \o (IF sign = "+" THEN read.trailing ELSE ""),
                               IF literal THEN "literal" ELSE "folded"))

BlockBody(first, literal) ==
    BlockLines(first.s, literal, first.indent,
        [s |-> first.s, value |-> "", leading |-> "", trailing |-> first.breaks, blank |-> FALSE])

BlockBehind(header, literal, sign, indent) ==
    IF Failed(header) THEN header
    ELSE BlockToken(BlockBody(BlockBreaks(header, indent, "", 0), literal), literal, sign)

(* The indicators of chomping and of the indent, in either order. *)
ScanBlockScalar(s, literal) ==
    LET signs == {"+", "-"}
        a == Ahead(s, 1)
        b == Ahead(s, 2)
        sign == IF a \in signs THEN a ELSE IF a \in Digits /\ b \in signs THEN b ELSE ""
        digit == IF a \in Digits THEN a ELSE IF a \in signs /\ b \in Digits THEN b ELSE ""
    IN  IF digit = "0" THEN Error(s, "found an intendation indicator equal to 0")
        ELSE BlockBehind(EndLine(Skip(s, 1 + Len(sign) + Len(digit))), literal, sign,
                         IF digit = "" THEN 0 ELSE AsHex(digit) + LargestOf({0, s.indent}))

FetchBlockScalar(s, literal) == ScanBlockScalar(Allow(RemoveSimpleKey(s), TRUE), literal)

-----------------------------------------------------------------------------
(* Quoted and plain scalars.                                                  *)

AtDocumentIndicator(s) ==
    s.column = 0 /\ (Peeks(s, "---") \/ Peeks(s, "...")) /\ Ahead(s, 3) \in Blankz

\* What stands between two words: white space, or a first break and more of them.
NoGap == [space |-> "", broken |-> FALSE, leading |-> "", trailing |-> ""]

RECURSIVE ScanGap(_, _, _)
ScanGap(s, gap, indent) ==
    IF Cur(s) \in Breaks
    THEN ScanGap(SkipLine(s),
             IF gap.broken THEN [gap EXCEPT !.trailing = @ \o LineBreak(s)]
             ELSE [NoGap EXCEPT !.broken = TRUE, !.leading = LineBreak(s)], indent)
    ELSE IF Cur(s) = "\t" /\ gap.broken /\ s.column < indent
    THEN [s |-> Error(s, "found a tab character that violate intendation"), gap |-> gap]
    ELSE IF Cur(s) \in Blanks
    THEN ScanGap(Skip(s, 1), IF gap.broken THEN gap ELSE [gap EXCEPT !.space = @ \o Cur(s)], indent)
    ELSE [s |-> s, gap |-> gap]

\* A single break is folded to a space; more of them lose the first.
Folded(gap) ==
    IF ~gap.broken THEN gap.space
    ELSE IF gap.leading = LF THEN (IF gap.trailing = "" THEN " " ELSE gap.trailing)
    ELSE gap.leading \o gap.trailing

SimpleEscapes ==
    ("t" :> "\t") @@ ("\t" :> "\t") @@ ("n" :> LF) @@ ("r" :> "\r") @@ (" " :> " ") @@ ("\"" :> "\"")
    @@ ("'" :> "'") @@ ("\\" :> "\\") @@ ("L" :> LS) @@ ("P" :> LS)
    @@ [c \in CharsOf("0abvfeN_") |-> "?"]  \* characters that no text here has
CodeLength == ("x" :> 2) @@ ("u" :> 4) @@ ("U" :> 8)

\* An escape of a double-quoted scalar; a surrogate, or what is beyond Unicode, is none.
CodeEscape(s, n, code) ==
    IF code \in 55296..57343 \/ code > 1114111
    THEN Scan(Error(s, "found invalid Unicode character escape code"), "")
    ELSE Scan(Skip(s, 2 + n), Char(code))

Escape(s) ==
    LET coded(n) == IF \E k \in 0..n - 1 : Ahead(s, 2 + k) \notin Hex
                    THEN Scan(Error(s, "did not find expected hexdecimal number"), "")
                    ELSE CodeEscape(s, n, Number(Taken(Skip(s, 2), n)))
    IN  IF Ahead(s, 1) \in DOMAIN SimpleEscapes THEN Scan(Skip(s, 2), SimpleEscapes[Ahead(s, 1)])
        ELSE IF Ahead(s, 1) \notin DOMAIN CodeLength THEN Scan(Error(s, "found unknown escape character"), "")
        ELSE coded(CodeLength[Ahead(s, 1)])

Quote(single) == IF single THEN "'" ELSE "\""

\* The characters up to a blank or the closing quote; an escaped break begins a gap.
Stop(at) == [s |-> at.s, value |-> at.value, gap |-> NoGap]

RECURSIVE Quoted(_, _)
QuotedOn(at, escape) ==
    IF Failed(escape.s) THEN Stop(Scan(escape.s, at.value)) ELSE Quoted(Joined(at, escape), FALSE)
QuotedBehind(at, single) ==
    IF single /\ Peeks(at.s, "''") THEN Quoted(Scan(Skip(at.s, 2), at.value \o "'"), single)
    ELSE IF single \/ Cur(at.s) # "\\" THEN Stop(at)
    ELSE IF Ahead(at.s, 1) \in Breaks
    THEN [Stop(at) EXCEPT !.s = SkipLine(Skip(at.s, 1)), !.gap.broken = TRUE]
    ELSE QuotedOn(at, Escape(at.s))
Quoted(read, single) ==
    LET stops == Blankz \cup {Quote(single)} \cup (IF single THEN {} ELSE {"\\"})
    IN  QuotedBehind(Joined(read, Take(read.s, Upto(read.s, stops))), single)

RECURSIVE FlowScalar(_, _, _)
FlowOn(value, gap, single) == FlowScalar(gap.s, single, value \o Folded(gap.gap))
FlowBehind(words, single) ==
    IF Failed(words.s) THEN words.s
    ELSE IF Cur(words.s) = Quote(single)
    THEN Insert(Skip(words.s, 1), ScalarToken(words.value, IF single THEN "single" ELSE "double"))
    ELSE FlowOn(words.value, ScanGap(words.s, words.gap, 0), single)
FlowScalar(s, single, value) ==
    IF AtDocumentIndicator(s) THEN Error(s, "found unexpected document indicator")
    ELSE IF Cur(s) = End THEN Error(s, "found unexpected end of stream")
    ELSE FlowBehind(Quoted(Scan(s, value), single), single)

FetchFlowScalar(s, single) == FlowScalar(Skip(Allow(SaveSimpleKey(s), FALSE), 1), single, "")

\* Where a word of a plain scalar ends.
EndsPlain(s, k) ==
    \/ Ahead(s, k) \in Blankz
    \/ Ahead(s, k) = ":" /\ Ahead(s, k + 1) \in Blankz
    \/ Flow(s) > 0 /\ Ahead(s, k) \in CharsOf(",:?[]{}")

PlainSpan(s) == CHOOSE n \in 0..Len(s.text) + 1 - s.pos :
                    EndsPlain(s, n) /\ \A k \in 0..n - 1 : ~EndsPlain(s, k)

\* The token of a plain scalar; behind one that ends with a break a key may follow.
EndPlain(s, value, gap) == Insert(IF gap.broken THEN Allow(s, TRUE) ELSE s, ScalarToken(value, "plain"))

(* A plain scalar goes on over gaps, in block context as long as lines are deeper  *)
(* than the collection.                                                       *)
RECURSIVE PlainScalar(_, _, _)
PlainScalar(s, value, gap) ==
    LET onward(more, next) ==
            IF Failed(next.s) THEN next.s
            ELSE IF Flow(s) = 0 /\ next.s.column <= s.indent THEN EndPlain(next.s, more, next.gap)
            ELSE PlainScalar(next.s, more, next.gap)
        behind(word, more) ==
            IF Flow(s) > 0 /\ Cur(word.s) = ":" /\ Ahead(word.s, 1) \notin Blankz
            THEN Error(word.s, "found unexpected ':'")
            ELSE IF Cur(word.s) \notin Blanks \cup Breaks
            THEN EndPlain(word.s, more, IF word.value = "" THEN gap ELSE NoGap)
            ELSE onward(more, ScanGap(word.s, NoGap, s.indent + 1))
        read(word) == behind(word, IF word.value = "" THEN value ELSE value \o Folded(gap) \o word.value)
    IN  IF AtDocumentIndicator(s) \/ Cur(s) = "#" THEN EndPlain(s, value, gap)
        ELSE read(Take(s, PlainSpan(s)))

FetchPlainScalar(s) == PlainScalar(Allow(SaveSimpleKey(s), FALSE), "", NoGap)

-----------------------------------------------------------------------------
(* The dispatcher.                                                            *)

(* A mark may begin a line.  is_bom looks for it at the beginning of the buffer, though, *)
(* not at the place asked for: the first character of every line is skipped where the text *)
(* begins with one.  The buffer begins with the text until more is asked for than it still  *)
(* holds, which the scanner, looking three places ahead, does near the end of a text that    *)
(* one filling of the raw buffer holds; all texts with a mark are so short.           *)
MarkSeen(s) ==
    /\ s.column = 0 /\ CharAt(s.text, 1) = ByteOrderMark
    /\ s.pos = 1 \/ s.pos + 2 <= Len(s.text)

RECURSIVE ScanToNextToken(_)
ScanBehind(at) ==
    IF Cur(at) \notin Breaks THEN at
    ELSE ScanToNextToken(IF Flow(at) = 0 THEN Allow(SkipLine(at), TRUE) ELSE SkipLine(at))
ScanFrom(at) ==
    ScanBehind(SkipComment(Skip(at, Span(at, IF Flow(at) > 0 \/ ~at.allowed THEN Blanks ELSE {" "}))))
ScanToNextToken(s) == ScanFrom(IF MarkSeen(s) THEN Skip(s, 1) ELSE s)

Indicators == CharsOf("-?:,[]{}#&*!|>'\"%@")

StartsPlain(s) ==
    \/ Cur(s) \notin Indicators \cup Blankz
    \/ Cur(s) = "-" /\ Ahead(s, 1) \notin Blanks
    \/ Flow(s) = 0 /\ Cur(s) \in {"?", ":"} /\ Ahead(s, 1) \notin Blankz

Dispatch(s) ==
    LET c == Cur(s)
        blank == Ahead(s, 1) \in Blankz
    IN  CASE c = End -> FetchStreamEnd(s)
          [] s.column = 0 /\ c = "%" -> FetchDirective(s)
          [] AtDocumentIndicator(s) ->
                 FetchDocumentIndicator(s, IF c = "-" THEN "DOCUMENT-START" ELSE "DOCUMENT-END")
          [] c \in {"[", "{"} ->
                 FetchFlowCollectionStart(s, IF c = "[" THEN "FLOW-SEQUENCE-START" ELSE "FLOW-MAPPING-START")
          [] c \in {"]", "}"} ->
                 FetchFlowCollectionEnd(s, IF c = "]" THEN "FLOW-SEQUENCE-END" ELSE "FLOW-MAPPING-END")
          [] c = "," -> FetchFlowEntry(s)
          [] c = "-" /\ blank -> FetchBlockEntry(s)
          [] c = "?" /\ (Flow(s) > 0 \/ blank) -> FetchKey(s)
          [] c = ":" /\ (Flow(s) > 0 \/ blank) -> FetchValue(s)
          [] c \in {"*", "&"} -> FetchAnchor(s, IF c = "*" THEN "ALIAS" ELSE "ANCHOR")
          [] c = "!" -> FetchTag(s)
          [] c \in {"|", ">"} /\ Flow(s) = 0 -> FetchBlockScalar(s, c = "|")
          [] c \in {"'", "\""} -> FetchFlowScalar(s, c = "'")
          [] OTHER -> IF StartsPlain(s) THEN FetchPlainScalar(s)
                      ELSE Error(s, "found character that cannot start any token")

FetchAt(at) == IF Failed(at) THEN at ELSE Dispatch(UnrollIndent(at, at.column))

FetchNextToken(s) ==
    IF s.started THEN FetchAt(StaleSimpleKeys(ScanToNextToken(s))) ELSE FetchStreamStart(s)

(* The token at the head is ready when no possible simple key may still put others  *)
(* before it.                                                                 *)
RECURSIVE FetchMoreTokens(_)
FetchNeeded(at) ==
    IF Failed(at) THEN at
    ELSE IF at.tokens = <<>> \/ \E i \in DOMAIN at.keys : at.keys[i].possible /\ at.keys[i].number = at.parsed
    THEN FetchMoreTokens(FetchNextToken(at))
    ELSE [at EXCEPT !.available = TRUE]
FetchMoreTokens(s) == FetchNeeded(IF s.tokens = <<>> THEN s ELSE StaleSimpleKeys(s))

-----------------------------------------------------------------------------
(* What the parser sees of it.                                                *)

\* peek_token, and skip_token.
Peek(s) == IF s.available \/ Failed(s) THEN s ELSE FetchMoreTokens(s)
SkipToken(s) == [s EXCEPT !.available = FALSE, !.parsed = @ + 1, !.tokens = Tail(@),
                          !.ended = Head(s.tokens).typ = "STREAM-END"]
=============================================================================
