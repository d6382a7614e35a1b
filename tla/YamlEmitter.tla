------------------------------ MODULE YamlEmitter ------------------------------
(* The emitter of package yaml: events to characters.  yaml_emitter_t is a record  *)
(* e, of which e.out holds all that was flushed or waits in the buffer.  Documents  *)
(* have no directives, as those of the encoder have none, and what is not ASCII is  *)
(* always escaped, for no caller sets `unicode'.                                *)
EXTENDS YamlParser

NoScalar == [value |-> "", multiline |-> FALSE, flow |-> FALSE, block |-> TRUE,
             single |-> TRUE, literal |-> FALSE, style |-> "plain"]

NewEmitter(canonical, indent, width) ==
    [canonical |-> canonical, best_indent |-> indent, best_width |-> width,
     events |-> <<>>, state |-> "stream start", states |-> <<>>,
     indent |-> -1, indents |-> <<>>, level |-> 0,
     root |-> FALSE, mapping |-> FALSE, simple |-> FALSE,
     column |-> 0, whitespace |-> TRUE, indention |-> TRUE, open_ended |-> FALSE,
     anchor |-> "", handle |-> "", suffix |-> "", scalar |-> NoScalar,
     out |-> "", error |-> ""]

Reject(e, problem) == Error(e, problem)

-----------------------------------------------------------------------------
(* Characters.                                                                *)

Put(e, string) == [e EXCEPT !.out = @ \o string, !.column = @ + Len(string)]
PutBreak(e) == [e EXCEPT !.out = @ \o LF, !.column = 0]
WriteBreak(e, break) == [Put(e, break) EXCEPT !.column = 0, !.indention = TRUE]

Spaces(n) == Joint(\o, LAMBDA i : " ", "", 1, n)

WriteIndent(e) ==
    LET indent == LargestOf({e.indent, 0})
        at == IF ~e.indention \/ e.column > indent \/ (e.column = indent /\ ~e.whitespace)
              THEN PutBreak(e) ELSE e
    IN  [Put(at, Spaces(indent - at.column)) EXCEPT !.whitespace = TRUE, !.indention = TRUE]

\* A blank before what must not touch the word before it.
Apart(e) == IF e.whitespace THEN e ELSE Put(e, " ")

WriteIndicator(e, indicator, apart, whitespace, indention) ==
    [Put(IF apart THEN Apart(e) ELSE e, indicator) EXCEPT
        !.whitespace = whitespace, !.indention = @ /\ indention, !.open_ended = FALSE]

WriteMark(e, indicator) == WriteIndicator(e, indicator, TRUE, FALSE, FALSE)
WriteClosing(e, indicator) == WriteIndicator(e, indicator, FALSE, FALSE, FALSE)
WriteWord(e, word) == [Put(e, word) EXCEPT !.whitespace = FALSE, !.indention = FALSE]

HexDigit(n) == CharAt("0123456789ABCDEF", n + 1)
HexOctet(n) == HexDigit(n \div 16) \o HexDigit(n % 16)

\* The octets of a character in UTF-8.
Octets(c) ==
    LET code == Code(c)
        rest(k) == 128 + ((code \div (64 ^ k)) % 64)
    IN  IF code < 128 THEN <<code>>
        ELSE IF code < 2048 THEN <<192 + code \div 64, rest(0)>>
        ELSE <<224 + code \div 4096, rest(1), rest(0)>>

\* The number of octets of a string.
Size(string) == Joint(+, LAMBDA i : Len(Octets(CharAt(string, i))), 0, 1, Len(string))

\* The characters of a tag, those that have no place in a URI escaped octet by octet.
TagContent(suffix) ==
    LET written(c) == IF c \in UriChars \ {"!", "%"} THEN c
                      ELSE FoldLeft(LAMBDA word, octet : word \o "%" \o HexOctet(octet), "", Octets(c))
    IN  Joint(\o, LAMBDA i : written(CharAt(suffix, i)), "", 1, Len(suffix))

-----------------------------------------------------------------------------
(* Scalars.  Every pass of the code's loops writes one character of the value.    *)

Written(Step(_, _), e, value, breaks) ==
    LET over(w) == w.i > Len(value)
        turn(w) == [Step(w, w.i) EXCEPT !.i = @ + 1]
    IN  Until(over, turn, [e |-> e, i |-> 1, spaces |-> FALSE, breaks |-> breaks, indented |-> TRUE])

Beyond(e) == e.column > e.best_width

(* In plain and single-quoted scalars a line may be folded at a lone space; a break is  *)
(* doubled, as the first of a row is lost when it is read.                        *)
FlowWriting(e, value, breakable, single) ==
    LET step(w, i) ==
            LET c == CharAt(value, i)
                folds == /\ breakable /\ ~w.spaces /\ Beyond(w.e) /\ CharAt(value, i + 1) # " "
                         /\ single => i \in 2..Len(value) - 1
                doubled == IF ~w.breaks /\ c = LF THEN PutBreak(w.e) ELSE w.e
                lined == IF w.breaks THEN WriteIndent(w.e) ELSE w.e
            IN  IF c = " "
                THEN [w EXCEPT !.e = IF folds THEN WriteIndent(@) ELSE Put(@, c), !.spaces = TRUE]
                ELSE IF c \in Breaks
                THEN [w EXCEPT !.e = WriteBreak(doubled, c), !.breaks = TRUE]
                ELSE [w EXCEPT !.e = [Put(lined, IF single /\ c = "'" THEN "''" ELSE c) EXCEPT
                                          !.indention = FALSE],
                               !.spaces = FALSE, !.breaks = FALSE]
    IN  Written(step, e, value, FALSE).e

WritePlain(e, value) ==
    [WriteWord(FlowWriting(Apart(e), value, ~e.simple, FALSE), "") EXCEPT
        !.open_ended = @ \/ e.root]

WriteSingleQuoted(e, value) ==
    WriteWord(WriteClosing(FlowWriting(WriteMark(e, "'"), value, ~e.simple, TRUE), "'"), "")

Ascii == CharsOf(Printable) \ {LS, "^"}

EscapeOf(c) ==
    LET letters == {k \in CharsOf("tnr\"\\L") : SimpleEscapes[k] = c}
        hex == IF Code(c) < 256 THEN "x" \o HexOctet(Code(c))
               ELSE "u" \o HexOctet(Code(c) \div 256) \o HexOctet(Code(c) % 256)
    IN  "\\" \o (IF letters # {} THEN CHOOSE k \in letters : TRUE ELSE hex)

\* Here too is_bom looks at the beginning: behind a mark every character is escaped.
WriteDoubleQuoted(e, value) ==
    LET step(w, i) ==
            LET c == CharAt(value, i)
                folds == ~e.simple /\ ~w.spaces /\ Beyond(w.e) /\ i \in 2..Len(value) - 1
                line == WriteIndent(w.e)
            IN  IF c \notin Ascii \/ c \in {"\"", "\\"} \/ CharAt(value, 1) = ByteOrderMark
                THEN [w EXCEPT !.e = Put(@, EscapeOf(c)), !.spaces = FALSE]
                ELSE IF c = " " /\ folds
                THEN [w EXCEPT !.e = IF CharAt(value, i + 1) = " " THEN Put(line, "\\") ELSE line,
                               !.spaces = TRUE]
                ELSE [w EXCEPT !.e = Put(@, c), !.spaces = (c = " ")]
    IN  WriteWord(WriteClosing(Written(step, WriteMark(e, "\""), value, FALSE).e, "\""), "")

Chomping(value) ==
    LET n == Len(value)
    IN  IF CharAt(value, n) \notin Breaks THEN "-"
        ELSE IF n = 1 \/ CharAt(value, n - 1) \in Breaks THEN "+"
        ELSE ""

Chomped(e, value) ==
    IF Chomping(value) = "" THEN [e EXCEPT !.open_ended = FALSE]
    ELSE WriteClosing(e, Chomping(value))

\* Mutant: an indented line behind empty ones is taken to tell the indent.
WriteHintsForSpaceOnly(e, value) ==
    Chomped(IF CharAt(value, 1) = " " THEN WriteClosing(e, HexDigit(e.best_indent)) ELSE e, value)

\* How much a block scalar is indented, if its text does not tell, and what to do with its end.
WriteHints(e, value) ==
    LET hinted == IF CharAt(value, 1) \in Breaks \cup {" "}
                  THEN WriteClosing(e, HexDigit(e.best_indent)) ELSE e
    IN  Chomped(hinted, value)

BlockStart(e, value, indicator) ==
    [PutBreak(WriteHints(WriteMark(e, indicator), value)) EXCEPT !.indention = TRUE, !.whitespace = TRUE]

WriteLiteral(e, value) ==
    LET step(w, i) ==
            LET c == CharAt(value, i)
                lined == IF w.breaks THEN WriteIndent(w.e) ELSE w.e
            IN  IF c \in Breaks THEN [w EXCEPT !.e = WriteBreak(@, c), !.breaks = TRUE]
                ELSE [w EXCEPT !.e = [Put(lined, c) EXCEPT !.indention = FALSE], !.breaks = FALSE]
    IN  Written(step, BlockStart(e, value, "|"), value, TRUE).e

(* A break between two lines is doubled, unless a line begins with a blank.  The code  *)
(* looks for the second line from the start of the text on, not from the break on.  *)
WriteFolded(e, value) ==
    LET body == CHOOSE n \in 1..Len(value) + 1 : /\ CharAt(value, n) \notin Breaks
                                                 /\ \A k \in 1..n - 1 : CharAt(value, k) \in Breaks
        step(w, i) ==
            LET c == CharAt(value, i)
                doubled == IF ~w.breaks /\ ~w.indented /\ c = LF /\ CharAt(value, body) \notin Blankz
                           THEN PutBreak(w.e) ELSE w.e
                lined == IF w.breaks THEN WriteIndent(w.e) ELSE w.e
                folds == ~w.breaks /\ c = " " /\ CharAt(value, i + 1) # " " /\ Beyond(w.e)
            IN  IF c \in Breaks
                THEN [w EXCEPT !.e = WriteBreak(doubled, c), !.breaks = TRUE]
                ELSE [w EXCEPT !.e = [(IF folds THEN WriteIndent(lined) ELSE Put(lined, c)) EXCEPT
                                          !.indention = FALSE],
                               !.breaks = FALSE,
                               !.indented = IF w.breaks THEN c \in Blanks ELSE @]
    IN  Written(step, BlockStart(e, value, ">"), value, TRUE).e

-----------------------------------------------------------------------------
(* The analysis of an event, and the style a scalar can have.                     *)

(* The code goes on by the width of the first character.  Where that is one octet it sees *)
(* every octet; where it is more, no style but the double-quoted one is left, and of the   *)
(* breaks it sees those that are a multiple of the width away from the beginning.      *)
AnalyzeScalar(value) ==
    LET n == Len(value)
        at(i) == CharAt(value, i)
        before(i) == i = 1 \/ at(i - 1) \in Blankz
        behind(i) == i = n \/ at(i + 1) \in Blanks
        marks == Len(value) >= 3 /\ SubSeq(value, 1, 3) \in {"---", "..."}
        blockIndicator(i) ==
            \/ i = 1 /\ at(i) \in CharsOf("#,[]{}&*!|>'\"%@")
            \/ i = 1 /\ at(i) \in {"?", "-"} /\ behind(i)
            \/ at(i) = ":" /\ behind(i)
            \/ at(i) = "#" /\ before(i)
        flowIndicator(i) ==
            \/ blockIndicator(i)
            \/ at(i) \in CharsOf("?:")
            \/ i > 1 /\ at(i) \in CharsOf(",[]{}")
        Some(P(_)) == \E i \in 1..n : P(i)
        special == Some(LAMBDA i : at(i) \notin Ascii \cup {LF})
        seen(i) == Size(SubSeq(value, 1, i - 1)) % Len(Octets(at(1))) = 0
        breaks == Some(LAMBDA i : at(i) \in Breaks /\ seen(i))
        edges == {at(1), at(n)} \cap (Breaks \cup {" "}) # {}
        breakSpace == Some(LAMBDA i : i > 1 /\ at(i) = " " /\ at(i - 1) \in Breaks)
        spaceBreak == Some(LAMBDA i : i > 1 /\ at(i) \in Breaks /\ at(i - 1) = " ")
        plain == ~(edges \/ breakSpace \/ spaceBreak \/ special \/ breaks \/ marks)
    IN  IF value = "" THEN NoScalar
        ELSE [NoScalar EXCEPT
                 !.value = value, !.multiline = breaks,
                 !.flow = plain /\ ~Some(flowIndicator), !.block = plain /\ ~Some(blockIndicator),
                 !.single = ~(breakSpace \/ spaceBreak \/ special),
                 !.literal = ~(at(n) = " " \/ spaceBreak \/ special)]

AnalyzeAnchor(e, anchor) ==
    IF anchor # "" /\ CharsOf(anchor) \subseteq Alpha THEN [e EXCEPT !.anchor = anchor]
    ELSE Reject(e, "anchor value must contain alphanumerical characters only")

\* A tag is written with the handle of the first directive that has a prefix of it.
AnalyzeTag(e, tag) ==
    LET prefixes == SelectSeq(DefaultTagDirectives,
                              LAMBDA d : /\ Len(d.prefix) <= Len(tag)
                                         /\ SubSeq(tag, 1, Len(d.prefix)) = d.prefix)
    IN  IF prefixes = <<>> THEN [e EXCEPT !.suffix = tag]
        ELSE [e EXCEPT !.handle = prefixes[1].handle,
                       !.suffix = SubSeq(tag, Len(prefixes[1].prefix) + 1, Len(tag))]

Collections == {"SEQUENCE-START", "MAPPING-START"}

AnalyzeEvent(e, event) ==
    LET fresh == [e EXCEPT !.anchor = "", !.handle = "", !.suffix = "", !.scalar.value = ""]
        anchored == IF event.anchor # "" \/ event.typ = "ALIAS"
                    THEN AnalyzeAnchor(fresh, event.anchor) ELSE fresh
        tagged == IF event.tag # "" /\ (e.canonical \/ ~(event.implicit \/ event.quoted))
                  THEN AnalyzeTag(anchored, event.tag) ELSE anchored
    IN  CASE event.typ = "ALIAS" -> anchored
          [] event.typ = "SCALAR" -> [tagged EXCEPT !.scalar = AnalyzeScalar(event.value)]
          [] event.typ \in Collections -> tagged
          [] OTHER -> fresh

\* The style asked for, or the next that can show the value: plain, single, double.
ScalarStyle(e, event) ==
    LET noTag == e.handle = "" /\ e.suffix = ""
        asked == IF e.canonical \/ (e.simple /\ e.scalar.multiline) THEN "double"
                 ELSE IF event.style = "" THEN "plain" ELSE event.style
        fits == /\ IF e.level > 0 THEN e.scalar.flow ELSE e.scalar.block
                /\ e.scalar.value = "" => e.level = 0 /\ ~e.simple
                /\ noTag => event.implicit
        unplain == IF asked = "plain" /\ ~fits THEN "single" ELSE asked
    IN  CASE unplain = "single" -> IF e.scalar.single THEN "single" ELSE "double"
          [] unplain \in {"literal", "folded"} ->
                 IF e.scalar.literal /\ e.level = 0 /\ ~e.simple THEN unplain ELSE "double"
          [] OTHER -> unplain

SelectScalarStyle(e, event) ==
    LET noTag == e.handle = "" /\ e.suffix = ""
        style == ScalarStyle(e, event)
    IN  IF noTag /\ ~event.implicit /\ ~event.quoted
        THEN Reject(e, "neither tag nor implicit flags are specified")
        ELSE [e EXCEPT !.scalar.style = style,
                       !.handle = IF noTag /\ ~event.quoted /\ style # "plain" THEN "!" ELSE @]

-----------------------------------------------------------------------------
(* Nodes.                                                                     *)

Goto(e, state) == IF e.error # "" THEN e ELSE [e EXCEPT !.state = state]
Later(e, state) == [e EXCEPT !.states = Append(@, state)]
Resume(e) == IF e.error # "" THEN e
             ELSE [e EXCEPT !.state = Last(e.states), !.states = Front(e.states)]

IncreaseIndent(e, flow, indentless) ==
    [e EXCEPT !.indents = Append(@, e.indent),
              !.indent = IF @ < 0 THEN (IF flow THEN e.best_indent ELSE 0)
                         ELSE IF indentless THEN @ ELSE @ + e.best_indent]
DecreaseIndent(e) == [e EXCEPT !.indent = Last(e.indents), !.indents = Front(e.indents)]

\* A possible simple key is short, on one line, and no collection but an empty one.
EmptyAhead(e) == /\ Len(e.events) >= 2
                 /\ e.events[2].typ = IF e.events[1].typ = "SEQUENCE-START" THEN "SEQUENCE-END"
                                      ELSE "MAPPING-END"

CheckSimpleKey(e) ==
    LET typ == e.events[1].typ
    IN  /\ typ \in Collections \cup {"ALIAS", "SCALAR"}
        /\ typ = "SCALAR" => ~e.scalar.multiline
        /\ typ \in Collections => EmptyAhead(e)
        /\ Len(e.anchor) + Len(e.handle) + Size(e.suffix) + Size(e.scalar.value) <= 128

ProcessAnchor(e, indicator) ==
    IF e.anchor = "" THEN e ELSE WriteWord(WriteMark(e, indicator), e.anchor)

ProcessTag(e) ==
    IF e.handle # "" THEN WriteWord(Apart(e), e.handle \o TagContent(e.suffix))
    ELSE IF e.suffix = "" THEN e
    ELSE WriteClosing(WriteWord(WriteMark(e, "!<"), TagContent(e.suffix)), ">")

ProcessScalar(e) ==
    LET value == e.scalar.value
        style == e.scalar.style
    IN  CASE style = "plain" -> WritePlain(e, value)
          [] style = "single" -> WriteSingleQuoted(e, value)
          [] style = "double" -> WriteDoubleQuoted(e, value)
          [] style = "literal" -> WriteLiteral(e, value)
          [] style = "folded" -> WriteFolded(e, value)

EmitStyled(e) ==
    IF e.error # "" THEN e
    ELSE Resume(DecreaseIndent(ProcessScalar(IncreaseIndent(ProcessTag(ProcessAnchor(e, "&")), TRUE, FALSE))))
EmitScalar(e, event) == EmitStyled(SelectScalarStyle(e, event))

EmitCollection(e, event, flow, block) ==
    Goto(ProcessTag(ProcessAnchor(e, "&")),
         IF e.level > 0 \/ e.canonical \/ event.style = "flow" \/ EmptyAhead(e) THEN flow ELSE block)

EmitNode(e, event) ==
    CASE event.typ = "ALIAS" -> Resume(ProcessAnchor(e, "*"))
      [] event.typ = "SCALAR" -> EmitScalar(e, event)
      [] event.typ = "SEQUENCE-START" ->
             EmitCollection(e, event, "flow sequence first item", "block sequence first item")
      [] event.typ = "MAPPING-START" ->
             EmitCollection(e, event, "flow mapping first key", "block mapping first key")
      [] OTHER -> Reject(e, "expected SCALAR, SEQUENCE-START, MAPPING-START, or ALIAS")

(* What a state function comes to: it is done, or it ends in a call of emit_node, with   *)
(* the state to go on with on the stack.                                        *)
Emitted(e) == [node |-> FALSE, e |-> e]
AnItem(e, state, mapping, simple) ==
    [node |-> TRUE, e |-> [Later(e, state) EXCEPT !.root = FALSE, !.mapping = mapping, !.simple = simple]]

-----------------------------------------------------------------------------
(* Collections.                                                               *)

FoldFlow(e) == IF e.canonical \/ Beyond(e) THEN WriteIndent(e) ELSE e
Comma(e) == WriteClosing(e, ",")

FlowBegin(e, bracket) ==
    [IncreaseIndent(WriteIndicator(e, bracket, TRUE, TRUE, FALSE), TRUE, FALSE) EXCEPT !.level = @ + 1]

FlowEnd(e, first, bracket) ==
    LET left == DecreaseIndent([e EXCEPT !.level = @ - 1])
        line == IF e.canonical /\ ~first THEN WriteIndent(Comma(left)) ELSE left
    IN  Emitted(Resume(WriteClosing(line, bracket)))

FlowItem(e, first) == FoldFlow(IF first THEN e ELSE Comma(e))

FlowSequenceItem(e, event, first) ==
    IF event.typ = "SEQUENCE-END" THEN FlowEnd(e, first, "]")
    ELSE AnItem(FlowItem(e, first), "flow sequence item", FALSE, FALSE)
EmitFlowSequenceItem(e, event, first) == FlowSequenceItem(IF first THEN FlowBegin(e, "[") ELSE e, event, first)

FlowKey(e) ==
    IF ~e.canonical /\ CheckSimpleKey(e) THEN AnItem(e, "flow mapping simple value", TRUE, TRUE)
    ELSE AnItem(WriteMark(e, "?"), "flow mapping value", TRUE, FALSE)
FlowMappingEntry(e, event, first) ==
    IF event.typ = "MAPPING-END" THEN FlowEnd(e, first, "}") ELSE FlowKey(FlowItem(e, first))
EmitFlowMappingKey(e, event, first) == FlowMappingEntry(IF first THEN FlowBegin(e, "{") ELSE e, event, first)

EmitFlowMappingValue(e, simple) ==
    AnItem(IF simple THEN WriteClosing(e, ":") ELSE WriteMark(FoldFlow(e), ":"), "flow mapping key", TRUE, FALSE)

BlockMark(e, indicator) == WriteIndicator(WriteIndent(e), indicator, TRUE, FALSE, TRUE)

BlockSequenceItem(e, event) ==
    IF event.typ = "SEQUENCE-END" THEN Emitted(Resume(DecreaseIndent(e)))
    ELSE AnItem(BlockMark(e, "-"), "block sequence item", FALSE, FALSE)
EmitBlockSequenceItem(e, event, first) ==
    BlockSequenceItem(IF first THEN IncreaseIndent(e, FALSE, e.mapping /\ ~e.indention) ELSE e, event)

BlockMappingKey(e, event) ==
    IF event.typ = "MAPPING-END" THEN Emitted(Resume(DecreaseIndent(e)))
    ELSE IF CheckSimpleKey(e) THEN AnItem(WriteIndent(e), "block mapping simple value", TRUE, TRUE)
    ELSE AnItem(BlockMark(e, "?"), "block mapping value", TRUE, FALSE)
EmitBlockMappingKey(e, event, first) ==
    BlockMappingKey(IF first THEN IncreaseIndent(e, FALSE, FALSE) ELSE e, event)

EmitBlockMappingValue(e, simple) ==
    AnItem(IF simple THEN WriteClosing(e, ":") ELSE BlockMark(e, ":"), "block mapping key", TRUE, FALSE)

-----------------------------------------------------------------------------
(* Documents, and the dispatcher.                                             *)

EmitStreamStart(e, event) ==
    IF event.typ # "STREAM-START" THEN Reject(e, "expected STREAM-START")
    ELSE [e EXCEPT
             !.state = "first document start",
             !.best_indent = IF @ \in 2..9 THEN @ ELSE 2,
             !.best_width = IF @ \in 0..2 * (IF e.best_indent \in 2..9 THEN e.best_indent ELSE 2)
                            THEN 80 ELSE IF @ < 0 THEN 2 ^ 31 - 1 ELSE @]

EndOpen(e) == IF e.open_ended THEN WriteIndent(WriteMark(e, "...")) ELSE e

EmitDocumentStart(e, event, first) ==
    LET explicit == WriteMark(WriteIndent(e), "---")
        started == IF event.implicit /\ first /\ ~e.canonical THEN e
                   ELSE IF e.canonical THEN WriteIndent(explicit) ELSE explicit
    IN  CASE event.typ = "DOCUMENT-START" -> Goto(started, "document content")
          [] event.typ = "STREAM-END" -> Goto(EndOpen(e), "end")
          [] OTHER -> Reject(e, "expected DOCUMENT-START or STREAM-END")

EmitDocumentContent(e) == [AnItem(e, "document end", FALSE, FALSE) EXCEPT !.e.root = TRUE]

EmitDocumentEnd(e, event) ==
    LET line == WriteIndent(e)
    IN  IF event.typ # "DOCUMENT-END" THEN Reject(e, "expected DOCUMENT-END")
        ELSE Goto(IF event.implicit THEN line ELSE WriteIndent(WriteMark(line, "...")), "document start")

StateFunction(e, event) ==
    CASE e.state = "stream start" -> Emitted(EmitStreamStart(e, event))
      [] e.state \in {"first document start", "document start"} ->
             Emitted(EmitDocumentStart(e, event, e.state = "first document start"))
      [] e.state = "document content" -> EmitDocumentContent(e)
      [] e.state = "document end" -> Emitted(EmitDocumentEnd(e, event))
      [] e.state \in {"flow sequence first item", "flow sequence item"} ->
             EmitFlowSequenceItem(e, event, e.state = "flow sequence first item")
      [] e.state \in {"flow mapping first key", "flow mapping key"} ->
             EmitFlowMappingKey(e, event, e.state = "flow mapping first key")
      [] e.state \in {"flow mapping simple value", "flow mapping value"} ->
             EmitFlowMappingValue(e, e.state = "flow mapping simple value")
      [] e.state \in {"block sequence first item", "block sequence item"} ->
             EmitBlockSequenceItem(e, event, e.state = "block sequence first item")
      [] e.state \in {"block mapping first key", "block mapping key"} ->
             EmitBlockMappingKey(e, event, e.state = "block mapping first key")
      [] e.state \in {"block mapping simple value", "block mapping value"} ->
             EmitBlockMappingValue(e, e.state = "block mapping simple value")
      [] e.state = "end" -> Emitted(Reject(e, "expected nothing after STREAM-END"))

EmitterStateMachine(e, event) ==
    LET ended(f) == IF f.node THEN EmitNode(f.e, event) ELSE f.e
    IN  ended(StateFunction(e, event))

\* How many events must follow one before it can be emitted, unless its end is there.
Accumulate(typ) == CASE typ = "DOCUMENT-START" -> 1 [] typ = "SEQUENCE-START" -> 2
                     [] typ = "MAPPING-START" -> 3 [] OTHER -> 0

Starts == {"STREAM-START", "DOCUMENT-START", "SEQUENCE-START", "MAPPING-START"}
Ends == {"STREAM-END", "DOCUMENT-END", "SEQUENCE-END", "MAPPING-END"}

\* How many starts of a sequence of events have no end yet.
Depth(events) ==
    FoldLeft(LAMBDA depth, event : IF event.typ \in Starts THEN depth + 1
                                   ELSE IF event.typ \in Ends THEN depth - 1 ELSE depth, 0, events)

NeedMoreEvents(e) ==
    \/ e.events = <<>>
    \/ /\ Accumulate(e.events[1].typ) > 0
       /\ Len(e.events) <= Accumulate(e.events[1].typ)
       /\ \A i \in 1..Len(e.events) : Depth(SubSeq(e.events, 1, i)) # 0

RECURSIVE Drain(_)
Drained(e) == IF e.error # "" THEN e ELSE Drain([e EXCEPT !.events = Tail(@)])
EmitAnalyzed(e) == IF e.error # "" THEN e ELSE Drained(EmitterStateMachine(e, Head(e.events)))
Drain(e) == IF NeedMoreEvents(e) THEN e ELSE EmitAnalyzed(AnalyzeEvent(e, Head(e.events)))

Emit(e, event) == Drain([e EXCEPT !.events = Append(@, event)])
=============================================================================
