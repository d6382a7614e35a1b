------------------------------- MODULE YamlParser -------------------------------
(* The parser of package yaml: tokens to events, by a stack of states.  The       *)
(* parser's part of yaml_parser_t is a record p, with the scanner in p.s; marks,   *)
(* which only word errors, are left out.                                       *)
EXTENDS YamlScanner

Event(typ) == [typ |-> typ, anchor |-> "", tag |-> "", value |-> "",
               implicit |-> FALSE, quoted |-> FALSE, style |-> ""]
AliasEvent(anchor) == [Event("ALIAS") EXCEPT !.anchor = anchor]
ScalarEvent(anchor, tag, value, implicit, quoted, style) ==
    [typ |-> "SCALAR", anchor |-> anchor, tag |-> tag, value |-> value,
     implicit |-> implicit, quoted |-> quoted, style |-> style]
StartEvent(typ, anchor, tag, style) ==
    [Event(typ) EXCEPT !.anchor = anchor, !.tag = tag, !.implicit = (tag = ""), !.style = style]

NewParser(text) ==
    [s |-> NewScanner(text), state |-> "stream start", states |-> <<>>,
     directives |-> <<>>, event |-> Event("NONE")]

\* The token at hand, which is there when a state function is called; "none" behind an error.
Look(p) == [p EXCEPT !.s = Peek(@)]
Eat(p) == IF Failed(p.s) THEN p ELSE [p EXCEPT !.s = SkipToken(@)]
Next1(p) == Look(Eat(p))
Tok(p) == Head(p.s.tokens)
Typ(p) == IF Failed(p.s) THEN "none" ELSE Tok(p).typ

Refuse(p, problem) == [p EXCEPT !.s = Error(@, problem)]
Push(p, state) == [p EXCEPT !.states = Append(@, state)]

\* The event of a call, with the state to go to, or the one on the stack.
Produce(p, state, event) == IF Failed(p.s) THEN p ELSE [p EXCEPT !.state = state, !.event = event]
Return(p, event) ==
    IF Failed(p.s) THEN p
    ELSE [p EXCEPT !.state = Last(p.states), !.states = Front(p.states), !.event = event]

(* What a state function comes to: it is done; it ends in a call of parse_node; or it  *)
(* takes the indicator at hand, behind which a node follows, with the state to come   *)
(* back to on the stack, or, before one of `enders', an empty scalar.            *)
Done(p) == [call |-> "none", p |-> p]
AtNode(p, block, indentless) == [call |-> "node", p |-> p, block |-> block, indentless |-> indentless]
Indicated(p, enders, state, block, indentless) ==
    [call |-> "indicator", p |-> p, enders |-> enders, state |-> state,
     block |-> block, indentless |-> indentless]

EmptyScalar == ScalarEvent("", "", "", TRUE, FALSE, "plain")

-----------------------------------------------------------------------------
(* Directives and documents.                                                  *)

DefaultTagDirectives == <<[handle |-> "!", prefix |-> "!"],
                          [handle |-> "!!", prefix |-> "tag:yaml.org,2002:"]>>

Declared(p, handle) == \E i \in DOMAIN p.directives : p.directives[i].handle = handle

AppendDefaults(p) ==
    [p EXCEPT !.directives = @ \o SelectSeq(DefaultTagDirectives, LAMBDA d : ~Declared(p, d.handle))]

\* The directives before a document: one version, which must be 1.1, and the tags.
Version(t) == {t.value, t.suffix} \subseteq {"1", "01"}

RECURSIVE ProcessDirectives(_, _)
ProcessDirectives(p, versioned) ==
    LET version == Typ(p) = "VERSION-DIRECTIVE"
        declared == [p EXCEPT !.directives = Append(@, [handle |-> Tok(p).value, prefix |-> Tok(p).suffix])]
    IN  IF Typ(p) \notin {"VERSION-DIRECTIVE", "TAG-DIRECTIVE"} THEN AppendDefaults(p)
        ELSE IF version /\ versioned THEN Refuse(p, "found duplicate %YAML directive")
        ELSE IF version /\ ~Version(Tok(p)) THEN Refuse(p, "found incompatible YAML document")
        ELSE IF ~version /\ Declared(p, Tok(p).value) THEN Refuse(p, "found duplicate %TAG directive")
        ELSE ProcessDirectives(Next1(IF version THEN p ELSE declared), versioned \/ version)

ParseStreamStart(p) ==
    IF Typ(p) # "STREAM-START" THEN Done(Refuse(p, "did not find expected <stream-start>"))
    ELSE Done(Eat(Produce(p, "implicit document start", Event("STREAM-START"))))

RECURSIVE SkipDocumentEnds(_)
SkipDocumentEnds(p) == IF Typ(p) = "DOCUMENT-END" THEN SkipDocumentEnds(Next1(p)) ELSE p

\* The start at p, behind the directives there.
DocumentStart(p, directed, implicit) ==
    IF implicit /\ Typ(p) \notin {"VERSION-DIRECTIVE", "TAG-DIRECTIVE", "DOCUMENT-START", "STREAM-END"}
    THEN Produce(Push(directed, "document end"), "block node", Event("DOCUMENT-START"))
    ELSE IF Typ(p) = "STREAM-END" THEN Eat(Produce(p, "end", Event("STREAM-END")))
    ELSE IF Typ(directed) # "DOCUMENT-START" THEN Refuse(directed, "did not find expected <document start>")
    ELSE Eat(Produce(Push(directed, "document end"), "document content", Event("DOCUMENT-START")))

ParseDocumentStart(p, implicit) ==
    LET started(at) == DocumentStart(at, ProcessDirectives(at, FALSE), implicit)
    IN  Done(started(IF implicit THEN p ELSE SkipDocumentEnds(p)))

ParseDocumentEnd(p) ==
    LET explicit == Typ(p) = "DOCUMENT-END"
        rest == IF explicit THEN Eat(p) ELSE p
    IN  Done(Produce([rest EXCEPT !.directives = <<>>], "document start",
                     [Event("DOCUMENT-END") EXCEPT !.implicit = ~explicit]))

-----------------------------------------------------------------------------
(* Nodes.                                                                     *)

\* The anchor or the tag at hand, and the parser behind it; in either order, one of each.
Property(props) ==
    LET t == Tok(props.p)
    IN  CASE Typ(props.p) = "ANCHOR" /\ props.anchor = "" -> [props EXCEPT !.p = Next1(@), !.anchor = t.value]
          [] Typ(props.p) = "TAG" /\ ~props.tagged ->
                 [props EXCEPT !.p = Next1(@), !.handle = t.value, !.suffix = t.suffix, !.tagged = TRUE]
          [] OTHER -> props

Properties(p) ==
    Property(Property([p |-> p, anchor |-> "", handle |-> "", suffix |-> "", tagged |-> FALSE]))

\* The tag a handle stands for, "" if nothing declared it.
Tag(props) ==
    LET known == SelectSeq(props.p.directives, LAMBDA d : d.handle = props.handle)
    IN  IF ~props.tagged THEN ""
        ELSE IF props.handle = "" THEN props.suffix
        ELSE IF known = <<>> THEN ""
        ELSE known[1].prefix \o props.suffix

\* What follows the properties: a scalar, the start of a collection, or nothing.
NodeContent(props, block, indentless) ==
    LET q == props.p
        tag == Tag(props)
        typ == Typ(q)
        style == Tok(q).style
        plain == tag = "!" \/ (tag = "" /\ style = "plain")
        Begin(kind, how, state) == Produce(q, state, StartEvent(kind, props.anchor, tag, how))
    IN  CASE indentless /\ typ = "BLOCK-ENTRY" ->
                 Begin("SEQUENCE-START", "block", "indentless sequence entry")
          [] typ = "SCALAR" ->
                 Eat(Return(q, ScalarEvent(props.anchor, tag, Tok(q).value, plain,
                                                ~plain /\ tag = "", style)))
          [] typ = "FLOW-SEQUENCE-START" -> Begin("SEQUENCE-START", "flow", "flow sequence first entry")
          [] typ = "FLOW-MAPPING-START" -> Begin("MAPPING-START", "flow", "flow mapping first key")
          [] block /\ typ = "BLOCK-SEQUENCE-START" ->
                 Begin("SEQUENCE-START", "block", "block sequence first entry")
          [] block /\ typ = "BLOCK-MAPPING-START" ->
                 Begin("MAPPING-START", "block", "block mapping first key")
          [] OTHER -> IF props.anchor # "" \/ tag # ""
                      THEN Return(q, ScalarEvent(props.anchor, tag, "", tag = "", FALSE, "plain"))
                      ELSE Refuse(q, "did not find expected node content")

ParseNode(p, block, indentless) ==
    LET content(props) ==
            IF props.tagged /\ Tag(props) = "" THEN Refuse(props.p, "found undefined tag handle")
            ELSE NodeContent(props, block, indentless)
    IN  IF Typ(p) = "ALIAS" THEN Eat(Return(p, AliasEvent(Tok(p).value)))
        ELSE content(Properties(p))

ParseDocumentContent(p) ==
    IF Typ(p) \in {"VERSION-DIRECTIVE", "TAG-DIRECTIVE", "DOCUMENT-START", "DOCUMENT-END", "STREAM-END"}
    THEN Done(Return(p, EmptyScalar))
    ELSE AtNode(p, TRUE, FALSE)

-----------------------------------------------------------------------------
(* Collections.                                                               *)

EndCollection(p, typ) == Done(Eat(Return(p, Event(typ))))

ParseBlockSequenceEntry(p) ==
    CASE Typ(p) = "BLOCK-ENTRY" ->
             Indicated(p, {"BLOCK-ENTRY", "BLOCK-END"}, "block sequence entry", TRUE, FALSE)
      [] Typ(p) = "BLOCK-END" -> EndCollection(p, "SEQUENCE-END")
      [] OTHER -> Done(Refuse(p, "did not find expected '-' indicator"))

\* Mutant: the indicator is looked at, but not taken.
ParseIndentlessSequenceEntryStays(p) ==
    IF Typ(p) = "BLOCK-ENTRY" THEN Done(Produce(p, "indentless sequence entry", EmptyScalar))
    ELSE Done(Return(p, Event("SEQUENCE-END")))

ParseIndentlessSequenceEntry(p) ==
    IF Typ(p) = "BLOCK-ENTRY"
    THEN Indicated(p, {"BLOCK-ENTRY", "KEY", "VALUE", "BLOCK-END"}, "indentless sequence entry", TRUE, FALSE)
    ELSE Done(Return(p, Event("SEQUENCE-END")))

InBlockMapping == {"KEY", "VALUE", "BLOCK-END"}

ParseBlockMappingKey(p) ==
    CASE Typ(p) = "KEY" -> Indicated(p, InBlockMapping, "block mapping value", TRUE, TRUE)
      [] Typ(p) = "BLOCK-END" -> EndCollection(p, "MAPPING-END")
      [] OTHER -> Done(Refuse(p, "did not find expected key"))

\* Mutant: a key without a value gets none.
ParseBlockMappingValueOmitted(p) ==
    IF Typ(p) = "VALUE" THEN Indicated(p, InBlockMapping, "block mapping key", TRUE, TRUE)
    ELSE ParseBlockMappingKey(p)

ParseBlockMappingValue(p) ==
    IF Typ(p) = "VALUE" THEN Indicated(p, InBlockMapping, "block mapping key", TRUE, TRUE)
    ELSE Done(Produce(p, "block mapping key", EmptyScalar))

\* A flow collection goes on behind a comma, which its first entry has not.
Separated(p, first, end, problem) ==
    IF first \/ Typ(p) = end THEN p
    ELSE IF Typ(p) = "FLOW-ENTRY" THEN Next1(p)
    ELSE Refuse(p, problem)

\* A pair in a sequence is a mapping of its own.
FlowSequenceEntry(p) ==
    CASE Typ(p) = "KEY" ->
             Done(Eat(Produce(p, "flow sequence entry mapping key", StartEvent("MAPPING-START", "", "", "flow"))))
      [] Typ(p) = "FLOW-SEQUENCE-END" -> EndCollection(p, "SEQUENCE-END")
      [] OTHER -> AtNode(Push(p, "flow sequence entry"), FALSE, FALSE)

ParseFlowSequenceEntry(p, first) ==
    FlowSequenceEntry(Separated(p, first, "FLOW-SEQUENCE-END", "did not find expected ',' or ']'"))

\* Before a missing key the code eats the token that shows that it is missing.
ParseFlowSequenceEntryMappingKey(p) ==
    LET state == "flow sequence entry mapping value"
    IN  IF Typ(p) \in {"VALUE", "FLOW-ENTRY", "FLOW-SEQUENCE-END"}
        THEN Done(Eat(Produce(p, state, EmptyScalar)))
        ELSE AtNode(Push(p, state), FALSE, FALSE)

ParseFlowSequenceEntryMappingValue(p) ==
    LET state == "flow sequence entry mapping end"
    IN  IF Typ(p) = "VALUE" THEN Indicated(p, {"FLOW-ENTRY", "FLOW-SEQUENCE-END"}, state, FALSE, FALSE)
        ELSE Done(Produce(p, state, EmptyScalar))

ParseFlowSequenceEntryMappingEnd(p) == Done(Produce(p, "flow sequence entry", Event("MAPPING-END")))

FlowMappingKey(p) ==
    CASE Typ(p) = "KEY" ->
             Indicated(p, {"VALUE", "FLOW-ENTRY", "FLOW-MAPPING-END"}, "flow mapping value", FALSE, FALSE)
      [] Typ(p) = "FLOW-MAPPING-END" -> EndCollection(p, "MAPPING-END")
      [] OTHER -> AtNode(Push(p, "flow mapping empty value"), FALSE, FALSE)

ParseFlowMappingKey(p, first) ==
    FlowMappingKey(Separated(p, first, "FLOW-MAPPING-END", "did not find expected ',' or '}'"))

ParseFlowMappingValue(p, empty) ==
    IF ~empty /\ Typ(p) = "VALUE"
    THEN Indicated(p, {"FLOW-ENTRY", "FLOW-MAPPING-END"}, "flow mapping key", FALSE, FALSE)
    ELSE Done(Produce(p, "flow mapping key", EmptyScalar))

-----------------------------------------------------------------------------
(* yaml_parser_state_machine, and the calls of it that return an event.        *)

FirstEntries == {"block sequence first entry", "block mapping first key",
                 "flow sequence first entry", "flow mapping first key"}

\* Every state function looks at a token; the one that began a collection is eaten with its first entry.
Arrived(p) == Look(IF p.state \in FirstEntries THEN Eat(Look(p)) ELSE p)

Called(state, p) ==
    CASE state = "stream start" -> ParseStreamStart(p)
      [] state \in {"implicit document start", "document start"} ->
             ParseDocumentStart(p, state = "implicit document start")
      [] state = "document content" -> ParseDocumentContent(p)
      [] state = "document end" -> ParseDocumentEnd(p)
      [] state = "block node" -> AtNode(p, TRUE, FALSE)
      [] state \in {"block sequence first entry", "block sequence entry"} -> ParseBlockSequenceEntry(p)
      [] state = "indentless sequence entry" -> ParseIndentlessSequenceEntry(p)
      [] state \in {"block mapping first key", "block mapping key"} -> ParseBlockMappingKey(p)
      [] state = "block mapping value" -> ParseBlockMappingValue(p)
      [] state \in {"flow sequence first entry", "flow sequence entry"} ->
             ParseFlowSequenceEntry(p, state \in FirstEntries)
      [] state = "flow sequence entry mapping key" -> ParseFlowSequenceEntryMappingKey(p)
      [] state = "flow sequence entry mapping value" -> ParseFlowSequenceEntryMappingValue(p)
      [] state = "flow sequence entry mapping end" -> ParseFlowSequenceEntryMappingEnd(p)
      [] state \in {"flow mapping first key", "flow mapping key"} ->
             ParseFlowMappingKey(p, state \in FirstEntries)
      [] state \in {"flow mapping value", "flow mapping empty value"} ->
             ParseFlowMappingValue(p, state = "flow mapping empty value")

\* Behind an indicator.
NodeOrEmpty(p, f) ==
    IF Typ(p) \in f.enders THEN Done(Produce(p, f.state, EmptyScalar))
    ELSE AtNode(Push(p, f.state), f.block, f.indentless)

IndicatorTaken(f) == IF f.call = "indicator" THEN NodeOrEmpty(Next1(f.p), f) ELSE f
Returned(f) == IF f.call = "node" THEN ParseNode(f.p, f.block, f.indentless) ELSE f.p

StateMachine(p) == Returned(IndicatorTaken(Called(p.state, Arrived(p))))

\* Nothing is parsed behind the end or an error.
Parsed(p) == p.s.ended \/ Failed(p.s) \/ p.state = "end"
Parse(p) == IF Parsed(p) THEN [p EXCEPT !.event = Event("NONE")] ELSE StateMachine(p)
=============================================================================
