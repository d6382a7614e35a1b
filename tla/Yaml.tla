--------------------------------- MODULE Yaml ---------------------------------
(* Package yaml at work: Marshal writes a value event by event, and Unmarshal reads *)
(* what it wrote, or octets from elsewhere: characters first, then event by event;    *)
(* and decodes the first document.                                             *)
EXTENDS YamlDecode, YamlReader

CONSTANTS Writings,  \* what is marshalled, and how: [value, canonical, indent, width], where
                     \* Marshal itself leaves the last three FALSE, 0 and 0
          Texts,     \* what is read that Marshal has not written
          Streams    \* and octets that need not be a text: [octets, size], where size is that of
                     \* the raw buffer, 512 in the code

VARIABLES value,   \* what was given to Marshal, or Foreign
          todo,    \* the events Marshal has still to emit
          e,       \* the emitter
          p,       \* the parser
          events,  \* the events it has read
          result   \* the outcome of Unmarshal
yamlVars == <<value, todo, e, r, p, events, result>>

-----------------------------------------------------------------------------
(* Texts and octets.                                                          *)

Encode(text) == Joint(\o, LAMBDA i : Utf8(Code(CharAt(text, i))), <<>>, 1, Len(text))

\* The text of octets in UTF-8.
TextOf(octets) ==
    Joint(\o, LAMBDA i : IF octets[i] \div 64 = 2 THEN ""
                          ELSE Char(Utf8Value(SubSeq(octets, i, i + Utf8Width(octets[i]) - 1))),
          "", 1, Len(octets))

-----------------------------------------------------------------------------
(* Marshal and Unmarshal.                                                     *)

Foreign == [foreign |-> TRUE]
NoResult == [out |-> Foreign, good |-> FALSE, error |-> "none yet"]
Unopened == [NewParser("") EXCEPT !.state = "unopened"]
\* newParser: an empty input is an empty line.
Opened(octets, size) == NewReader(IF octets = <<>> THEN <<10>> ELSE octets, size)
Unwritten == [NewReader(<<>>, 0) EXCEPT !.error = "not written yet"]

\* A value to write, or octets to read, is what there is.
Starting(v, what, emitter, reader) ==
    /\ value = v /\ todo = what /\ e = emitter /\ r = reader
    /\ p = Unopened /\ events = <<>> /\ result = NoResult

ToMarshal(w) == Starting(w.value, Stream(w.value), NewEmitter(w.canonical, w.indent, w.width), Unwritten)
ToUnmarshal(octets, size) == Starting(Foreign, <<>>, NewEmitter(FALSE, 0, 0), Opened(octets, size))

YamlInit ==
    \/ \E w \in Writings : ToMarshal(w)
    \/ \E text \in Texts : ToUnmarshal(Encode(text), 512)
    \/ \E stream \in Streams : ToUnmarshal(stream.octets, stream.size)

\* Marshal emits an event; finish forgets that a scalar may have left the document open.
Write ==
    /\ todo # <<>> /\ e.error = ""
    /\ e' = Emit(IF Head(todo).typ = "STREAM-END" THEN [e EXCEPT !.open_ended = FALSE] ELSE e,
                 Head(todo))
    /\ todo' = Tail(todo)
    /\ UNCHANGED <<value, r, p, events, result>>

\* yaml_emitter_flush, which has nothing to recode: Marshal asks for UTF-8.
Flush ==
    /\ r = Unwritten
    /\ todo = <<>> \/ e.error # ""
    /\ r' = Opened(Encode(e.out), 512)
    /\ UNCHANGED <<value, todo, e, p, events, result>>

Fill == r # Unwritten /\ UpdateBuffer /\ UNCHANGED <<value, todo, e, p, events, result>>

\* The scanner sees what is before the first NUL, and gives the error of the reader for its own.
Open ==
    /\ r # Unwritten /\ AtEnd(r) /\ p = Unopened
    /\ p' = [NewParser(TextOf(Seen(r.buffer))) EXCEPT !.s.error = r.error]
    /\ UNCHANGED <<value, todo, e, r, events, result>>

\* The first document and the event behind it, or no document.
DocumentRead ==
    Len(events) >= 2 /\ (Last(events).typ = "STREAM-END" \/ events[Len(events) - 1].typ = "DOCUMENT-END")

Read ==
    /\ p # Unopened /\ ~Failed(p.s) /\ ~DocumentRead
    /\ p' = Parse(p)
    /\ events' = IF Failed(p'.s) THEN events ELSE Append(events, p'.event)
    /\ UNCHANGED <<value, todo, e, r, result>>

Finish ==
    /\ result = NoResult
    /\ Failed(p.s) \/ DocumentRead
    /\ result' = IF Failed(p.s) THEN Fail(Null, p.s.error) ELSE Decode(events, AnyType, Null)
    /\ UNCHANGED <<value, todo, e, r, p, events>>

Marshalling == Write \/ Flush
Unmarshalling == Fill \/ Open \/ Read \/ Finish

-----------------------------------------------------------------------------
(* Properties.                                                                *)

(* Marshal and Unmarshal are inverse: whatever style a text needs, whatever it is a   *)
(* key or an item of, and wherever its lines are folded, the value that was written is *)
(* read again (yaml.go: "The structure of the generated document will reflect the    *)
(* structure of the value itself").                                           *)
RoundTrip == value # Foreign /\ result # NoResult => result = Result(value, TRUE)

(* The events read so far are the beginning of a stream: every end is that of the       *)
(* innermost start, a document has one node, a mapping as many values as keys; and     *)
(* at its end nothing is open (the stack of states of parserc.go, popped by hand).   *)
Within(events_) ==
    LET node(typ) == typ \in {"SCALAR", "ALIAS", "SEQUENCE-START", "MAPPING-START"}
        kind(typ) == CASE typ \in {"STREAM-START", "STREAM-END"} -> "stream"
                       [] typ \in {"DOCUMENT-START", "DOCUMENT-END"} -> "document"
                       [] typ \in {"SEQUENCE-START", "SEQUENCE-END"} -> "sequence"
                       [] OTHER -> "mapping"
        counted(w) == [w EXCEPT !.open[Len(w.open)].nodes = @ + 1]
        step(w, event) ==
            LET top == IF w.open = <<>> THEN [kind |-> "none", nodes |-> 0] ELSE Last(w.open)
                placed == IF node(event.typ) /\ w.open # <<>> THEN counted(w) ELSE w
                fits == CASE event.typ = "STREAM-START" -> w.open = <<>>
                          [] event.typ = "DOCUMENT-START" -> top.kind = "stream"
                          [] node(event.typ) -> /\ top.kind \in {"document", "sequence", "mapping"}
                                                /\ top.kind = "document" => top.nodes = 0
                          [] OTHER -> /\ top.kind = kind(event.typ)
                                      /\ top.kind = "document" => top.nodes = 1
                                      /\ top.kind = "mapping" => top.nodes % 2 = 0
            IN  IF ~w.good \/ ~fits THEN [w EXCEPT !.good = FALSE]
                ELSE IF event.typ \in Ends THEN [placed EXCEPT !.open = Front(@)]
                ELSE IF event.typ \in Starts
                THEN [placed EXCEPT !.open = Append(@, [kind |-> kind(event.typ), nodes |-> 0])]
                ELSE placed
    IN  FoldLeft(step, [open |-> <<>>, good |-> TRUE], events_)

EventsNest ==
    /\ Within(events).good
    /\ p.state = "end" /\ ~Failed(p.s) => Within(events).open = <<>>

(* The scanner and the parser agree on what is open.  A possible simple key has its       *)
(* place in the queue, so that KEY can still be put before it, and the places grow with   *)
(* the levels of flow.  The indents grow, and there is one for every block collection that *)
(* the parser is in or that stands in the queue (scannerc.go puts BLOCK-END and the starts  *)
(* there on its own account, and parserc.go takes them in its own order).             *)
Count(Test(_), seq) == Len(SelectSeq(seq, Test))

KeysAndIndents ==
    LET s == p.s
        blockState(state) == state \in {"block sequence entry", "block mapping key", "block mapping value"}
        begins(t) == t.typ \in {"BLOCK-SEQUENCE-START", "BLOCK-MAPPING-START"}
        ends(t) == t.typ = "BLOCK-END"
        possible == SelectSeq(s.keys, LAMBDA key : key.possible)
    IN  ~Failed(s) /\ s.started =>
            /\ \A i \in DOMAIN possible : possible[i].number \in s.parsed..s.parsed + Len(s.tokens)
            /\ \A i, j \in DOMAIN possible : i < j => possible[i].number < possible[j].number
            /\ \A i, j \in DOMAIN s.indents : i < j => s.indents[i] < s.indents[j]
            /\ s.indents # <<>> => Last(s.indents) < s.indent
            /\ Len(s.indents) = Count(blockState, Append(p.states, p.state))
                                + Count(begins, s.tokens) - Count(ends, s.tokens)

(* Every text is read to its end: a character gives rise to four events at most, the      *)
(* start and end of a mapping, a key and a value, so that neither scanner nor parser     *)
(* goes round without taking anything from the text, and Unmarshal answers.        *)
ReadsOn == Len(events) <= 4 * Len(r.buffer) + 5

(* A text in UTF-16 is read as the text it is: yamlh.go lists the encodings, and readerc.go *)
(* decodes them.                                                               *)
EveryEncodingIsRead ==
    LET units == [i \in 1..Len(r.input) \div 2 |-> Unit(r.input, 2 * i - 1, r.encoding)]
    IN  p = Unopened /\ AtEnd(r) /\ r.error = NoError /\ r.encoding \in {"UTF16LE", "UTF16BE"} =>
            TextOf(Seen(r.buffer)) = Joint(\o, LAMBDA i : Char(units[i]), "", 2, Len(units))
=============================================================================
