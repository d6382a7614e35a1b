------------------------------ MODULE YamlReader ------------------------------
(* The reader of package yaml: octets go from the input through a raw buffer into  *)
(* the buffer the scanner looks at, where every character is in UTF-8 and NUL is the *)
(* end.  A step is one turn of a loop of readerc.go.  The scanner asks for a few      *)
(* characters at a time; here the reader goes on to the end first, in the same turns, *)
(* which decides only what error is told when there are several.                *)
EXTENDS Integers, SequencesExt

VARIABLE r  \* the reader

NoError == ""  \* for the text of an error

\* A reader of `input', of which it has taken pos octets, with raw buffers of a size (512).
NewReader(input, size) ==
    [input |-> input, pos |-> 0, size |-> size, raw |-> <<>>, eof |-> FALSE,
     encoding |-> "any", buffer |-> <<>>, error |-> NoError]

Behind(octets, n) == SubSeq(octets, n + 1, Len(octets))
Untaken(q) == Behind(q.input, q.pos)

Room(q) == q.size - Len(q.raw)
\* What yaml_string_read_handler copies: all there is room for, and nothing at the end.
Copied(q) == SubSeq(Untaken(q), 1, IF Room(q) < Len(Untaken(q)) THEN Room(q) ELSE Len(Untaken(q)))

\* Wrong: the octets of a character that is not complete yet are overwritten.
UpdateRawBufferAfresh(q) ==
    IF Room(q) = 0 \/ q.eof THEN q
    ELSE [q EXCEPT !.eof = (Copied(q) = <<>>), !.raw = Copied(q), !.pos = @ + Len(Copied(q))]

\* The end is known only when the handler is asked again.
UpdateRawBuffer(q) ==
    IF Room(q) = 0 \/ q.eof THEN q
    ELSE [q EXCEPT !.eof = (Copied(q) = <<>>), !.raw = @ \o Copied(q), !.pos = @ + Len(Copied(q))]

BOM == [UTF8 |-> <<239, 187, 191>>, UTF16LE |-> <<255, 254>>, UTF16BE |-> <<254, 255>>]

DetermineEncoding(q) ==
    LET marks == {encoding \in DOMAIN BOM : IsPrefix(BOM[encoding], q.raw)}
        mark == CHOOSE encoding \in marks : TRUE
    IN  IF marks = {} THEN [q EXCEPT !.encoding = "UTF8"]
        ELSE [q EXCEPT !.encoding = mark, !.raw = Behind(@, Len(BOM[mark]))]

-----------------------------------------------------------------------------
(* Decoding the first character of the raw buffer: its value and width, or what is   *)
(* wrong.  A width of 0 with no problem is a character that is not complete.       *)

Character(code, width) == [value |-> code, width |-> width, problem |-> NoError]
Problem(text) == [value |-> 0, width |-> 0, problem |-> text]
Incomplete == Character(0, 0)

Utf8Width(octet) ==
    CASE octet < 128 -> 1
      [] octet \div 32 = 6 -> 2
      [] octet \div 16 = 14 -> 3
      [] octet \div 8 = 30 -> 4
      [] OTHER -> 0

\* The payload of the leading octet, and six bits from each of the others.
Utf8Value(octets) ==
    LET bits(i) == octets[i] % 64
    IN  CASE Len(octets) = 1 -> octets[1] % 128
          [] Len(octets) = 2 -> 64 * (octets[1] % 32) + bits(2)
          [] Len(octets) = 3 -> 4096 * (octets[1] % 16) + 64 * bits(2) + bits(3)
          [] Len(octets) = 4 -> 262144 * (octets[1] % 8) + 4096 * bits(2) + 64 * bits(3) + bits(4)

\* The smallest value that needs so many octets.
Least == <<0, 128, 2048, 65536>>
Surrogates == 55296..57343
LastCode == 1114111

DecodeUtf8(raw) ==
    LET width == Utf8Width(raw[1])
        octets == SubSeq(raw, 1, width)
    IN  IF width = 0 THEN Problem("invalid leading UTF-8 octet")
        ELSE IF width > Len(raw) THEN Incomplete
        ELSE IF \E i \in 2..width : raw[i] \div 64 # 2 THEN Problem("invalid trailing UTF-8 octet")
        ELSE IF Utf8Value(octets) < Least[width] THEN Problem("invalid length of a UTF-8 sequence")
        ELSE IF Utf8Value(octets) \in Surrogates \/ Utf8Value(octets) > LastCode
        THEN Problem("invalid Unicode character")
        ELSE Character(Utf8Value(octets), width)

\* Two octets as a number; the surrogates are those with 54 and 55 in their upper six bits.
Unit(raw, i, encoding) ==
    IF encoding = "UTF16LE" THEN raw[i] + 256 * raw[i + 1] ELSE 256 * raw[i] + raw[i + 1]
Area(unit) == unit \div 1024
Paired(first, second) == 65536 + 1024 * (first % 1024) + (second % 1024)

DecodeUtf16(raw, encoding) ==
    LET first == Unit(raw, 1, encoding)
        second == Unit(raw, 3, encoding)
    IN  IF Len(raw) < 2 THEN Incomplete
        ELSE IF Area(first) = 55 THEN Problem("unexpected low surrogate area")
        ELSE IF Area(first) # 54 THEN Character(first, 2)
        ELSE IF Len(raw) < 4 THEN Incomplete
        ELSE IF Area(second) # 55 THEN Problem("expected low surrogate area")
        ELSE Character(Paired(first, second), 4)

Allowed(code) ==
    \/ code \in {9, 10, 13, 133} \/ code \in 32..126
    \/ code \in 160..55295 \/ code \in 57344..65533 \/ code \in 65536..LastCode

\* An error is told of a character that is not complete, once the end is known.
Checked(c, eof) ==
    IF c.problem # NoError THEN c
    ELSE IF c.width = 0 THEN IF eof THEN Problem("incomplete character") ELSE c
    ELSE IF ~Allowed(c.value) THEN Problem("control characters are not allowed")
    ELSE c

NextCharacter(q) ==
    Checked(IF q.encoding = "UTF8" THEN DecodeUtf8(q.raw) ELSE DecodeUtf16(q.raw, q.encoding), q.eof)

-----------------------------------------------------------------------------
(* The buffer.                                                                *)

Utf8(code) ==
    LET trailing(bits) == 128 + ((code \div bits) % 64)
    IN  IF code < 128 THEN <<code>>
        ELSE IF code < 2048 THEN <<192 + code \div 64, trailing(1)>>
        ELSE IF code < 65536 THEN <<224 + code \div 4096, trailing(64), trailing(1)>>
        ELSE <<240 + code \div 262144, trailing(4096), trailing(64), trailing(1)>>

(* A character is put into the buffer in UTF-8, but takes as much room there as it had *)
(* in the raw buffer: in UTF-16 a NUL stays behind one of a single octet, and the next  *)
(* character covers the last of three.                                         *)
Placed(c) == [i \in 1..c.width |-> IF i \in DOMAIN Utf8(c.value) THEN Utf8(c.value)[i] ELSE 0]

DecodeCharacter(q, c) ==
    IF c.problem # NoError THEN [q EXCEPT !.error = c.problem]
    ELSE [q EXCEPT !.raw = Behind(@, c.width), !.buffer = @ \o Placed(c)]

\* Nothing more will come.
AtEnd(q) == q.error # NoError \/ (q.encoding # "any" /\ q.eof /\ q.raw = <<>>)

\* NUL is put behind the last character, unless there was an error.
Terminated(q) == IF AtEnd(q) /\ q.error = NoError THEN [q EXCEPT !.buffer = Append(@, 0)] ELSE q

-----------------------------------------------------------------------------
(* The turns of yaml_parser_update_buffer.                                    *)

\* Too little is in the raw buffer to tell the encoding, or to decode a character.
Wanting(q) ==
    IF q.encoding = "any" THEN ~q.eof /\ Len(q.raw) < 3
    ELSE q.raw # <<>> => NextCharacter(q) = Incomplete

FillRawBuffer == ~AtEnd(r) /\ Wanting(r) /\ r' = Terminated(UpdateRawBuffer(r))

Determine ==
    /\ ~AtEnd(r) /\ ~Wanting(r) /\ r.encoding = "any"
    /\ r' = Terminated(DetermineEncoding(r))

DecodeNext ==
    /\ ~AtEnd(r) /\ ~Wanting(r) /\ r.encoding # "any"
    /\ r' = Terminated(DecodeCharacter(r, NextCharacter(r)))

UpdateBuffer == FillRawBuffer \/ Determine \/ DecodeNext

\* The reader on its own, with any octets and a raw buffer of any size.
Octet == 0..255
Reading == /\ \E octets \in Seq(Octet), size \in Nat : r = NewReader(octets, size)
           /\ [][UpdateBuffer]_r

-----------------------------------------------------------------------------
(* Properties.                                                                *)

\* The octets before the NUL, which is all that the scanner sees.
Seen(octets) ==
    LET nuls == {i \in DOMAIN octets : octets[i] = 0}
    IN  IF nuls = {} THEN octets ELSE SubSeq(octets, 1, (CHOOSE i \in nuls : \A j \in nuls : i <= j) - 1)

(* No octet is lost or read twice, however the input falls into raw buffers and a         *)
(* character over two of them; and a text is refused exactly when it is not made of the   *)
(* characters that YAML allows, in the sequences of octets that RFC 3629 gives them.     *)
Tails == 128..191
CharacterForms ==
    {<<{9, 10, 13} \cup 32..126>>, <<{194}, {133} \cup 160..191>>, <<195..223, Tails>>,
     <<{224}, 160..191, Tails>>, <<225..236, Tails, Tails>>, <<{237}, 128..159, Tails>>,
     <<{238}, Tails, Tails>>, <<{239}, 128..190, Tails>>, <<{239}, {191}, 128..189>>,
     <<{240}, 144..191, Tails, Tails>>, <<241..243, Tails, Tails, Tails>>,
     <<{244}, 128..143, Tails, Tails>>}

\* A character of a form begins at place i.
Fits(form, octets, i) ==
    /\ i >= 1 /\ i + Len(form) <= Len(octets) + 1
    /\ \A k \in DOMAIN form : octets[i + k - 1] \in form[k]

\* Every octet is of a character; no two characters overlap, as one does not begin with a tail.
WellFormed(octets) ==
    \A i \in DOMAIN octets : \E form \in CharacterForms :
        \E k \in DOMAIN form : Fits(form, octets, i - k + 1)

ReadsWhatIsThere ==
    LET text == Seen(r.buffer) \o r.raw \o Untaken(r)
    IN  r.encoding = "UTF8" =>
            /\ r.input \in {text, BOM.UTF8 \o text}
            /\ AtEnd(r) => (r.error = NoError <=> WellFormed(text))
=============================================================================
