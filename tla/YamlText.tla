------------------------------- MODULE YamlText -------------------------------
(* The characters of YAML as package yaml tells them apart.  A text is a string;  *)
(* a character is a string of length one, and End what is read behind the last.   *)
(* "\f", which the reader lets through in no text, stands for the line separator  *)
(* LS (or PS), a break that keeps its identity; "\r" behaves as NEL does; "$" stands *)
(* for the byte order mark; and "^" for a letter of two octets, e acute, and for any  *)
(* other beyond ASCII.  The dollar itself behaves as ";" does, and the backquote as   *)
(* "@", with which no token begins either.                                       *)
EXTENDS Integers, Sequences, TLC

End == ""
LF == "\n"
LS == "\f"
ByteOrderMark == "$"

CharAt(text, i) == IF i \in 1..Len(text) THEN SubSeq(text, i, i) ELSE End

CharsOf(text) == {CharAt(text, i) : i \in 1..Len(text)}

Digits == CharsOf("0123456789")
Hex == Digits \cup CharsOf("abcdefABCDEF")
Alpha == Digits \cup CharsOf("abcdefghijklmnopqrstuvwxyzABCDEFGHIJKLMNOPQRSTUVWXYZ_-")
Blanks == {" ", "\t"}
Breaks == {LF, "\r", LS}
Breakz == Breaks \cup {End}
Blankz == Blanks \cup Breakz

\* The characters a URI of a tag is made of; "%" begins an escape.
UriChars == Alpha \cup CharsOf(";/?:@&=+,.!~*'()[]%")

Table(chars) == [c \in CharsOf(chars) |-> (CHOOSE i \in 1..Len(chars) : CharAt(chars, i) = c) - 1]
Low == Table("0123456789abcdef")
High == Table("0123456789ABCDEF")

\* as_hex, which is as_digit of a digit.
AsHex(c) == IF c \in DOMAIN Low THEN Low[c] ELSE High[c]

\* The printable ASCII characters from 32 on, with LS in the place of "$" and of the backquote; and
\* the other characters that occur.
Printable ==
    " !\"#\f%&'()*+,-./0123456789:;<=>?@ABCDEFGHIJKLMNOPQRSTUVWXYZ[\\]^_\fabcdefghijklmnopqrstuvwxyz{|}~"
Others == ("\t" :> 9) @@ (LF :> 10) @@ ("\r" :> 13) @@ ("^" :> 233) @@ (LS :> 8232)
          @@ (ByteOrderMark :> 65279)

Codes == Others @@ [c \in CharsOf(Printable) |-> 31 + CHOOSE i \in 1..Len(Printable) : CharAt(Printable, i) = c]
Code(c) == Codes[c]

\* The character of a code; every other one is a letter as "^" is.
Char(code) ==
    IF \E c \in DOMAIN Others : Others[c] = code THEN CHOOSE c \in DOMAIN Others : Others[c] = code
    ELSE IF code \in {36, 96} THEN IF code = 36 THEN ";" ELSE "@"
    ELSE IF code \in 32..126 THEN CharAt(Printable, code - 31)
    ELSE "^"

\* The number that digits write in a base, and the one of hexadecimal digits.
Numeral(digits, base) ==
    LET upTo[i \in 0..Len(digits)] ==
            IF i = 0 THEN 0 ELSE base * upTo[i - 1] + AsHex(CharAt(digits, i))
    IN  upTo[Len(digits)]
Number(digits) == Numeral(digits, 16)

\* F(m), ..., F(n) put together by halves, which nest less than one after another.
Joint(Join(_, _), F(_), none, m, n) ==
    LET RECURSIVE part(_, _)
        part(i, j) == IF i = j THEN F(i)
                      ELSE Join(part(i, (i + j) \div 2), part((i + j) \div 2 + 1, j))
    IN  IF m > n THEN none ELSE part(m, n)

(* A loop: Step again and again until Over.  A run of 2^k turns is two of half as many, so *)
(* that turns nest no deeper than their number's logarithm.                      *)
Until(Over(_), Step(_), s) ==
    LET RECURSIVE turns(_, _), more(_, _)
        turns(k, t) == IF Over(t) THEN t ELSE IF k = 0 THEN Step(t) ELSE turns(k - 1, turns(k - 1, t))
        more(k, t) == IF Over(t) THEN t ELSE more(k + 1, turns(k, t))
    IN  more(0, s)
=============================================================================
