------------------------------ MODULE BetaCode ------------------------------
(***************************************************************************)
(* The alphabet of Beta Code, shared by beta2uni and uni2beta              *)
(* (src/applications/unibetacode-2.0.1/src/progsrc): Greek letters written *)
(* in ASCII, marks after a small letter and between "*" and a capital one. *)
(* A Beta Code text is a sequence of one-character strings; a Unicode text *)
(* is a sequence of code points.                                           *)
(***************************************************************************)
EXTENDS Integers, Sequences, Functions, TLC

(* The ASCII characters from code 32 on ("bq" is the back quote), and      *)
(* newline, which has code 10.                                             *)
Printable ==
  << " ", "!", "\"", "#", "$", "%", "&", "'", "(", ")", "*", "+", ",", "-", ".", "/",
     "0", "1", "2", "3", "4", "5", "6", "7", "8", "9", ":", ";", "<", "=", ">", "?",
     "@", "A", "B", "C", "D", "E", "F", "G", "H", "I", "J", "K", "L", "M", "N", "O",
     "P", "Q", "R", "S", "T", "U", "V", "W", "X", "Y", "Z", "[", "\\", "]", "^", "_",
     "bq", "a", "b", "c", "d", "e", "f", "g", "h", "i", "j", "k", "l", "m", "n", "o",
     "p", "q", "r", "s", "t", "u", "v", "w", "x", "y", "z", "{", "|", "}", "~" >>

Newline == "\n"
Ascii == [ch \in Range(Printable) |-> 31 + CHOOSE n \in 1..95 : Printable[n] = ch] @@ (Newline :> 10)
CharOf == [code \in 32..126 |-> Printable[code - 31]] @@ (10 :> Newline)
Characters == DOMAIN Ascii
AsciiCodes == DOMAIN CharOf
Codes(chars) == [n \in DOMAIN chars |-> Ascii[chars[n]]]

Digits == {Printable[n] : n \in 17..26}
UpperLetters == {Printable[n] : n \in 34..59}
LowerLetters == {Printable[n] : n \in 66..91}
Letters == UpperLetters \cup LowerLetters
AlphaNumeric == Letters \cup Digits
ToLower == [ch \in UpperLetters |-> CharOf[Ascii[ch] + 32]] @@ [ch \in Characters |-> ch]

-----------------------------------------------------------------------------
(* The breathings and the accents in the order in which the Greek Extended *)
(* block of Unicode combines them: code = base + breathing + 2 * accent,   *)
(* and 8 more for the capital letter.                                      *)
Breathing == <<")", "(">>
Accent == << <<>>, <<"\\">>, <<"/">>, <<"=">> >>
NoIota == <<>>
Iota == <<"|">>

Small(letter, marks, iota) == <<letter>> \o marks \o iota
Capital(letter, marks, iota) == <<"*">> \o marks \o <<letter>> \o iota
Marks(b, n) == <<Breathing[b]>> \o Accent[n]
Entry(beta, code) == [beta |-> beta, code |-> code]

(* A row of the block: the letter with each breathing and one of the first *)
(* accents accents, small, and capital with the breathings capitals.   *)
SmallRow(letter, base, accents, iota) ==
  {Entry(Small(letter, Marks(b, n), iota), base + (b - 1) + 2 * (n - 1)) :
     b \in 1..2, n \in 1..accents}
CapitalRow(letter, base, accents, capitals, iota) ==
  {Entry(Capital(letter, Marks(b, n), iota), base + 8 + (b - 1) + 2 * (n - 1)) :
     b \in capitals, n \in 1..accents}
Row(letter, base, accents, capitals, iota) ==
  SmallRow(letter, base, accents, iota) \cup CapitalRow(letter, base, accents, capitals, iota)
(* The accent, the circumflex and the iota subscript without a breathing.  *)
IotaRow(ch, base) ==
  {Entry(<<ch, "\\", "|">>, base), Entry(<<ch, "|">>, base + 1), Entry(<<ch, "/", "|">>, base + 2),
   Entry(<<ch, "=">>, base + 4), Entry(<<ch, "=", "|">>, base + 5), Entry(<<"*", ch, "|">>, base + 10)}
(* Vrachy and macron, and the capitals with them.                          *)
LengthRow(ch, base) ==
  {Entry(<<ch, "'">>, base), Entry(<<ch, "&">>, base + 1),
   Entry(<<"*", "'", ch>>, base + 8), Entry(<<"*", "&", ch>>, base + 9)}
(* A breathing and an accent on their own.                                 *)
BareRow(b, base) ==
  {Entry(<<b, "\\">>, base), Entry(<<b, "/">>, base + 1), Entry(<<b, "=">>, base + 2)}
(* Dialytika with varia or perispomeni, and perispomeni.                   *)
DialytikaRow(ch, base) ==
  {Entry(<<ch, "+", "\\">>, base + 2), Entry(<<ch, "=">>, base + 6), Entry(<<ch, "+", "=">>, base + 7)}
=============================================================================
