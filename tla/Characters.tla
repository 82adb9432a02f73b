----------------------------- MODULE Characters -----------------------------
(***************************************************************************)
(* Characters and their codes, for the components that look inside a text: *)
(* regular expressions and datatypes.  A text is a sequence of characters, *)
(* each written as a string of length one.                                 *)
(***************************************************************************)
EXTENDS Integers, Sequences

\* The characters of a string, one by one.
Explode(string) == [i \in 1 .. Len(string) |-> SubSeq(string, i, i)]

\* ASCII from the space on: the code of the i-th character is 31 + i.
Printable ==
  Explode(" !\"#$%&'()*+,-./0123456789:;<=>?@ABCDEFGHIJKLMNOPQRSTUVWXYZ[\\]^_")
    \o <<"grave accent">> \o Explode("abcdefghijklmnopqrstuvwxyz{|}~")

Code == [c \in {Printable[i] : i \in DOMAIN Printable} \cup {"\t", "\n", "\r"} |->
          CASE c = "\t" -> 9
            [] c = "\n" -> 10
            [] c = "\r" -> 13
            [] OTHER    -> 31 + (CHOOSE i \in DOMAIN Printable : Printable[i] = c)]

\* xmlc_white_space.
xmlc_white_space(c) == c \in {" ", "\t", "\n", "\r"}

CodeRange(first, last) == {c \in DOMAIN Code : Code[c] \in Code[first] .. Code[last]}

CharsOf(string) == {SubSeq(string, i, i) : i \in 1 .. Len(string)}

Digit == CharsOf("0123456789")
Upper == CharsOf("ABCDEFGHIJKLMNOPQRSTUVWXYZ")
Lower == CharsOf("abcdefghijklmnopqrstuvwxyz")

\* The decimal digits of a text as a number: s must hold digits only.
DigitValue(c) == Code[c] - Code["0"]

NumberOf(s) ==
  LET n[i \in 0 .. Len(s)] == IF i = 0 THEN 0 ELSE 10 * n[i - 1] + DigitValue(s[i])
  IN  n[Len(s)]
=============================================================================
