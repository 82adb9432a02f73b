----------------------------- MODULE Datatypes -----------------------------
(***************************************************************************)
(* Character data and the verdicts of the datatype libraries that drv.c    *)
(* calls.                                                                  *)
(*                                                                         *)
(* A text is a sequence of characters; " " stands for the XML white space  *)
(* characters.  A datatype is a pair <<library, type>>.  Of the types only *)
(* what the derivatives can tell apart is kept: string compares verbatim,  *)
(* token compares word by word, integer accepts one word of digits.        *)
(***************************************************************************)
EXTENDS Naturals, Sequences, FiniteSets

LOCAL INSTANCE SequencesExt

Space  == " "
Digits == {"1", "2"}

Whitespace(s) == \A i \in DOMAIN s : s[i] = Space

(***************************************************************************)
(* The words of a text, as list() of drv.c cuts them: maximal runs of      *)
(* characters that are not white space.                                    *)
(***************************************************************************)
Words(s) ==
  LET starts == {i \in DOMAIN s : s[i] # Space /\ (i = 1 \/ s[i-1] = Space)}
      End(i) == CHOOSE j \in i .. Len(s) :
                  /\ \A k \in i .. j : s[k] # Space
                  /\ j = Len(s) \/ s[j+1] = Space
  IN  [k \in 1 .. Cardinality(starts) |->
        LET i == SetToSortSeq(starts, <)[k] IN SubSeq(s, i, End(i))]

BuiltinString == <<"", "string">>
BuiltinToken  == <<"", "token">>
XsdInteger    == <<"xsd", "integer">>
XsdToken      == <<"xsd", "token">>
UserType      == <<"user", "type">>   \* of a library only the program provides

BuiltinLibraries == {"", "xsd"}

\* A library is found when it is built in or has been registered.
Known(dt, libs) == dt[1] \in BuiltinLibraries \cup libs

IsInteger(s) ==
  /\ Len(Words(s)) = 1
  /\ \A i \in DOMAIN Words(s)[1] : Words(s)[1][i] \in Digits

\* The verdict of the program's own library on a value of UserType.
UserAllows(s) == Words(s) = << <<"x">> >>

\* An unknown library's fallback accepts every text.
Allows(dt, s, libs) ==
  CASE dt = XsdInteger                    -> IsInteger(s)
    [] dt = UserType /\ Known(dt, libs)   -> UserAllows(s)
    [] OTHER                              -> TRUE

Equal(dt, v, s, libs) ==
  CASE dt = BuiltinString                              -> v = s
    [] dt \in {BuiltinToken, XsdToken, XsdInteger}     -> Words(v) = Words(s)
    [] dt = UserType /\ Known(dt, libs)                -> Words(v) = Words(s)
    [] OTHER                                           -> TRUE
=============================================================================
