------------------------------ MODULE Lexical ------------------------------
(***************************************************************************)
(* Texts of datatypes: the comparisons of s.c, and the lengths and         *)
(* comparisons that xsd.c adds to them.  Of the comparisons only whether   *)
(* they find a difference is used, except where a sign is returned here.   *)
(***************************************************************************)
EXTENDS Characters

LOCAL INSTANCE SequencesExt
LOCAL INSTANCE FiniteSetsExt

Chars(s)    == {s[i] : i \in DOMAIN s}
Solid(s)    == SelectSeq(s, LAMBDA c : ~xmlc_white_space(c))    \* without white space

RECURSIVE SkipSpace(_)
SkipSpace(s) == IF s # <<>> /\ xmlc_white_space(s[1]) THEN SkipSpace(Tail(s)) ELSE s

\* Without what is in chars at the end.
UpTo(s, chars) == SubSeq(s, 1, Max({0} \cup {i \in DOMAIN s : s[i] \notin chars}))
Blanks == {c \in DOMAIN Code : xmlc_white_space(c)}

\* The first place from i on where one of chars stands, past the end if none does.
FirstOf(s, i, chars) == Min({Len(s) + 1} \cup {j \in i .. Len(s) : s[j] \in chars})

\* s_cmpn: the sign of the first difference.
RECURSIVE s_cmpn(_, _)
s_cmpn(s1, s2) ==
  CASE s2 = <<>>                    -> IF s1 = <<>> THEN 0 ELSE 1
    [] s1 = <<>> /\ s2 # <<>>       -> -1
    [] OTHER -> IF s1[1] = s2[1] THEN s_cmpn(Tail(s1), Tail(s2))
                ELSE IF Code[s1[1]] < Code[s2[1]] THEN -1 ELSE 1

\* Mutant: a run of white space is compared one to one.
RECURSIVE TokensOneToOne(_, _)
TokensOneToOne(s1, s2) ==
  CASE s2 = <<>>              -> SkipSpace(s1) = <<>>
    [] s1 = <<>> /\ s2 # <<>> -> SkipSpace(s2) = <<>>
    [] OTHER -> /\ s1[1] = s2[1] \/ {s1[1], s2[1]} \subseteq Blanks
                /\ TokensOneToOne(Tail(s1), Tail(s2))

\* s_tokcmpn finds no difference, white space at the start skipped already.
RECURSIVE SameTokens(_, _)
SameTokens(s1, s2) ==
  CASE s2 = <<>>              -> SkipSpace(s1) = <<>>
    [] s1 = <<>> /\ s2 # <<>> -> SkipSpace(s2) = <<>>
    [] OTHER -> IF {s1[1], s2[1]} \subseteq Blanks
                THEN SameTokens(SkipSpace(s1), SkipSpace(s2))
                ELSE s1[1] = s2[1] /\ SameTokens(Tail(s1), Tail(s2))

s_tokeq(s1, s2) == SameTokens(SkipSpace(s1), SkipSpace(s2))

\* s_ntab: the place of a name in a sorted table, one past its end if it is not there.
RECURSIVE Bisect(_, _, _, _)
Bisect(tab, s, n, m) ==
  LET i   == (n + m) \div 2
      cmp == s_cmpn(Explode(tab[i]), s)
  IN  CASE n > m     -> Len(tab) + 1
        [] n <= m    -> IF cmp = 0 THEN i
                        ELSE IF cmp > 0 THEN Bisect(tab, s, n, i - 1) ELSE Bisect(tab, s, i + 1, m)

s_tab(s, tab) == Bisect(tab, s, 1, Len(tab))

-----------------------------------------------------------------------------
(* Lengths.                                                                *)

\* toklenn: the length of a text with its white space collapsed.
RECURSIVE TokenLength(_, _)
WordLength(t, end, len) ==
  CASE t = <<>>                   -> IF len > 0 THEN len - 1 ELSE 0
    [] t # <<>> /\ end > Len(t)   -> len + Len(t)
    [] OTHER                      -> TokenLength(SubSeq(t, end + 1, Len(t)), len + end)

TokenLength(s, len) == LET t == SkipSpace(s) IN WordLength(t, FirstOf(t, 1, Blanks), len)

toklenn(s) == TokenLength(s, 0)

\* tokcntn: the number of tokens.
tokcntn(s) == Cardinality({i \in DOMAIN s : ~xmlc_white_space(s[i]) /\ (i = 1 \/ xmlc_white_space(s[i - 1]))})

\* b64lenn: the number of bytes.
b64lenn(s) ==
  LET l == Len(Solid(UpTo(s, Blanks \cup {"="})))
  IN  IF l % 4 = 1 THEN -1 ELSE (l \div 4) * 3 + (IF l % 4 = 0 THEN 0 ELSE (l % 4) - 1)

\* fdiglenn: the digits after the point, without zeros at the end.
fdiglenn(s) ==
  LET t    == UpTo(s, Blanks \cup {"0"})
      dots == {i \in DOMAIN t : t[i] = "."}
  IN  IF dots = {} THEN 0 ELSE Len(t) - Min(dots)

\* diglenn: a number below one counts a digit before its point.
WholeDigits(s, first, last) ==
  (IF last = first THEN 1 ELSE last - first)
    + (IF last <= Len(s) /\ s[last] = "." THEN fdiglenn(SubSeq(s, last, Len(s))) ELSE 0)

FromDigit(s, first) == WholeDigits(s, first, FirstOf(s, first, Blanks \cup {"."}))

diglenn(s) == FromDigit(s, FirstOf(s, 1, DOMAIN Code \ (Blanks \cup {"+", "-", "0"})))

-----------------------------------------------------------------------------
(* Comparisons.                                                            *)

\* nrmcmpn: white space characters are all alike.
nrmeq(s1, s2) ==
  Len(s1) = Len(s2) /\ \A i \in DOMAIN s1 : s1[i] = s2[i] \/ {s1[i], s2[i]} \subseteq Blanks

\* hexcmpn: the cases of the switch fall through, so a letter of the first text equals
\* the same or a later letter of the second.
Letters(c) ==
  LET after == {k \in 1 .. 6 : c \in {Explode("abcdef")[k], Explode("ABCDEF")[k]}}
  IN  IF after = {} THEN {c}
      ELSE {c} \cup UNION {{Explode("abcdef")[k], Explode("ABCDEF")[k]} : k \in Min(after) .. 6}

hexeq(s1, s2) ==
  LET t1 == Solid(s1)  t2 == Solid(s2)
  IN  Len(t1) = Len(t2) /\ \A i \in DOMAIN t1 : t2[i] \in Letters(t1[i])

b64eq(s1, s2) == Solid(s1) = Solid(s2)

\* qncmpn: what follows the first colon.
LocalPart(s) ==
  LET colons == {i \in DOMAIN s : s[i] = ":"}
  IN  IF colons = {} THEN s ELSE SubSeq(s, Min(colons) + 1, Len(s))

qneq(s1, s2) == s_tokeq(LocalPart(s1), LocalPart(s2))

-----------------------------------------------------------------------------
(* Decimal numbers.                                                        *)

\* anchdec: the sign, whether the number is zero, its digits before and after the
\* point, without the zeros that do not count.  They stand from b to e, the point
\* at dot, past them if there is none.
Parts(s0, b, e, dot) ==
  [plus  |-> "-" \notin Chars(SubSeq(s0, 1, b - 1)),
   zero  |-> (e = 0 \/ s0[e] = ".") /\ (b > e \/ s0[b] = "."),
   whole |-> CASE b > e             -> <<>>
               [] b <= e /\ dot > e -> SubSeq(s0, b, Len(s0))
               [] OTHER             -> SubSeq(s0, b, dot - 1),
   part  |-> SubSeq(s0, dot + 1, e)]

Pointed(s0, b, e) ==
  LET dots == {i \in b .. e : s0[i] = "."}
  IN  Parts(s0, b, e, IF dots = {} THEN e + 1 ELSE Max(dots))

Ended(s0, e) == Pointed(s0, Min({e + 1} \cup {i \in 1 .. e : s0[i] \notin Blanks \cup {"0", "+", "-"}}), e)

Solids(s0) == Ended(s0, Len(UpTo(s0, {"0", "+", "-"})))

Anchored(s) == Solids(UpTo(s, Blanks))

Sign(n) == IF n < 0 THEN -1 ELSE IF n > 0 THEN 1 ELSE 0

Magnitudes(d1, d2) ==
  CASE Len(d1.whole) # Len(d2.whole)       -> Sign(Len(d1.whole) - Len(d2.whole))
    [] d1.whole # d2.whole /\ Len(d1.whole) = Len(d2.whole) -> s_cmpn(d1.whole, d2.whole)
    [] OTHER                               -> s_cmpn(d1.part, d2.part)

Decimals(d1, d2) ==
  CASE d1.zero /\ d2.zero                           -> 0
    [] ~(d1.zero /\ d2.zero) /\ d1.plus # d2.plus -> IF d1.plus THEN 1 ELSE -1
    [] OTHER -> (IF d1.plus THEN 1 ELSE -1) * Magnitudes(d1, d2)

deccmp(s1, s2) == Decimals(Anchored(s1), Anchored(s2))

-----------------------------------------------------------------------------
(* Numbers in the text of parameters, dates and durations.                 *)

\* The digits at the start of a text.
Leading(d) == SubSeq(d, 1, Min({Len(d)} \cup {i - 1 : i \in {i \in DOMAIN d : d[i] \notin Digit}}))

\* strtol: the number at the start of a text, and what follows it.
LeadingNumber(s, sign, d, digits) ==
  [value |-> sign * NumberOf(digits),
   rest  |-> IF digits = <<>> THEN s ELSE SubSeq(d, Len(digits) + 1, Len(d))]

Unsigned(s, sign, d) == LeadingNumber(s, sign, d, Leading(d))

Signed(s, t) ==
  Unsigned(s, IF t # <<>> /\ t[1] = "-" THEN -1 ELSE 1,
           IF t # <<>> /\ t[1] \in {"+", "-"} THEN Tail(t) ELSE t)

strtol(s) == Signed(s, SkipSpace(s))

\* s2dura: a field is the number before its letter.  np is moved on by each character
\* of a number, so that it holds the last digit only.
Fields == {"Y", "M", "D", "H", "TM", "S"}

RECURSIVE Duration(_, _, _, _, _)
Duration(s, np, sign, time, d) ==
  LET c     == s[1]
      field == IF c = "M" /\ time THEN "TM" ELSE c
  IN  IF s = <<>> THEN d
      ELSE Duration(Tail(s),
                    IF c \in Digit \cup {"."} THEN IF c = "." THEN 0 ELSE DigitValue(c) ELSE np,
                    IF c = "-" THEN -1 ELSE sign,
                    time \/ c = "T",
                    IF field \in Fields THEN [d EXCEPT ![field] = sign * np] ELSE d)

s2dura(s) == Duration(s, 0, 1, FALSE, [f \in Fields |-> 0])

duraeq(s1, s2) == s2dura(s1) = s2dura(s2)
=============================================================================
