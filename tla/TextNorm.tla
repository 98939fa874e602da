------------------------------ MODULE TextNorm ------------------------------
(***************************************************************************)
(* Text normalization and sentence splitting (streaming/text_norm.py) as    *)
(* operators.                                                               *)
(*                                                                         *)
(* A text is a sequence of lexemes: words, runs of digits, single marks of  *)
(* punctuation and spaces; two lexemes touch unless a space is between      *)
(* them.  Every pass of normalize() is a rule that gives each position what *)
(* it makes of the text from there on; Rewrite applies it from left to      *)
(* right, as re.sub does.  Spelling numbers out is the library's (inflect): *)
(* a number that is spoken is a lexeme of its own.  The tables are cut to   *)
(* one or two entries of each sort.                                         *)
(***************************************************************************)
EXTENDS Integers, Sequences, SequencesExt

Word(w)  == [word |-> w]
Digits(ds) == [digits |-> ds]
Mark(c)  == [mark |-> c]
Cardinal(n) == [cardinal |-> n]
Ordinal(n)  == [ordinal |-> n]
Space == Mark(" ")

\* What a fragment consists of; a run of digits is not empty.
Lexeme == [word : STRING] \cup [digits : Seq(0..9) \ {<<>>}] \cup [mark : STRING]

IsMark(x)   == "mark" \in DOMAIN x
IsDigits(x) == "digits" \in DOMAIN x
IsSpeech(x) == ~IsMark(x) /\ ~IsDigits(x)

\* What a rule has for a position: so many lexemes taken from there on, and what
\* is put in their place.
Replace(n, by) == [taken |-> n, by |-> by]
Keep(text, i)  == Replace(1, <<text[i]>>)

Rewrite(rule) ==
    LET from[i \in 1..(Len(rule) + 1)] ==
          IF i \notin DOMAIN rule THEN <<>>
          ELSE LET m == rule[i] IN m.by \o from[i + m.taken]
    IN  from[1]

\* Tests of one position, false outside the text.
MarkAt(text, i, c)  == i \in 1..Len(text) /\ text[i] = Mark(c)
DigitsAt(text, i, lens) == i \in 1..Len(text) /\ IsDigits(text[i]) /\ Len(text[i].digits) \in lens
WordAt(text, i, ws) == i \in 1..Len(text) /\ \E w \in ws : text[i] = Word(w)
SpeechAt(text, i)   == i \in 1..Len(text) /\ IsSpeech(text[i])
AnyLength == Nat \ {0}

\* \b between positions i - 1 and i, one of which is a word or digits.
Boundary(text, i) ==
    ~(i > 1 /\ i <= Len(text) /\ ~IsMark(text[i - 1]) /\ ~IsMark(text[i]))

\* \s? at position i
OptSpace(text, i) == IF MarkAt(text, i, " ") THEN i + 1 ELSE i

\* Words with a space between each two of them.
Spaced(ws) == Tail(FlattenSeq([k \in 1..Len(ws) |-> <<Space, ws[k]>>]))

Value(ds) == FoldLeft(LAMBDA n, d : 10 * n + d, 0, ds)
-----------------------------------------------------------------------------
(* Numbers. *)

\* The last position of \d[\d,]* from position i on.
GroupEnd(text, i) ==
    CHOOSE j \in i..Len(text) :
      /\ \A k \in i..j : IsDigits(text[k]) \/ text[k] = Mark(",")
      /\ ~(j < Len(text) /\ (IsDigits(text[j + 1]) \/ text[j + 1] = Mark(",")))

\* Its digits, the commas taken out.
GroupDigits(text, i, j) ==
    FlattenSeq([k \in 1..(j - i + 1) |->
                  IF IsDigits(text[i + k - 1]) THEN text[i + k - 1].digits ELSE <<>>])

\* _expand_year: in pairs, where years are read in pairs.
Year(y) ==
    IF y \in 1100..1999 \/ y \in 2010..2099
      THEN IF y % 100 = 0 THEN <<Cardinal(y \div 100), Word("hundred")>>
                          ELSE <<Cardinal(y \div 100), Cardinal(y % 100)>>
      ELSE <<Cardinal(y)>>

EachDigit(ds) == [k \in 1..Len(ds) |-> Cardinal(ds[k])]

\* repl of _expand_numbers, for a numeral without decimals.
Integer(ds) ==
    IF Len(ds) > 1 /\ ds[1] = 0 THEN EachDigit(ds)
    ELSE IF Len(ds) = 4 /\ Value(ds) \in 1100..2099 THEN Year(Value(ds))
    ELSE <<Cardinal(Value(ds))>>

NumberRule(text) == [i \in DOMAIN text |->
    IF ~DigitsAt(text, i, AnyLength) THEN Keep(text, i)
    ELSE LET j  == GroupEnd(text, i)
             ds == GroupDigits(text, i, j)
         IN  IF MarkAt(text, j + 1, ".") /\ DigitsAt(text, j + 2, AnyLength)
               THEN Replace(j + 3 - i, Spaced(<<Cardinal(Value(ds)), Word("point")>>
                                                \o EachDigit(text[j + 2].digits)))
               ELSE Replace(j + 1 - i, Spaced(Integer(ds)))]
-----------------------------------------------------------------------------
(* The specific rules. *)

Abbreviations == [Dr |-> "Doctor", min |-> "minutes"]

\* The period goes with the abbreviation; that of "vs." only before a letter.
AbbreviationRule(text) == [i \in DOMAIN text |->
    IF WordAt(text, i, DOMAIN Abbreviations) /\ Boundary(text, i) /\ MarkAt(text, i + 1, ".")
      THEN Replace(2, <<Word(Abbreviations[text[i].word])>>)
    ELSE IF WordAt(text, i, {"vs"}) /\ Boundary(text, i) /\ Boundary(text, i + 1)
      THEN Replace(IF MarkAt(text, i + 1, ".") /\ i + 2 <= Len(text) /\ ~IsMark(text[i + 2])
                     THEN 2 ELSE 1, <<Word("versus")>>)
    ELSE Keep(text, i)]

\* ".5" is fifty cents: frac.ljust(2, "0")[:2]
Cents(ds) == IF Len(ds) = 1 THEN 10 * ds[1] ELSE Value(SubSeq(ds, 1, 2))

Counted(n, one, many) == <<Cardinal(n), Word(IF n = 1 THEN one ELSE many)>>

CurrencyRule(text) == [i \in DOMAIN text |->
    LET from == OptSpace(text, i + 1)
    IN  IF ~(MarkAt(text, i, "$") /\ DigitsAt(text, from, AnyLength)) THEN Keep(text, i)
        ELSE LET j == GroupEnd(text, from)
                 dollars == Counted(Value(GroupDigits(text, from, j)), "dollar", "dollars")
                 hasFrac == MarkAt(text, j + 1, ".") /\ DigitsAt(text, j + 2, AnyLength)
                 frac == text[j + 2].digits
                 rest == SubSeq(frac, 3, Len(frac))
             IN  IF ~hasFrac THEN Replace(j + 1 - i, Spaced(dollars))
                 ELSE Replace(j + 3 - i,
                        Spaced(dollars \o IF Cents(frac) = 0 THEN <<>>
                                          ELSE <<Word("and")>>
                                                 \o Counted(Cents(frac), "cent", "cents"))
                          \o (IF rest = <<>> THEN <<>> ELSE <<Digits(rest)>>))]

\* m/d or m/d/y, with a month and a day that exist.
DateRule(text) == [i \in DOMAIN text |->
    LET IsDate == /\ DigitsAt(text, i, {1, 2}) /\ Boundary(text, i)
                  /\ MarkAt(text, i + 1, "/") /\ DigitsAt(text, i + 2, {1, 2})
        HasYear == MarkAt(text, i + 3, "/") /\ DigitsAt(text, i + 4, 2..4) /\ Boundary(text, i + 5)
        n    == IF HasYear THEN 5 ELSE 3
        m    == Value(text[i].digits)
        d    == Value(text[i + 2].digits)
        year == text[i + 4].digits
    IN  IF ~(IsDate /\ (HasYear \/ Boundary(text, i + 3))) THEN Keep(text, i)
        ELSE IF ~(m \in 1..12 /\ d \in 1..31) THEN Replace(n, SubSeq(text, i, i + n - 1))
        ELSE Replace(n, Spaced(<<Word("month"), Ordinal(d)>>
                                 \o IF ~HasYear THEN <<>>
                                    ELSE Year(IF Len(year) = 4 THEN Value(year)
                                                               ELSE 2000 + Value(year))))]

TimeRule(text) == [i \in DOMAIN text |->
    IF ~(/\ DigitsAt(text, i, {1, 2}) /\ Boundary(text, i) /\ MarkAt(text, i + 1, ":")
         /\ DigitsAt(text, i + 2, {2}) /\ Boundary(text, i + 3)) THEN Keep(text, i)
    ELSE LET h == Value(text[i].digits)
             m == Value(text[i + 2].digits)
         IN  IF ~(h \in 0..23 /\ m \in 0..59) THEN Replace(3, SubSeq(text, i, i + 2))
             ELSE Replace(3, Spaced(<<Cardinal(h)>> \o
                    IF m = 0 THEN <<Word("o'clock")>>
                    ELSE IF m < 10 THEN <<Word("oh"), Cardinal(m)>>
                    ELSE <<Cardinal(m)>>))]

Units == [km |-> "kilometers", kg |-> "kilograms"]

\* The number in front stays, for the number rule.
UnitRule(text) == [i \in DOMAIN text |->
    LET last == IF MarkAt(text, i + 1, ".") /\ DigitsAt(text, i + 2, AnyLength) THEN i + 2 ELSE i
        unit == OptSpace(text, last + 1)
        Says(u) == Replace(unit + 1 - i, SubSeq(text, i, last) \o <<Space, Word(u)>>)
    IN  IF ~(DigitsAt(text, i, AnyLength) /\ Boundary(text, i)) THEN Keep(text, i)
        ELSE IF WordAt(text, unit, DOMAIN Units) /\ Boundary(text, unit + 1)
               THEN Says(Units[text[unit].word])
        ELSE IF MarkAt(text, unit, "%") THEN Says("percent")
        ELSE Keep(text, i)]

OrdinalRule(text) == [i \in DOMAIN text |->
    IF /\ DigitsAt(text, i, AnyLength) /\ Boundary(text, i)
       /\ WordAt(text, i + 1, {"st", "nd", "rd", "th"}) /\ Boundary(text, i + 2)
      THEN Replace(2, <<Ordinal(Value(text[i].digits))>>)
      ELSE Keep(text, i)]

Symbols == [c \in {"&", "+", "="} |->
              CASE c = "&" -> "and" [] c = "+" -> "plus" [] c = "=" -> "equals"]

\* A symbol with the spaces around it, and the range between two numbers.
SymbolRule(text) == [i \in DOMAIN text |->
    LET at == OptSpace(text, i)
        n  == OptSpace(text, at + 1) - i
    IN  IF \E c \in DOMAIN Symbols : MarkAt(text, at, c)
          THEN Replace(n, <<Space, Word(Symbols[text[at].mark]), Space>>)
        ELSE IF MarkAt(text, at, "-") /\ DigitsAt(text, i - 1, AnyLength) /\ DigitsAt(text, i + n, AnyLength)
          THEN Replace(n, <<Space, Word("to"), Space>>)
        ELSE Keep(text, i)]

\* _split_alphanumeric
SplitRule(text) == [i \in DOMAIN text |->
    IF i < Len(text) /\ \/ IsDigits(text[i]) /\ IsSpeech(text[i + 1])
                        \/ IsSpeech(text[i]) /\ IsDigits(text[i + 1])
      THEN Replace(1, <<text[i], Space>>)
      ELSE Keep(text, i)]

\* _expand_symbols_post
CompoundRule(text) == [i \in DOMAIN text |->
    IF MarkAt(text, i, "-") /\ SpeechAt(text, i - 1) /\ SpeechAt(text, i + 1)
      THEN Replace(1, <<Space>>)
      ELSE Keep(text, i)]

SpaceRule(text) == [i \in DOMAIN text |->
    IF MarkAt(text, i + 1, " ") /\ text[i] = Space THEN Replace(1, <<>>) ELSE Keep(text, i)]

\* strip()
Strip(text) ==
    LET spoken == {i \in 1..Len(text) : text[i] # Space}
    IN  IF spoken = {} THEN <<>>
        ELSE SubSeq(text, CHOOSE i \in spoken : \A j \in spoken : i <= j,
                          CHOOSE i \in spoken : \A j \in spoken : i >= j)

\* normalize(), the passes in the order of the code, in five groups.
Words(text)   == Rewrite(AbbreviationRule(Strip(text)))
Amounts(text) == Rewrite(TimeRule(Rewrite(DateRule(Rewrite(CurrencyRule(text))))))
Quantities(text) == Rewrite(OrdinalRule(Rewrite(UnitRule(text))))
Numbers(text) == Rewrite(NumberRule(Rewrite(SplitRule(Rewrite(SymbolRule(text))))))
Tidied(text)  == Strip(Rewrite(SpaceRule(Rewrite(CompoundRule(text)))))

Normalize(text) == Tidied(Numbers(Quantities(Amounts(Words(text)))))
-----------------------------------------------------------------------------
(* split_for_streaming *)

Terminators == {".", "!", "?", ";", ":"}

\* Does the text end with a terminator, so that a space after it is a boundary?
Terminated(text) == text # <<>> /\ \E c \in Terminators : Last(text) = Mark(c)

\* One lexeme more: a space after a terminator, or at the beginning, opens the
\* next piece and is dropped.
Read(pieces, x) ==
    IF x = Space /\ (pieces = <<>> \/ Terminated(Last(pieces))) THEN Append(pieces, <<>>)
    ELSE IF pieces = <<>> THEN <<<<x>>>>
    ELSE Append(Front(pieces), Append(Last(pieces), x))

Pieces(text) == FoldLeft(Read, <<>>, text)

\* The pieces stripped, the empty ones dropped.
Kept(parts, piece) == IF Strip(piece) = <<>> THEN parts ELSE Append(parts, Strip(piece))

Sentences(pieces) == FoldLeft(Kept, <<>>, pieces)

\* A part is glued to the one before it while that one is short; a lexeme
\* counts as one character.
Glued(out, part, minChars) ==
    IF out # <<>> /\ Len(Last(out)) < minChars
      THEN Append(Front(out), Last(out) \o <<Space>> \o part)
      ELSE Append(out, part)

Merged(parts, minChars) ==
    FoldLeft(LAMBDA out, part : Glued(out, part, minChars), <<>>, parts)

SplitForStreaming(text, minChars) == Merged(Sentences(Pieces(text)), minChars)
=============================================================================
