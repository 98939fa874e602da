--------------------------- MODULE MCIncremental ----------------------------
(* Small instances of Incremental for TLC. *)
EXTENDS Incremental

\* An abbreviation, a decimal with its unit, two sentences and a half at once
\* with an amount that comes again, a bare period, a sentence that is cut after a
\* space, and a number that is cut at its point; with the space before or after
\* them or none.
MCFragments ==
    {<<Word("Dr"), Mark("."), Space>>,
     <<Digits(<<3>>), Mark("."), Digits(<<1, 4>>), Space, Word("km")>>,
     <<Space, Word("Chen"), Mark("?"), Space, Mark("$"), Digits(<<5>>), Mark("."), Space, Word("ok")>>,
     <<Word("ok"), Mark(";"), Space>>,
     <<Mark(".")>>,
     <<Space, Mark("$"), Digits(<<3>>), Mark(".")>>,
     <<Word("ok"), Mark("."), Space, Word("so"), Space>>}
=============================================================================
