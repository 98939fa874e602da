---------------------------- MODULE Incremental -----------------------------
(***************************************************************************)
(* Incremental synthesis over text that arrives in fragments               *)
(* (IncrementalSynthesizer, streaming/incremental.py).                     *)
(*                                                                         *)
(* push() and flush() are generators: their body runs when the caller asks *)
(* for the next clause, stops at every yield, and may be dropped there, or *)
(* left there while the caller pushes the next fragment.  Latents are      *)
(* abstracted to the speech they are the latents of.                       *)
(***************************************************************************)
EXTENDS TextNorm, FiniteSets

CONSTANTS
    Fragments,   \* the fragments of text to consider, sequences of lexemes
    MaxPushes,   \* bound on the fragments pushed
    MaxFlushes,  \* bound on the calls of flush
    Generators,  \* how many generators may be suspended at a time
    MinChars,    \* min_chars, in lexemes
    CacheSize    \* cache_size

ASSUME SizesAssumption ==
    /\ MaxPushes \in Nat /\ MaxFlushes \in Nat /\ MinChars \in Nat /\ CacheSize \in Nat
ASSUME FragmentsAssumption == \A f \in Fragments : f \in Seq(Lexeme) /\ f # <<>>
ASSUME GeneratorsAssumption == Generators # {}

VARIABLES
    buf,       \* self._buf
    emitted,   \* self._emitted
    cache,     \* self._cache, oldest first: <<[key, latents], ...>>
    stats,     \* self.stats: [hits, misses, clauses_emitted]
    left,      \* the clauses each suspended generator has still to emit
    running,   \* is the generator suspended at a yield?
    heard,     \* history: the results yielded, [text, latents, index]
    text,      \* history: the text pushed since the last flush, end to end
    severed,   \* history: is it cut into fragments elsewhere than at a space?
    taken,     \* history: the clauses handed to generators since then
    used,      \* history: the keys looked up, in order
    orderly,   \* history: was every generator run to its end, one at a time?
    pushes, flushes   \* how often push and flush were called

history == <<text, severed, taken, pushes, flushes>>
vars == <<buf, emitted, cache, stats, left, running, heard, used, orderly, history>>

Init ==
    /\ buf = <<>> /\ emitted = 0 /\ cache = <<>>
    /\ stats = [hits |-> 0, misses |-> 0, clauses_emitted |-> 0]
    /\ left = [g \in Generators |-> <<>>]
    /\ running = [g \in Generators |-> FALSE]
    /\ heard = <<>> /\ text = <<>> /\ taken = <<>> /\ used = <<>>
    /\ orderly = TRUE /\ severed = FALSE
    /\ pushes = 0 /\ flushes = 0
-----------------------------------------------------------------------------
(* _synth *)

\* The cache is keyed on what is said.
Key(clause) == Normalize(clause)

\* External: latents_fn, which says the clause.
LatentsFn(clause) == Normalize(clause)

Entries(key) == {k \in 1..Len(cache) : cache[k].key = key}

\* Faulty Touched: a hit does not count as a use.
TouchedNever(k) == cache

\* move_to_end
Touched(k) == Append(RemoveAt(cache, k), cache[k])

\* Inserted at the end; over its size, the cache drops its oldest entry.
Inserted(entry) ==
    LET more == Append(cache, entry)
    IN  IF Len(more) > CacheSize THEN Tail(more) ELSE more

\* The latents a caller gets, and what the look-up does to the cache.
Latents(clause) ==
    LET hits == Entries(Key(clause))
    IN  IF hits = {} THEN LatentsFn(clause) ELSE cache[CHOOSE k \in hits : TRUE].latents

Synth(clause) ==
    /\ used' = Append(used, Key(clause))
    /\ \/ /\ Entries(Key(clause)) = {}
          /\ cache' = Inserted([key |-> Key(clause), latents |-> Latents(clause)])
          /\ stats' = [stats EXCEPT !.misses = @ + 1, !.clauses_emitted = @ + 1]
       \/ \E k \in Entries(Key(clause)) :
            /\ cache' = Touched(k)
            /\ stats' = [stats EXCEPT !.hits = @ + 1, !.clauses_emitted = @ + 1]
-----------------------------------------------------------------------------
(* The generators. *)

\* The generator ends; what it had still to emit is dropped with it.
Ends(g) ==
    /\ left' = [left EXCEPT ![g] = <<>>]
    /\ running' = [running EXCEPT ![g] = FALSE]

\* next(): from here to the next yield, when index clauses have been counted.
\* latents_fn may raise, which ends the generator.
Advance(g, clauses, index) ==
    \/ /\ clauses = <<>>
       /\ Ends(g)
       /\ UNCHANGED <<cache, stats, heard, used, orderly>>
    \/ /\ clauses # <<>>
       /\ Synth(Head(clauses))
       /\ heard' = Append(heard, [text |-> Head(clauses), latents |-> Latents(Head(clauses)),
                                  index |-> index])
       /\ left' = [left EXCEPT ![g] = Tail(clauses)]
       /\ running' = [running EXCEPT ![g] = TRUE]
       /\ orderly' = (orderly /\ \A o \in Generators \ {g} : ~running[o])
    \/ /\ clauses # <<>> /\ Entries(Key(Head(clauses))) = {}
       /\ Ends(g)
       /\ orderly' = FALSE
       /\ UNCHANGED <<cache, stats, heard, used>>

\* Neither of the two supplies a space where they meet.
Touch(sofar, fragment) ==
    sofar # <<>> /\ Last(sofar) # Space /\ Head(fragment) # Space

\* A space between the two when neither supplies one.
Join(sofar, fragment) ==
    IF Touch(sofar, fragment) THEN sofar \o <<Space>> \o fragment ELSE sofar \o fragment

\* Faulty Push: the last part is emitted as well once it ends a sentence, and
\* stays in the buffer.
PushEager(g, fragment) ==
    LET joined == Join(buf, fragment)
        parts  == SplitForStreaming(joined, MinChars)
    IN  /\ ~running[g] /\ pushes < MaxPushes
        /\ pushes' = pushes + 1
        /\ text' = text \o fragment /\ severed' = (severed \/ Touch(text, fragment))
        /\ buf' = IF parts = <<>> THEN joined ELSE Last(parts)
        /\ IF parts # <<>> /\ Terminated(Last(parts))
             THEN taken' = taken \o parts /\ Advance(g, parts, emitted)
             ELSE UNCHANGED <<taken, cache, stats, left, running, heard, used, orderly>>
        /\ UNCHANGED <<emitted, flushes>>

\* push(fragment), to its first yield or its end.  Every part but the last is
\* complete; the last is kept.  With one part, the buffer stays as it is.
Push(g, fragment) ==
    LET joined == Join(buf, fragment)
        parts  == SplitForStreaming(joined, MinChars)
    IN  /\ ~running[g] /\ pushes < MaxPushes
        /\ pushes' = pushes + 1
        /\ text' = text \o fragment /\ severed' = (severed \/ Touch(text, fragment))
        /\ IF Len(parts) <= 1
             THEN /\ buf' = joined
                  /\ UNCHANGED <<taken, cache, stats, left, running, heard, used, orderly>>
             ELSE /\ buf' = Last(parts)
                  /\ taken' = taken \o Front(parts)
                  /\ Advance(g, Front(parts), emitted)
        /\ UNCHANGED <<emitted, flushes>>

\* flush(), to its yield or its end: what is left is emitted, finished or not.
Flush(g) ==
    LET tail == Strip(buf)
    IN  /\ ~running[g] /\ flushes < MaxFlushes
        /\ flushes' = flushes + 1
        /\ buf' = <<>> /\ text' = <<>> /\ severed' = FALSE /\ taken' = <<>>
        /\ Advance(g, IF tail = <<>> THEN <<>> ELSE <<tail>>, emitted)
        /\ UNCHANGED <<emitted, pushes>>

\* Faulty Resume: the clause is never counted.
ResumeUncounted(g) ==
    /\ running[g]
    /\ Advance(g, left[g], emitted)
    /\ UNCHANGED <<buf, emitted, history>>

\* The caller asks a suspended generator for more: the clause it had yielded is
\* counted now.
Resume(g) ==
    /\ running[g]
    /\ emitted' = emitted + 1
    /\ Advance(g, left[g], emitted + 1)
    /\ UNCHANGED <<buf, history>>

\* The caller drops a suspended generator: its clauses are lost, and the last
\* one it yielded is never counted.
Drop(g) ==
    /\ running[g]
    /\ Ends(g)
    /\ orderly' = FALSE
    /\ UNCHANGED <<buf, emitted, cache, stats, heard, used, history>>

Next ==
    \E g \in Generators :
      \/ \E f \in Fragments : Push(g, f)
      \/ Flush(g)
      \/ Resume(g)
      \/ Drop(g)

Spec == Init /\ [][Next]_vars
-----------------------------------------------------------------------------
(* Properties. *)

\* Every variable stays in its type.
TypeOK ==
    /\ emitted \in Nat
    /\ stats \in [hits : Nat, misses : Nat, clauses_emitted : Nat]
    /\ running \in [Generators -> BOOLEAN]
    /\ \A g \in Generators : left[g] # <<>> => running[g]
    /\ \A k \in 1..Len(heard) : heard[k].index \in 0..emitted
    /\ orderly \in BOOLEAN /\ severed \in BOOLEAN
    /\ pushes \in 0..MaxPushes /\ flushes \in 0..MaxFlushes

Speech(clauses) ==
    FlattenSeq([k \in 1..Len(clauses) |-> Normalize(clauses[k])])

\* What is said, the spaces dropped by one more rule.
Spoken(t) == Rewrite([i \in DOMAIN t |->
    IF t[i] = Space THEN Replace(1, <<>>) ELSE Keep(t, i)])

\* No two spaces in a row: the buffer, stripped between two fragments, would keep
\* one, and what a space may part ("5 km") would be together that was not.
Single(t) == \A i \in 2..Len(t) : ~(t[i - 1] = Space /\ t[i] = Space)

\* Nothing is left that the tokenizer could not say: no digits.
NoDigitsHeard ==
    \A k \in 1..Len(heard) : \A x \in ToSet(heard[k].latents) : ~IsDigits(x)

\* A text that is cut into fragments at its spaces, none of them doubled, is said
\* as if it had come whole: the cut into clauses, normalized one by one, is not
\* heard, and no number, amount or abbreviation is said in two.  Of a text that is
\* severed elsewhere nothing is said here: push puts a space at the cut, and "3."
\* and "14" are said as two numbers.  However it is cut, nothing is left in digits.
FragmentsDoNotMatter ==
    LET clauses == taken \o SplitForStreaming(buf, MinChars) IN
    /\ Single(text) /\ ~severed => Spoken(Speech(clauses)) = Spoken(Normalize(text))
    /\ NoDigitsHeard

\* Wherever the text is cut, the clauses taken and the buffer are the text, but
\* for spaces: nothing of it is lost, doubled or moved.  Cut at its spaces, none
\* doubled, they are the very clauses of the whole text.  A caller that runs every
\* generator to its end before it makes the next hears each clause taken once, in
\* order and numbered without a gap; any other may lose clauses, and see an index
\* twice.  Every variable is in its type.
EmittedInOrder ==
    /\ TypeOK
    /\ Spoken(FlattenSeq(taken) \o buf) = Spoken(text)
    /\ Single(text) /\ ~severed =>
         taken \o SplitForStreaming(buf, MinChars) = SplitForStreaming(text, MinChars)
    /\ orderly =>
         /\ \A k \in 1..Len(heard) : heard[k].index = k - 1
         /\ flushes = 0 =>
              \E g \in Generators :
                taken = [k \in 1..Len(heard) |-> heard[k].text] \o left[g]
    /\ stats.clauses_emitted = Len(heard)
    /\ emitted <= Len(heard)

\* The keys of the distinct uses since position k.
UsedSince(k) == {used[j] : j \in k..Len(used)}

\* The cache holds the latents of the last CacheSize things said, the longest
\* unused first; what comes out of it is what synthesis would have given; and
\* every clause was either a hit or a miss.
CacheIsLRU ==
    /\ Len(cache) = IF Cardinality(UsedSince(1)) < CacheSize
                      THEN Cardinality(UsedSince(1)) ELSE CacheSize
    /\ \A k \in 1..Len(cache) :
         \E j \in 1..Len(used) :
           /\ used[j] = cache[k].key
           /\ UsedSince(j + 1) = {cache[l].key : l \in (k + 1)..Len(cache)}
    /\ \A k \in 1..Len(heard) : heard[k].latents = LatentsFn(heard[k].text)
    /\ stats.hits + stats.misses = Len(heard)

\* text_norm.py:15: an abbreviation's period "does not read as a sentence
\* boundary": no clause ends in one while more text follows.
NoClauseEndsInAbbreviation ==
    \A k \in 1..Len(taken) :
      LET n == Len(taken[k]) IN
      ~(n > 1 /\ taken[k][n] = Mark(".") /\ WordAt(taken[k], n - 1, DOMAIN Abbreviations))
=============================================================================
