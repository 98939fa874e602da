-------------------------- MODULE IncrementalProofs --------------------------
(***************************************************************************)
(* Proofs, for any fragments, any min_chars, any cache size and any number *)
(* of suspended generators, of the clauses of Incremental, their order and *)
(* their numbering, of its cache, of what normalize() leaves, and that the *)
(* clauses, normalized one by one, say what the whole text says.           *)
(***************************************************************************)
EXTENDS Incremental, FiniteSetTheorems, SequenceTheorems, TLAPS

(* Counting up, and what a fold from the left leads to. *)

LEMMA CountingUp ==
    ASSUME NEW T, 0 \in T, \A n \in Nat : n \in T => n + 1 \in T
    PROVE  Nat \subseteq T
<1> SUFFICES ASSUME Nat \ T # {} PROVE FALSE
  OBVIOUS
<1>1. PICK x \in Nat \ T : \A y \in Nat \ T : ~(<<y, x>> \in OpToRel(<, Nat))
  <2>1. IsWellFoundedOn(OpToRel(<, Nat), Nat)
    BY NatLessThanWellFounded
  <2> QED BY <2>1, WFMin
<1>2. x - 1 \in Nat /\ x - 1 \in Nat \ T
  OBVIOUS
<1>3. <<x - 1, x>> \in OpToRel(<, Nat)
  BY <1>2 DEF OpToRel
<1> QED BY <1>1, <1>2, <1>3

LEMMA MaxOf ==
    ASSUME NEW n \in Nat, NEW s \in SUBSET (1..(n + 1)), n + 1 \in s
    PROVE  Max(s) = n + 1
<1>1. n + 1 \in s /\ \A y \in s : n + 1 >= y
  OBVIOUS
<1>2. Max(s) \in s /\ \A y \in s : Max(s) >= y
  <2>1. \E x : x \in s /\ \A y \in s : x >= y
    BY <1>1
  <2> QED BY <2>1 DEF Max
<1>3. Max(s) \in 1..(n + 1) /\ Max(s) >= n + 1
  BY <1>1, <1>2
<1> QED BY <1>3

\* What a fold makes of every set of positions, and of the first k positions.
IsFold(it, X, base, N, step) ==
    /\ it \in [SUBSET (1..N) -> X]
    /\ \A s \in SUBSET (1..N) :
         it[s] = IF s = {} THEN base ELSE step[<<it[s \ {Max(s)}], Max(s)>>]

Folds(F, X, base, N, step) ==
    /\ F[{}] = base
    /\ \A s \in SUBSET (1..N) :
         s # {} /\ F[s \ {Max(s)}] \in X => F[s] = step[<<F[s \ {Max(s)}], Max(s)>>]

InSteps(f, X, base, N, step, result) ==
    /\ f \in [0..N -> X] /\ f[0] = base /\ f[N] = result
    /\ \A k \in 1..N : f[k] = step[<<f[k - 1], k>>]

LEMMA FoldExists ==
    ASSUME NEW X, NEW base \in X, NEW N \in Nat, NEW step \in [X \X (1..N) -> X]
    PROVE  \E it : IsFold(it, X, base, N, step)
<1> DEFINE P(n) == \E it \in [SUBSET (1..n) -> X] :
                     \A s \in SUBSET (1..n) :
                       it[s] = IF s = {} THEN base ELSE step[<<it[s \ {Max(s)}], Max(s)>>]
           T == {n \in Nat : n <= N => P(n)}
<1>0. \A n \in Nat : n \in T <=> (n <= N => P(n))
  OBVIOUS
<1> HIDE DEF P, T
<1>1. 0 \in T
  <2>1. SUBSET (1..0) = {{}}
    OBVIOUS
  <2>2. P(0)
    <3> DEFINE it == [s \in {{}} |-> base]
    <3>1. it \in [SUBSET (1..0) -> X]
      BY <2>1
    <3> QED BY <2>1, <3>1 DEF P
  <2> QED BY <1>0, <2>2
<1>2. ASSUME NEW n \in Nat, n \in T, n + 1 <= N PROVE P(n + 1)
  <2>1. PICK it \in [SUBSET (1..n) -> X] :
           \A s \in SUBSET (1..n) :
             it[s] = IF s = {} THEN base ELSE step[<<it[s \ {Max(s)}], Max(s)>>]
    <3>1. P(n)
      BY <1>0, <1>2
    <3> QED BY <3>1 DEF P
  <2> DEFINE it2 == [s \in SUBSET (1..(n + 1)) |->
                       IF n + 1 \in s THEN step[<<it[s \ {n + 1}], n + 1>>] ELSE it[s]]
  <2>2. \A s \in SUBSET (1..(n + 1)) : s \ {n + 1} \in SUBSET (1..n)
    OBVIOUS
  <2>3. \A s \in SUBSET (1..(n + 1)) : n + 1 \notin s => s \in SUBSET (1..n)
    OBVIOUS
  <2>4. it2 \in [SUBSET (1..(n + 1)) -> X]
    <3> SUFFICES ASSUME NEW s \in SUBSET (1..(n + 1)) PROVE it2[s] \in X
      OBVIOUS
    <3>1. CASE n + 1 \in s
      <4>1. it[s \ {n + 1}] \in X /\ n + 1 \in 1..N
        BY <1>2, <2>2
      <4> QED BY <3>1, <4>1
    <3>2. CASE n + 1 \notin s
      BY <2>3, <3>2
    <3> QED BY <3>1, <3>2
  <2>5. ASSUME NEW s \in SUBSET (1..(n + 1))
        PROVE  it2[s] = IF s = {} THEN base ELSE step[<<it2[s \ {Max(s)}], Max(s)>>]
    <3>1. CASE n + 1 \in s
      <4>1. Max(s) = n + 1
        BY <3>1, MaxOf
      <4>2. it2[s \ {n + 1}] = it[s \ {n + 1}]
        BY <2>2
      <4> QED BY <3>1, <4>1, <4>2
    <3>2. CASE n + 1 \notin s
      <4>1. s \in SUBSET (1..n) /\ it2[s] = it[s]
        BY <2>3, <3>2
      <4>2. it2[s \ {Max(s)}] = it[s \ {Max(s)}]
        BY <3>2, <4>1
      <4> QED BY <2>1, <4>1, <4>2
    <3> QED BY <3>1, <3>2
  <2> HIDE DEF it2
  <2> QED BY <2>4, <2>5 DEF P
<1>3. \A n \in Nat : n \in T => n + 1 \in T
  BY <1>0, <1>2
<1>4. N \in T
  BY <1>1, <1>3, CountingUp
<1>5. P(N)
  BY <1>0, <1>4
<1> QED BY <1>5 DEF P, IsFold

LEMMA FoldSteps ==
    ASSUME NEW X, NEW base \in X, NEW N \in Nat, NEW step \in [X \X (1..N) -> X],
           NEW F, Folds(F, X, base, N, step)
    PROVE  \E f : InSteps(f, X, base, N, step, F[1..N])
<1> USE DEF Folds
<1> DEFINE f == [k \in 0..N |-> F[1..k]]
<1>1. ASSUME NEW k \in 0..(N - 1)
      PROVE  F[1..k] \in X => F[1..(k + 1)] = step[<<F[1..k], k + 1>>]
  <2>1. k \in Nat /\ k + 1 \in 1..N /\ 1..(k + 1) \in SUBSET (1..N) /\ k + 1 \in 1..(k + 1)
    OBVIOUS
  <2>2. Max(1..(k + 1)) = k + 1
    BY <2>1, MaxOf
  <2>3. (1..(k + 1)) \ {k + 1} = 1..k
    OBVIOUS
  <2> QED BY <2>1, <2>2, <2>3
<1> DEFINE T == {k \in Nat : k <= N => F[1..k] \in X}
<1>2. \A k \in Nat : k \in T <=> (k <= N => F[1..k] \in X)
  OBVIOUS
<1> HIDE DEF T
<1>3. 0 \in T
  <2>1. 1..0 = {}
    OBVIOUS
  <2> QED BY <1>2, <2>1
<1>4. ASSUME NEW k \in Nat, k \in T PROVE k + 1 \in T
  <2> SUFFICES ASSUME k + 1 <= N PROVE F[1..(k + 1)] \in X
    BY <1>2
  <2>1. k \in 0..(N - 1) /\ k + 1 \in 1..N /\ F[1..k] \in X
    BY <1>2, <1>4
  <2> QED BY <1>1, <2>1
<1>5. \A k \in 0..N : F[1..k] \in X
  <2>1. Nat \subseteq T
    BY <1>3, <1>4, CountingUp
  <2> QED BY <1>2, <2>1
<1>6. f \in [0..N -> X] /\ f[N] = F[1..N]
  BY <1>5
<1>7. f[0] = base
  <2>1. 1..0 = {}
    OBVIOUS
  <2> QED BY <2>1
<1>8. \A k \in 1..N : f[k] = step[<<f[k - 1], k>>]
  <2> SUFFICES ASSUME NEW k \in 1..N PROVE f[k] = step[<<f[k - 1], k>>]
    OBVIOUS
  <2>1. k - 1 \in 0..(N - 1) /\ (k - 1) + 1 = k /\ k - 1 \in 0..N
    OBVIOUS
  <2>2. F[1..k] = step[<<F[1..(k - 1)], k>>]
    BY <1>1, <1>5, <2>1
  <2> QED BY <2>1, <2>2
<1> HIDE DEF f
<1> QED BY <1>6, <1>7, <1>8 DEF InSteps

LEMMA Extremes ==
    ASSUME NEW n \in Nat, NEW s \in SUBSET (1..n), s # {}
    PROVE  /\ \E i \in s : \A j \in s : i <= j
           /\ \E i \in s : \A j \in s : i >= j
<1>1. ASSUME NEW t \in SUBSET Nat, t # {} PROVE \E i \in t : \A j \in t : i <= j
  <2>1. IsWellFoundedOn(OpToRel(<, Nat), Nat)
    BY NatLessThanWellFounded
  <2>2. PICK i \in t : \A j \in t : ~(<<j, i>> \in OpToRel(<, Nat))
    BY <1>1, <2>1, WFMin
  <2>3. ASSUME NEW j \in t PROVE i <= j
    <3>1. i \in Nat /\ j \in Nat
      OBVIOUS
    <3>2. j < i => <<j, i>> \in OpToRel(<, Nat)
      BY <3>1 DEF OpToRel
    <3>3. ~(j < i)
      BY <2>2, <3>2, Zenon
    <3> QED BY <3>1, <3>3
  <2> QED BY <2>3
<1>2. \E i \in s : \A j \in s : i <= j
  <2>1. s \in SUBSET Nat
    OBVIOUS
  <2> QED BY <1>1, <2>1
<1> DEFINE T == {n - i : i \in s}
<1>3. PICK m \in T : \A l \in T : m <= l
  <2>1. \A i \in s : n - i \in Nat
    OBVIOUS
  <2>2. T \in SUBSET Nat /\ T # {}
    BY <2>1
  <2> HIDE DEF T
  <2> QED BY <1>1, <2>2
<1>4. PICK i \in s : m = n - i
  BY <1>3
<1>5. ASSUME NEW j \in s PROVE i >= j
  <2>1. n - i <= n - j
    BY <1>3, <1>4
  <2>2. i \in Nat /\ j \in Nat
    OBVIOUS
  <2> QED BY <2>1, <2>2
<1> QED BY <1>2, <1>5
------------------------------------------------------------------------------
(* The clauses of a text are texts. *)

Lexemes == Lexeme \cup {Space}
Texts   == Seq(Lexemes)
Clauses == Seq(Texts)

LEMMA EndsType ==
    ASSUME NEW X, NEW s \in Seq(X), s # <<>>
    PROVE  /\ Len(s) \in Nat \ {0} /\ Last(s) = s[Len(s)] /\ Last(s) \in X
           /\ Front(s) \in Seq(X) /\ Len(Front(s)) = Len(s) - 1
           /\ \A i \in 1..(Len(s) - 1) : Front(s)[i] = s[i]
<1>1. Len(s) \in Nat \ {0} /\ Len(s) \in 1..Len(s)
  OBVIOUS
<1>2. Last(s) = s[Len(s)] /\ Last(s) \in X
  BY <1>1 DEF Last
<1>3. Front(s) = SubSeq(s, 1, Len(s) - 1)
  BY DEF Front
<1>4. SubSeq(s, 1, Len(s) - 1) \in Seq(X) /\ Len(SubSeq(s, 1, Len(s) - 1)) = Len(s) - 1
  BY <1>1, SubSeqProperties
<1>5. \A i \in 1..(Len(s) - 1) : SubSeq(s, 1, Len(s) - 1)[i] = s[i]
  BY <1>1
<1> QED BY <1>1, <1>2, <1>3, <1>4, <1>5

LEMMA StripKeeps ==
    ASSUME NEW X, NEW t \in Seq(X)
    PROVE  Strip(t) \in Seq(X)
<1> DEFINE S == {i \in 1..Len(t) : t[i] # Space}
<1>1. CASE S = {}
  BY <1>1 DEF Strip
<1>2. CASE S # {}
  <2> DEFINE a == CHOOSE i \in S : \A j \in S : i <= j
             b == CHOOSE i \in S : \A j \in S : i >= j
  <2>1. Len(t) \in Nat /\ S \in SUBSET (1..Len(t))
    OBVIOUS
  <2>2. /\ \E i \in S : \A j \in S : i <= j
        /\ \E i \in S : \A j \in S : i >= j
    BY <1>2, <2>1, Extremes
  <2>3. a \in 1..Len(t) /\ b \in 1..Len(t)
    BY <2>1, <2>2
  <2>4. Strip(t) = SubSeq(t, a, b)
    BY <1>2 DEF Strip
  <2> HIDE DEF a, b
  <2> QED BY <2>3, <2>4, SubSeqProperties
<1> QED BY <1>1, <1>2

LEMMA StripType ==
    ASSUME NEW t \in Texts
    PROVE  Strip(t) \in Texts
BY StripKeeps DEF Texts

LEMMA Largest ==
    ASSUME NEW n \in Nat, NEW s \in SUBSET (1..n), s # {}
    PROVE  Max(s) \in s
BY Extremes DEF Max

LEMMA ReadType ==
    ASSUME NEW pieces \in Clauses, NEW x \in Lexemes
    PROVE  Read(pieces, x) \in Clauses
<1>1. <<>> \in Texts /\ <<x>> \in Texts /\ <<<<x>>>> \in Clauses
  BY DEF Texts, Clauses
<1>2. CASE pieces = <<>>
  BY <1>1, <1>2 DEF Read, Clauses
<1>3. CASE pieces # <<>>
  <2>1. Last(pieces) \in Texts /\ Front(pieces) \in Clauses
    BY <1>3, EndsType DEF Clauses
  <2>2. Append(Last(pieces), x) \in Texts /\ Append(pieces, <<>>) \in Clauses
    BY <1>1, <2>1 DEF Texts, Clauses
  <2>3. Append(Front(pieces), Append(Last(pieces), x)) \in Clauses
    BY <2>1, <2>2 DEF Clauses
  <2> QED BY <1>3, <2>2, <2>3 DEF Read
<1> QED BY <1>2, <1>3

\* The pieces of the first k lexemes of a text.
LEMMA PiecesSteps ==
    ASSUME NEW t \in Texts
    PROVE  \E f \in [0..Len(t) -> Clauses] :
             /\ f[0] = <<>> /\ f[Len(t)] = Pieces(t)
             /\ \A k \in 1..Len(t) : f[k] = Read(f[k - 1], t[k])
<1> DEFINE N == Len(t)
           step == [p \in Clauses \X (1..N) |-> Read(p[1], t[p[2]])]
           F == CHOOSE it : it = [s \in SUBSET DOMAIN t |->
                  IF s = {} THEN <<>> ELSE Read(it[s \ {Max(s)}], t[Max(s)])]
<1>1. N = Len(t) /\ N \in Nat /\ DOMAIN t = 1..N /\ \A k \in 1..N : t[k] \in Lexemes
  BY DEF Texts
<1>2. <<>> \in Clauses
  BY DEF Clauses
<1>3. step \in [Clauses \X (1..N) -> Clauses]
  BY <1>1, ReadType
<1>4. Pieces(t) = F[DOMAIN t]
  BY Zenon DEF Pieces, FoldLeft, MapThenFoldSet
<1>5. \A p \in Clauses, k \in 1..N : step[<<p, k>>] = Read(p, t[k])
  OBVIOUS
<1> HIDE DEF step, N
<1>6. F = [s \in SUBSET DOMAIN t |->
             IF s = {} THEN <<>> ELSE Read(F[s \ {Max(s)}], t[Max(s)])]
  <2>0. PICK it : IsFold(it, Clauses, <<>>, N, step)
    BY <1>1, <1>2, <1>3, FoldExists
  <2>1. /\ it \in [SUBSET (1..N) -> Clauses]
        /\ \A s \in SUBSET (1..N) :
             it[s] = IF s = {} THEN <<>> ELSE step[<<it[s \ {Max(s)}], Max(s)>>]
    BY <2>0 DEF IsFold
  <2>2. \A s \in SUBSET (1..N) :
           it[s] = IF s = {} THEN <<>> ELSE Read(it[s \ {Max(s)}], t[Max(s)])
    BY <1>1, <1>5, <2>1, Largest
  <2>3. it = [s \in SUBSET DOMAIN t |->
                IF s = {} THEN <<>> ELSE Read(it[s \ {Max(s)}], t[Max(s)])]
    BY <1>1, <2>1, <2>2
  <2> QED BY <2>3, Zenon
<1> HIDE DEF F
<1>7. Folds(F, Clauses, <<>>, N, step)
  <2>1. F[{}] = <<>>
    BY <1>6
  <2>2. ASSUME NEW s \in SUBSET (1..N), s # {}, F[s \ {Max(s)}] \in Clauses
        PROVE  F[s] = step[<<F[s \ {Max(s)}], Max(s)>>]
    <3>1. s \in SUBSET DOMAIN t /\ Max(s) \in 1..N
      BY <1>1, <2>2, Largest
    <3>2. F[s] = Read(F[s \ {Max(s)}], t[Max(s)])
      BY <1>6, <2>2, <3>1
    <3> QED BY <1>5, <2>2, <3>1, <3>2
  <2> QED BY <2>1, <2>2 DEF Folds
<1>8. PICK f : InSteps(f, Clauses, <<>>, N, step, F[1..N])
  BY <1>1, <1>2, <1>3, <1>7, FoldSteps
<1>9. /\ f \in [0..N -> Clauses] /\ f[0] = <<>> /\ f[N] = F[1..N]
      /\ \A k \in 1..N : f[k] = step[<<f[k - 1], k>>]
  BY <1>8 DEF InSteps
<1>10. \A k \in 1..N : k - 1 \in 0..N /\ f[k - 1] \in Clauses
  BY <1>1, <1>9
<1>11. \A k \in 1..N : f[k] = Read(f[k - 1], t[k])
  BY <1>5, <1>9, <1>10
<1> QED BY <1>1, <1>4, <1>9, <1>11

LEMMA PiecesType ==
    ASSUME NEW t \in Texts
    PROVE  Pieces(t) \in Clauses
<1>1. Len(t) \in 0..Len(t)
  BY DEF Texts
<1> QED BY <1>1, PiecesSteps

LEMMA KeptType ==
    ASSUME NEW parts \in Clauses, NEW piece \in Texts
    PROVE  Kept(parts, piece) \in Clauses
BY StripType DEF Kept, Clauses

\* The sentences among the first k pieces.
LEMMA SentencesSteps ==
    ASSUME NEW P \in Clauses
    PROVE  \E f \in [0..Len(P) -> Clauses] :
             /\ f[0] = <<>> /\ f[Len(P)] = Sentences(P)
             /\ \A k \in 1..Len(P) : f[k] = Kept(f[k - 1], P[k])
<1> DEFINE N == Len(P)
           step == [p \in Clauses \X (1..N) |-> Kept(p[1], P[p[2]])]
           F == CHOOSE it : it = [s \in SUBSET DOMAIN P |->
                  IF s = {} THEN <<>> ELSE Kept(it[s \ {Max(s)}], P[Max(s)])]
<1>1. N = Len(P) /\ N \in Nat /\ DOMAIN P = 1..N /\ \A k \in 1..N : P[k] \in Texts
  BY DEF Clauses
<1>2. <<>> \in Clauses
  BY DEF Clauses
<1>3. step \in [Clauses \X (1..N) -> Clauses]
  BY <1>1, KeptType
<1>4. Sentences(P) = F[DOMAIN P]
  BY Zenon DEF Sentences, FoldLeft, MapThenFoldSet
<1>5. \A p \in Clauses, k \in 1..N : step[<<p, k>>] = Kept(p, P[k])
  OBVIOUS
<1> HIDE DEF step, N
<1>6. F = [s \in SUBSET DOMAIN P |->
             IF s = {} THEN <<>> ELSE Kept(F[s \ {Max(s)}], P[Max(s)])]
  <2>1. PICK it : IsFold(it, Clauses, <<>>, N, step)
    BY <1>1, <1>2, <1>3, FoldExists
  <2>2. /\ it \in [SUBSET (1..N) -> Clauses]
        /\ \A s \in SUBSET (1..N) :
             it[s] = IF s = {} THEN <<>> ELSE step[<<it[s \ {Max(s)}], Max(s)>>]
    BY <2>1 DEF IsFold
  <2>3. \A s \in SUBSET (1..N) :
           it[s] = IF s = {} THEN <<>> ELSE Kept(it[s \ {Max(s)}], P[Max(s)])
    BY <1>1, <1>5, <2>2, Largest
  <2>4. it = [s \in SUBSET DOMAIN P |->
                IF s = {} THEN <<>> ELSE Kept(it[s \ {Max(s)}], P[Max(s)])]
    BY <1>1, <2>2, <2>3
  <2> QED BY <2>4, Zenon
<1> HIDE DEF F
<1>7. Folds(F, Clauses, <<>>, N, step)
  <2>1. F[{}] = <<>>
    BY <1>6
  <2>2. ASSUME NEW s \in SUBSET (1..N), s # {}, F[s \ {Max(s)}] \in Clauses
        PROVE  F[s] = step[<<F[s \ {Max(s)}], Max(s)>>]
    <3>1. s \in SUBSET DOMAIN P /\ Max(s) \in 1..N
      BY <1>1, <2>2, Largest
    <3>2. F[s] = Kept(F[s \ {Max(s)}], P[Max(s)])
      BY <1>6, <2>2, <3>1
    <3> QED BY <1>5, <2>2, <3>1, <3>2
  <2> QED BY <2>1, <2>2 DEF Folds
<1>8. PICK f : InSteps(f, Clauses, <<>>, N, step, F[1..N])
  BY <1>1, <1>2, <1>3, <1>7, FoldSteps
<1>9. /\ f \in [0..N -> Clauses] /\ f[0] = <<>> /\ f[N] = F[1..N]
      /\ \A k \in 1..N : f[k] = step[<<f[k - 1], k>>]
  BY <1>8 DEF InSteps
<1>10. \A k \in 1..N : k - 1 \in 0..N /\ f[k - 1] \in Clauses
  BY <1>1, <1>9
<1>11. \A k \in 1..N : f[k] = Kept(f[k - 1], P[k])
  BY <1>5, <1>9, <1>10
<1> QED BY <1>1, <1>4, <1>9, <1>11

LEMMA SentencesType ==
    ASSUME NEW P \in Clauses
    PROVE  Sentences(P) \in Clauses
<1>1. Len(P) \in 0..Len(P)
  BY DEF Clauses
<1> QED BY <1>1, SentencesSteps

LEMMA GluedType ==
    ASSUME NEW out \in Clauses, NEW part \in Texts, NEW n
    PROVE  Glued(out, part, n) \in Clauses
<1>1. CASE out = <<>>
  BY <1>1 DEF Glued, Clauses
<1>2. CASE out # <<>>
  <2>1. Last(out) \in Texts /\ Front(out) \in Clauses
    BY <1>2, EndsType DEF Clauses
  <2>2. <<Space>> \in Texts
    BY DEF Texts, Lexemes
  <2>3. Last(out) \o <<Space>> \o part \in Texts
    BY <2>1, <2>2 DEF Texts
  <2> QED BY <2>1, <2>3 DEF Glued, Clauses
<1> QED BY <1>1, <1>2

\* The clauses of the first k sentences.
LEMMA GluedSteps ==
    ASSUME NEW S \in Clauses, NEW n
    PROVE  \E f \in [0..Len(S) -> Clauses] :
             /\ f[0] = <<>> /\ f[Len(S)] = Merged(S, n)
             /\ \A k \in 1..Len(S) : f[k] = Glued(f[k - 1], S[k], n)
<1> DEFINE N == Len(S)
           step == [p \in Clauses \X (1..N) |-> Glued(p[1], S[p[2]], n)]
           F == CHOOSE it : it = [s \in SUBSET DOMAIN S |->
                  IF s = {} THEN <<>> ELSE Glued(it[s \ {Max(s)}], S[Max(s)], n)]
<1>1. N = Len(S) /\ N \in Nat /\ DOMAIN S = 1..N /\ \A k \in 1..N : S[k] \in Texts
  BY DEF Clauses
<1>2. <<>> \in Clauses
  BY DEF Clauses
<1>3. step \in [Clauses \X (1..N) -> Clauses]
  BY <1>1, GluedType
<1>4. Merged(S, n) = F[DOMAIN S]
  BY Zenon DEF Merged, FoldLeft, MapThenFoldSet
<1>5. \A p \in Clauses, k \in 1..N : step[<<p, k>>] = Glued(p, S[k], n)
  OBVIOUS
<1> HIDE DEF step, N
<1>6. F = [s \in SUBSET DOMAIN S |->
             IF s = {} THEN <<>> ELSE Glued(F[s \ {Max(s)}], S[Max(s)], n)]
  <2>1. PICK it : IsFold(it, Clauses, <<>>, N, step)
    BY <1>1, <1>2, <1>3, FoldExists
  <2>2. /\ it \in [SUBSET (1..N) -> Clauses]
        /\ \A s \in SUBSET (1..N) :
             it[s] = IF s = {} THEN <<>> ELSE step[<<it[s \ {Max(s)}], Max(s)>>]
    BY <2>1 DEF IsFold
  <2>3. \A s \in SUBSET (1..N) :
           it[s] = IF s = {} THEN <<>> ELSE Glued(it[s \ {Max(s)}], S[Max(s)], n)
    BY <1>1, <1>5, <2>2, Largest
  <2>4. it = [s \in SUBSET DOMAIN S |->
                IF s = {} THEN <<>> ELSE Glued(it[s \ {Max(s)}], S[Max(s)], n)]
    BY <1>1, <2>2, <2>3
  <2> QED BY <2>4, Zenon
<1> HIDE DEF F
<1>7. Folds(F, Clauses, <<>>, N, step)
  <2>1. F[{}] = <<>>
    BY <1>6
  <2>2. ASSUME NEW s \in SUBSET (1..N), s # {}, F[s \ {Max(s)}] \in Clauses
        PROVE  F[s] = step[<<F[s \ {Max(s)}], Max(s)>>]
    <3>1. s \in SUBSET DOMAIN S /\ Max(s) \in 1..N
      BY <1>1, <2>2, Largest
    <3>2. F[s] = Glued(F[s \ {Max(s)}], S[Max(s)], n)
      BY <1>6, <2>2, <3>1
    <3> QED BY <1>5, <2>2, <3>1, <3>2
  <2> QED BY <2>1, <2>2 DEF Folds
<1>8. PICK f : InSteps(f, Clauses, <<>>, N, step, F[1..N])
  BY <1>1, <1>2, <1>3, <1>7, FoldSteps
<1>9. /\ f \in [0..N -> Clauses] /\ f[0] = <<>> /\ f[N] = F[1..N]
      /\ \A k \in 1..N : f[k] = step[<<f[k - 1], k>>]
  BY <1>8 DEF InSteps
<1>10. \A k \in 1..N : k - 1 \in 0..N /\ f[k - 1] \in Clauses
  BY <1>1, <1>9
<1>11. \A k \in 1..N : f[k] = Glued(f[k - 1], S[k], n)
  BY <1>5, <1>9, <1>10
<1> QED BY <1>1, <1>4, <1>9, <1>11

LEMMA MergedType ==
    ASSUME NEW S \in Clauses, NEW n
    PROVE  Merged(S, n) \in Clauses
<1>1. Len(S) \in 0..Len(S)
  BY DEF Clauses
<1> QED BY <1>1, GluedSteps

LEMMA SplitType ==
    ASSUME NEW t \in Texts, NEW n
    PROVE  SplitForStreaming(t, n) \in Clauses
BY PiecesType, SentencesType, MergedType DEF SplitForStreaming

------------------------------------------------------------------------------
(* A text that grows: what has been cut stays cut. *)

------------------------------------------------------------------------------
(* One element more, and texts in two parts. *)

\* What holds of the empty sequence and is kept by one element more holds of all.
LEMMA OneByOne ==
    ASSUME NEW X, NEW T, <<>> \in T,
           \A s \in Seq(X), x \in X : s \in T => Append(s, x) \in T
    PROVE  Seq(X) \subseteq T
<1> DEFINE L == {n \in Nat : \A s \in Seq(X) : Len(s) = n => s \in T}
<1>1. \A n \in Nat : n \in L <=> \A s \in Seq(X) : Len(s) = n => s \in T
  OBVIOUS
<1> HIDE DEF L
<1>2. 0 \in L
  <2>1. \A s \in Seq(X) : Len(s) = 0 => s = <<>>
    BY EmptySeq
  <2> QED BY <1>1, <2>1
<1>3. ASSUME NEW n \in Nat, n \in L PROVE n + 1 \in L
  <2> SUFFICES ASSUME NEW s \in Seq(X), Len(s) = n + 1 PROVE s \in T
    BY <1>1
  <2>1. PICK r \in Seq(X), x \in X : s = Append(r, x)
    <3>1. s # <<>>
      OBVIOUS
    <3> QED BY <3>1, SequenceEmptyOrAppend
  <2>2. Len(r) = n
    <3>1. Len(Append(r, x)) = Len(r) + 1 /\ Len(r) \in Nat
      BY AppendProperties
    <3> QED BY <2>1, <3>1
  <2>3. r \in T
    BY <1>1, <1>3, <2>2
  <2> QED BY <2>1, <2>3
<1>4. Nat \subseteq L
  BY <1>2, <1>3, CountingUp
<1>5. ASSUME NEW s \in Seq(X) PROVE s \in T
  <2>1. Len(s) \in Nat
    OBVIOUS
  <2> QED BY <1>1, <1>4, <2>1
<1> QED BY <1>5

LEMMA Ends2 ==
    ASSUME NEW X, NEW s \in Seq(X), NEW x \in X
    PROVE  /\ Append(s, x) \in Seq(X) /\ Append(s, x) # <<>>
           /\ Last(Append(s, x)) = x /\ Front(Append(s, x)) = s
<1> DEFINE a == Append(s, x)
<1>1. /\ a \in Seq(X) /\ Len(a) = Len(s) + 1 /\ Len(s) \in Nat
      /\ a[Len(s) + 1] = x /\ \A i \in 1..Len(s) : a[i] = s[i]
  BY AppendProperties
<1> HIDE DEF a
<1>2. a # <<>>
  BY <1>1
<1>3. Last(a) = x /\ Front(a) \in Seq(X) /\ Len(Front(a)) = Len(s)
      /\ \A i \in 1..Len(s) : Front(a)[i] = s[i]
  BY <1>1, <1>2, EndsType
<1>4. Front(a) = s
  BY <1>3, SeqEqual
<1> QED BY <1>1, <1>2, <1>3, <1>4 DEF a

\* Two runs that take the same steps go the same way.
Runs(f, N, step) == \A k \in 1..N : f[k] = step[<<f[k - 1], k>>]

LEMMA RunsAgree ==
    ASSUME NEW N \in Nat, NEW f, NEW g, NEW step, f[0] = g[0],
           Runs(f, N, step), Runs(g, N, step)
    PROVE  f[N] = g[N]
<1>0. \A k \in 1..N : f[k] = step[<<f[k - 1], k>>] /\ g[k] = step[<<g[k - 1], k>>]
  BY DEF Runs
<1> DEFINE T == {k \in Nat : k <= N => f[k] = g[k]}
<1>1. \A k \in Nat : k \in T <=> (k <= N => f[k] = g[k])
  OBVIOUS
<1> HIDE DEF T
<1>2. 0 \in T
  BY <1>1
<1>3. ASSUME NEW k \in Nat, k \in T PROVE k + 1 \in T
  <2> SUFFICES ASSUME k + 1 <= N PROVE f[k + 1] = g[k + 1]
    BY <1>1
  <2>1. k + 1 \in 1..N /\ (k + 1) - 1 = k /\ f[k] = g[k]
    BY <1>1, <1>3
  <2> QED BY <1>0, <2>1
<1>4. Nat \subseteq T
  BY <1>2, <1>3, CountingUp
<1> QED BY <1>1, <1>4
\* One lexeme, piece or sentence more is one step more of the fold.
LEMMA PiecesAppend ==
    ASSUME NEW t \in Texts, NEW x \in Lexemes
    PROVE  Pieces(<<>>) = <<>> /\ Pieces(Append(t, x)) = Read(Pieces(t), x)
<1>1. Pieces(<<>>) = <<>>
  <2>1. <<>> \in Texts /\ Len(<<>>) = 0
    BY DEF Texts
  <2>2. PICK f \in [0..Len(<<>>) -> Clauses] : f[0] = <<>> /\ f[Len(<<>>)] = Pieces(<<>>)
    BY <2>1, PiecesSteps
  <2> QED BY <2>1, <2>2
<1> DEFINE u == Append(t, x)
           N == Len(t)
           step == [p \in Clauses \X (1..N) |-> Read(p[1], t[p[2]])]
<1>2. /\ u \in Texts /\ Len(u) = N + 1 /\ N \in Nat /\ u[N + 1] = x
      /\ \A k \in 1..N : u[k] = t[k]
  BY AppendProperties DEF Texts
<1>3. PICK f \in [0..N -> Clauses] :
        /\ f[0] = <<>> /\ f[N] = Pieces(t)
        /\ \A k \in 1..N : f[k] = Read(f[k - 1], t[k])
  BY PiecesSteps
<1>4. PICK g \in [0..Len(u) -> Clauses] :
        /\ g[0] = <<>> /\ g[Len(u)] = Pieces(u)
        /\ \A k \in 1..Len(u) : g[k] = Read(g[k - 1], u[k])
  BY <1>2, PiecesSteps
<1>5. \A p \in Clauses, k \in 1..N : step[<<p, k>>] = Read(p, t[k])
  OBVIOUS
<1> HIDE DEF u, N, step
<1>6. \A k \in 1..N : f[k] = step[<<f[k - 1], k>>] /\ g[k] = step[<<g[k - 1], k>>]
  <2> SUFFICES ASSUME NEW k \in 1..N
               PROVE  f[k] = step[<<f[k - 1], k>>] /\ g[k] = step[<<g[k - 1], k>>]
    OBVIOUS
  <2>1. k - 1 \in 0..N /\ k \in 1..Len(u) /\ k - 1 \in 0..Len(u) /\ u[k] = t[k]
    BY <1>2
  <2>2. f[k - 1] \in Clauses /\ g[k - 1] \in Clauses
    BY <2>1
  <2> QED BY <1>3, <1>4, <1>5, <2>1, <2>2
<1>7. f[N] = g[N]
  <2>1. f[0] = g[0] /\ N \in 0..N
    BY <1>2, <1>3, <1>4
  <2>2. Runs(f, N, step) /\ Runs(g, N, step)
    BY <1>6 DEF Runs
  <2> QED BY <1>2, <2>1, <2>2, RunsAgree
<1>8. Pieces(u) = Read(g[N], x)
  <2>1. N + 1 \in 1..Len(u) /\ (N + 1) - 1 = N
    BY <1>2
  <2> QED BY <1>2, <1>4, <2>1
<1> QED BY <1>1, <1>3, <1>7, <1>8 DEF u

LEMMA SentencesAppend ==
    ASSUME NEW P \in Clauses, NEW p \in Texts
    PROVE  Sentences(<<>>) = <<>> /\ Sentences(Append(P, p)) = Kept(Sentences(P), p)
<1>1. Sentences(<<>>) = <<>>
  <2>1. <<>> \in Clauses /\ Len(<<>>) = 0
    BY DEF Clauses
  <2>2. PICK f \in [0..Len(<<>>) -> Clauses] : f[0] = <<>> /\ f[Len(<<>>)] = Sentences(<<>>)
    BY <2>1, SentencesSteps
  <2> QED BY <2>1, <2>2
<1> DEFINE U == Append(P, p)
           N == Len(P)
           step == [q \in Clauses \X (1..N) |-> Kept(q[1], P[q[2]])]
<1>2. /\ U \in Clauses /\ Len(U) = N + 1 /\ N \in Nat /\ U[N + 1] = p
      /\ \A k \in 1..N : U[k] = P[k]
  BY AppendProperties DEF Clauses
<1>3. PICK f \in [0..N -> Clauses] :
        /\ f[0] = <<>> /\ f[N] = Sentences(P)
        /\ \A k \in 1..N : f[k] = Kept(f[k - 1], P[k])
  BY SentencesSteps
<1>4. PICK g \in [0..Len(U) -> Clauses] :
        /\ g[0] = <<>> /\ g[Len(U)] = Sentences(U)
        /\ \A k \in 1..Len(U) : g[k] = Kept(g[k - 1], U[k])
  BY <1>2, SentencesSteps
<1>5. \A q \in Clauses, k \in 1..N : step[<<q, k>>] = Kept(q, P[k])
  OBVIOUS
<1> HIDE DEF U, N, step
<1>6. \A k \in 1..N : f[k] = step[<<f[k - 1], k>>] /\ g[k] = step[<<g[k - 1], k>>]
  <2> SUFFICES ASSUME NEW k \in 1..N
               PROVE  f[k] = step[<<f[k - 1], k>>] /\ g[k] = step[<<g[k - 1], k>>]
    OBVIOUS
  <2>1. k - 1 \in 0..N /\ k \in 1..Len(U) /\ k - 1 \in 0..Len(U) /\ U[k] = P[k]
    BY <1>2
  <2>2. f[k - 1] \in Clauses /\ g[k - 1] \in Clauses
    BY <2>1
  <2> QED BY <1>3, <1>4, <1>5, <2>1, <2>2
<1>7. f[N] = g[N]
  <2>1. f[0] = g[0] /\ N \in 0..N
    BY <1>2, <1>3, <1>4
  <2>2. Runs(f, N, step) /\ Runs(g, N, step)
    BY <1>6 DEF Runs
  <2> QED BY <1>2, <2>1, <2>2, RunsAgree
<1>8. Sentences(U) = Kept(g[N], p)
  <2>1. N + 1 \in 1..Len(U) /\ (N + 1) - 1 = N
    BY <1>2
  <2> QED BY <1>2, <1>4, <2>1
<1> QED BY <1>1, <1>3, <1>7, <1>8 DEF U

LEMMA MergedAppend ==
    ASSUME NEW S \in Clauses, NEW s \in Texts, NEW n
    PROVE  Merged(<<>>, n) = <<>> /\ Merged(Append(S, s), n) = Glued(Merged(S, n), s, n)
<1>1. Merged(<<>>, n) = <<>>
  <2>1. <<>> \in Clauses /\ Len(<<>>) = 0
    BY DEF Clauses
  <2>2. PICK f \in [0..Len(<<>>) -> Clauses] : f[0] = <<>> /\ f[Len(<<>>)] = Merged(<<>>, n)
    BY <2>1, GluedSteps
  <2> QED BY <2>1, <2>2
<1> DEFINE U == Append(S, s)
           N == Len(S)
           step == [q \in Clauses \X (1..N) |-> Glued(q[1], S[q[2]], n)]
<1>2. /\ U \in Clauses /\ Len(U) = N + 1 /\ N \in Nat /\ U[N + 1] = s
      /\ \A k \in 1..N : U[k] = S[k]
  BY AppendProperties DEF Clauses
<1>3. PICK f \in [0..N -> Clauses] :
        /\ f[0] = <<>> /\ f[N] = Merged(S, n)
        /\ \A k \in 1..N : f[k] = Glued(f[k - 1], S[k], n)
  BY GluedSteps
<1>4. PICK g \in [0..Len(U) -> Clauses] :
        /\ g[0] = <<>> /\ g[Len(U)] = Merged(U, n)
        /\ \A k \in 1..Len(U) : g[k] = Glued(g[k - 1], U[k], n)
  BY <1>2, GluedSteps
<1>5. \A q \in Clauses, k \in 1..N : step[<<q, k>>] = Glued(q, S[k], n)
  OBVIOUS
<1> HIDE DEF U, N, step
<1>6. \A k \in 1..N : f[k] = step[<<f[k - 1], k>>] /\ g[k] = step[<<g[k - 1], k>>]
  <2> SUFFICES ASSUME NEW k \in 1..N
               PROVE  f[k] = step[<<f[k - 1], k>>] /\ g[k] = step[<<g[k - 1], k>>]
    OBVIOUS
  <2>1. k - 1 \in 0..N /\ k \in 1..Len(U) /\ k - 1 \in 0..Len(U) /\ U[k] = S[k]
    BY <1>2
  <2>2. f[k - 1] \in Clauses /\ g[k - 1] \in Clauses
    BY <2>1
  <2> QED BY <1>3, <1>4, <1>5, <2>1, <2>2
<1>7. f[N] = g[N]
  <2>1. f[0] = g[0] /\ N \in 0..N
    BY <1>2, <1>3, <1>4
  <2>2. Runs(f, N, step) /\ Runs(g, N, step)
    BY <1>6 DEF Runs
  <2> QED BY <1>2, <2>1, <2>2, RunsAgree
<1>8. Merged(U, n) = Glued(g[N], s, n)
  <2>1. N + 1 \in 1..Len(U) /\ (N + 1) - 1 = N
    BY <1>2
  <2> QED BY <1>2, <1>4, <2>1
<1> QED BY <1>1, <1>3, <1>7, <1>8 DEF U

\* Texts put together.
LEMMA PutTogether ==
    ASSUME NEW X, NEW s \in Seq(X), NEW t \in Seq(X), NEW x \in X
    PROVE  /\ s \o Append(t, x) = Append(s \o t, x)
           /\ s \o <<>> = s /\ <<>> \o s = s
           /\ s \o <<x>> = Append(s, x)
           /\ t # <<>> => /\ s \o t \in Seq(X) /\ s \o t # <<>> /\ Last(s \o t) = Last(t)
                          /\ Front(s \o t) = s \o Front(t)
<1>1. s \o <<x>> = Append(s, x) /\ t \o <<x>> = Append(t, x) /\ <<x>> \in Seq(X)
  BY AppendIsConcat
<1>2. s \o t \in Seq(X) /\ (s \o t) \o <<x>> = Append(s \o t, x)
  <2> DEFINE c == s \o t
  <2>1. c \in Seq(X)
    BY ConcatProperties
  <2> HIDE DEF c
  <2>2. c \o <<x>> = Append(c, x)
    BY <2>1, AppendIsConcat
  <2> QED BY <2>1, <2>2 DEF c
<1>3. s \o (t \o <<x>>) = (s \o t) \o <<x>>
  BY <1>1, ConcatAssociative
<1>4. s \o <<>> = s /\ <<>> \o s = s
  BY ConcatEmptySeq
<1>5. ASSUME t # <<>>
      PROVE  /\ s \o t # <<>> /\ Last(s \o t) = Last(t) /\ Front(s \o t) = s \o Front(t)
  <2>1. PICK r \in Seq(X), l \in X : t = Append(r, l)
    BY <1>5, SequenceEmptyOrAppend
  <2>2. Last(t) = l /\ Front(t) = r
    BY <2>1, Ends2
  <2>3. s \o t = Append(s \o r, l) /\ s \o r \in Seq(X)
    <3>1. t = r \o <<l>> /\ <<l>> \in Seq(X)
      BY <2>1, AppendIsConcat
    <3>2. s \o t = (s \o r) \o <<l>>
      BY <3>1, ConcatAssociative
    <3> DEFINE c == s \o r
    <3>3. c \in Seq(X)
      BY ConcatProperties
    <3> HIDE DEF c
    <3>4. c \o <<l>> = Append(c, l)
      BY <3>3, AppendIsConcat
    <3> QED BY <3>2, <3>3, <3>4 DEF c
  <2> DEFINE d == s \o r
  <2>4. d \in Seq(X) /\ s \o t = Append(d, l)
    BY <2>3
  <2> HIDE DEF d
  <2>5. Append(d, l) # <<>> /\ Last(Append(d, l)) = l /\ Front(Append(d, l)) = d
    BY <2>4, Ends2
  <2> QED BY <2>2, <2>4, <2>5 DEF d
<1> QED BY <1>1, <1>2, <1>3, <1>4, <1>5
(* What strip() leaves. *)

NonSpaces(t) == {i \in 1..Len(t) : t[i] # Space}

LEMMA StripShape ==
    ASSUME NEW t \in Texts
    PROVE  /\ NonSpaces(t) = {} => Strip(t) = <<>>
           /\ NonSpaces(t) # {} =>
                \E a, b \in NonSpaces(t) :
                  /\ \A i \in NonSpaces(t) : a <= i /\ i <= b
                  /\ Strip(t) = SubSeq(t, a, b)
<1> DEFINE S == {i \in 1..Len(t) : t[i] # Space}
<1>1. ASSUME S = {} PROVE Strip(t) = <<>>
  BY <1>1 DEF Strip
<1>2. ASSUME S # {}
      PROVE  \E a, b \in S : (\A i \in S : a <= i /\ i <= b) /\ Strip(t) = SubSeq(t, a, b)
  <2> DEFINE a == CHOOSE i \in S : \A j \in S : i <= j
             b == CHOOSE i \in S : \A j \in S : i >= j
  <2>1. Len(t) \in Nat /\ S \in SUBSET (1..Len(t))
    BY DEF Texts
  <2>2. /\ \E i \in S : \A j \in S : i <= j
        /\ \E i \in S : \A j \in S : i >= j
    BY <1>2, <2>1, Extremes
  <2>3. a \in S /\ b \in S /\ (\A i \in S : a <= i) /\ (\A i \in S : b >= i)
    BY <2>2
  <2>4. Strip(t) = SubSeq(t, a, b)
    BY <1>2 DEF Strip
  <2> HIDE DEF a, b
  <2>5. \A i \in S : a <= i /\ i <= b
    BY <2>1, <2>3
  <2> QED BY <2>3, <2>4, <2>5
<1> QED BY <1>1, <1>2 DEF NonSpaces

\* The first and the last position that is no space are what counts.
LEMMA StripIs ==
    ASSUME NEW t \in Texts, NEW a \in NonSpaces(t), NEW b \in NonSpaces(t),
           \A i \in NonSpaces(t) : a <= i /\ i <= b
    PROVE  Strip(t) = SubSeq(t, a, b)
<1>1. NonSpaces(t) \subseteq Int
  BY DEF NonSpaces, Texts
<1>2. PICK c, d \in NonSpaces(t) :
        (\A i \in NonSpaces(t) : c <= i /\ i <= d) /\ Strip(t) = SubSeq(t, c, d)
  BY StripShape
<1>3. c = a /\ d = b
  BY <1>1, <1>2
<1> QED BY <1>2, <1>3

LEMMA StripSpace ==
    ASSUME NEW t \in Texts
    PROVE  Strip(Append(t, Space)) = Strip(t)
<1> DEFINE u == Append(t, Space)
<1>1. /\ u \in Texts /\ Len(u) = Len(t) + 1 /\ Len(t) \in Nat /\ u[Len(t) + 1] = Space
      /\ \A i \in 1..Len(t) : u[i] = t[i]
  BY AppendProperties DEF Texts, Lexemes
<1> HIDE DEF u
<1>2. NonSpaces(u) = NonSpaces(t)
  BY <1>1 DEF NonSpaces
<1>3. CASE NonSpaces(t) = {}
  BY <1>1, <1>2, <1>3, StripShape DEF u
<1>4. CASE NonSpaces(t) # {}
  <2>1. PICK a, b \in NonSpaces(t) :
          (\A i \in NonSpaces(t) : a <= i /\ i <= b) /\ Strip(t) = SubSeq(t, a, b)
    BY <1>4, StripShape
  <2>2. Strip(u) = SubSeq(u, a, b)
    BY <1>1, <1>2, <2>1, StripIs
  <2>3. a \in 1..Len(t) /\ b \in 1..Len(t)
    BY DEF NonSpaces
  <2>4. SubSeq(u, a, b) = SubSeq(t, a, b)
    <3> DEFINE r == SubSeq(u, a, b)
               q == SubSeq(t, a, b)
    <3>1. \A i \in a..b : u[i] = t[i] /\ t[i] \in Lexemes /\ i \in 1..Len(t)
      BY <1>1, <2>3 DEF Texts
    <3>2. /\ r \in Seq(Lexemes) /\ q \in Seq(Lexemes) /\ Len(r) = Len(q)
          /\ \A i \in 1..(b - a + 1) : r[i] = u[a + i - 1] /\ q[i] = t[a + i - 1]
          /\ Len(r) = IF a <= b THEN b - a + 1 ELSE 0
      BY <2>3, <3>1, SubSeqProperties
    <3> HIDE DEF r, q
    <3>3. \A i \in 1..Len(r) : r[i] = q[i]
      <4> SUFFICES ASSUME NEW i \in 1..Len(r) PROVE r[i] = q[i]
        OBVIOUS
      <4>1. i \in 1..(b - a + 1) /\ a + i - 1 \in a..b
        BY <2>3, <3>2
      <4> QED BY <3>1, <3>2, <4>1
    <3>4. r = q
      BY <3>2, <3>3, SeqEqual
    <3> QED BY <3>4 DEF r, q
  <2> QED BY <2>1, <2>2, <2>4 DEF u
<1> QED BY <1>3, <1>4

\* A text that ends in no space grows at its end.
LEMMA StripGrows ==
    ASSUME NEW t \in Texts, t # <<>>, Last(t) # Space
    PROVE  /\ Strip(t) # <<>>
           /\ \A z \in Texts : z # <<>> /\ Last(z) # Space => Strip(t \o z) = Strip(t) \o z
<1> DEFINE n == Len(t)
<1>1. n \in Nat \ {0} /\ Last(t) = t[n] /\ \A i \in 1..n : t[i] \in Lexemes
  <2>1. t \in Seq(Lexemes)
    BY DEF Texts
  <2>2. Len(t) \in Nat \ {0} /\ Last(t) = t[Len(t)]
    BY <2>1, EndsType
  <2> QED BY <2>1, <2>2, ElementOfSeq
<1>2. n \in NonSpaces(t) /\ NonSpaces(t) \subseteq 1..n
  BY <1>1 DEF NonSpaces
<1>3. PICK a, b \in NonSpaces(t) :
        (\A i \in NonSpaces(t) : a <= i /\ i <= b) /\ Strip(t) = SubSeq(t, a, b)
  BY <1>2, StripShape
<1>4. b = n /\ a \in 1..n
  BY <1>1, <1>2, <1>3
<1> HIDE DEF n
<1> DEFINE s == SubSeq(t, a, n)
<1>5. /\ s \in Seq(Lexemes) /\ Len(s) = n - a + 1
      /\ \A i \in 1..(n - a + 1) : s[i] = t[a + i - 1]
  <2>1. \A i \in a..n : t[i] \in Lexemes
    BY <1>1, <1>4
  <2> QED BY <1>1, <1>4, <2>1, SubSeqProperties
<1>6. Strip(t) = s
  BY <1>3, <1>4
<1> HIDE DEF s
<1>7. s # <<>>
  BY <1>1, <1>4, <1>5
<1>8. ASSUME NEW z \in Texts, z # <<>>, Last(z) # Space
      PROVE  Strip(t \o z) = s \o z
  <2> DEFINE m == Len(z)
             u == t \o z
  <2>1. m \in Nat \ {0} /\ Last(z) = z[m]
    BY <1>8, EndsType DEF Texts
  <2>2. /\ u \in Seq(Lexemes) /\ Len(u) = n + m
        /\ \A i \in 1..(n + m) : u[i] = IF i <= n THEN t[i] ELSE z[i - n]
    BY ConcatProperties DEF Texts, n
  <2> HIDE DEF m, u
  <2>3. a \in NonSpaces(u) /\ n + m \in NonSpaces(u)
    <3>1. u[a] = t[a] /\ u[n + m] = z[m] /\ t[a] # Space
      BY <1>1, <1>4, <2>1, <2>2 DEF NonSpaces
    <3> QED BY <1>1, <1>4, <1>8, <2>1, <2>2, <3>1 DEF NonSpaces
  <2>4. \A i \in NonSpaces(u) : a <= i /\ i <= n + m
    <3> SUFFICES ASSUME NEW i \in NonSpaces(u) PROVE a <= i /\ i <= n + m
      OBVIOUS
    <3>1. i \in 1..(n + m) /\ u[i] # Space
      BY <2>2 DEF NonSpaces
    <3>2. CASE i <= n
      <4>1. i \in NonSpaces(t)
        BY <1>1, <2>2, <3>1, <3>2 DEF NonSpaces, n
      <4> QED BY <1>1, <1>3, <2>1, <3>1, <3>2, <4>1
    <3>3. CASE ~(i <= n)
      BY <1>1, <1>4, <3>1, <3>3
    <3> QED BY <3>2, <3>3
  <2>5. Strip(u) = SubSeq(u, a, n + m)
    BY <2>2, <2>3, <2>4, StripIs DEF Texts
  <2>6. /\ SubSeq(u, a, n + m) \in Seq(Lexemes) /\ Len(SubSeq(u, a, n + m)) = n + m - a + 1
        /\ \A i \in 1..(n + m - a + 1) : SubSeq(u, a, n + m)[i] = u[a + i - 1]
    <3>1. \A i \in a..(n + m) : u[i] \in Lexemes
      BY <1>1, <1>4, <2>1, <2>2
    <3> QED BY <1>1, <1>4, <2>1, <3>1, SubSeqProperties
  <2>7. /\ s \o z \in Seq(Lexemes) /\ Len(s \o z) = n - a + 1 + m
        /\ \A i \in 1..(n - a + 1 + m) : (s \o z)[i] = IF i <= n - a + 1 THEN s[i]
                                                       ELSE z[i - (n - a + 1)]
    <3>1. z \in Seq(Lexemes) /\ Len(z) = m
      BY DEF Texts, m
    <3>2. /\ s \o z \in Seq(Lexemes) /\ Len(s \o z) = Len(s) + Len(z)
          /\ \A i \in 1..(Len(s) + Len(z)) :
               (s \o z)[i] = IF i <= Len(s) THEN s[i] ELSE z[i - Len(s)]
      BY <1>5, <3>1, ConcatProperties
    <3> QED BY <1>5, <3>1, <3>2
  <2> DEFINE r == SubSeq(u, a, n + m)
             q == s \o z
  <2>8. \A i \in 1..(n + m - a + 1) : r[i] = q[i]
    <3> SUFFICES ASSUME NEW i \in 1..(n + m - a + 1) PROVE r[i] = q[i]
      OBVIOUS
    <3> HIDE DEF r, q
    <3>1. a + i - 1 \in 1..(n + m) /\ r[i] = u[a + i - 1]
      BY <1>1, <1>4, <2>1, <2>6 DEF r
    <3>2. CASE i <= n - a + 1
      <4>1. i \in 1..(n - a + 1) /\ a + i - 1 <= n /\ i \in 1..(n - a + 1 + m)
        BY <1>1, <1>4, <2>1, <3>2
      <4>2. r[i] = t[a + i - 1]
        BY <2>2, <3>1, <4>1
      <4>3. q[i] = s[i]
        BY <2>7, <3>2, <4>1 DEF q
      <4> QED BY <1>5, <4>1, <4>2, <4>3
    <3>3. CASE ~(i <= n - a + 1)
      <4>1. (a + i - 1) - n = i - (n - a + 1) /\ ~(a + i - 1 <= n)
        BY <1>1, <1>4, <3>3
      <4>2. r[i] = z[i - (n - a + 1)]
        BY <2>2, <3>1, <4>1
      <4>3. i \in 1..(n - a + 1 + m)
        BY <1>1, <1>4, <2>1
      <4>4. q[i] = z[i - (n - a + 1)]
        BY <2>7, <3>3, <4>3 DEF q
      <4> QED BY <4>2, <4>4
    <3> QED BY <3>2, <3>3
  <2>9. Len(r) = Len(q) /\ r \in Seq(Lexemes) /\ q \in Seq(Lexemes) /\ Len(r) = n + m - a + 1
    BY <1>1, <1>4, <2>1, <2>6, <2>7
  <2> HIDE DEF r, q
  <2>10. r = q
    BY <2>8, <2>9, SeqEqual
  <2> QED BY <2>5, <2>10 DEF r, q, u
<1> QED BY <1>6, <1>7, <1>8

LEMMA StripOne ==
    ASSUME NEW x \in Lexemes, x # Space
    PROVE  Strip(<<>>) = <<>> /\ Strip(<<x>>) = <<x>>
<1>1. <<>> \in Texts /\ <<x>> \in Texts
  BY DEF Texts
<1>2. NonSpaces(<<>>) = {}
  BY DEF NonSpaces
<1>3. NonSpaces(<<x>>) = {1}
  BY DEF NonSpaces
<1>4. Strip(<<x>>) = SubSeq(<<x>>, 1, 1)
  <2>1. 1 \in NonSpaces(<<x>>) /\ \A i \in NonSpaces(<<x>>) : 1 <= i /\ i <= 1
    BY <1>3
  <2> QED BY <1>1, <2>1, StripIs
<1>5. SubSeq(<<x>>, 1, 1) = <<x>>
  <2>1. <<x>> \in Seq(Lexemes) /\ Len(<<x>>) = 1
    OBVIOUS
  <2> QED BY <2>1, SubSeqFull
<1> QED BY <1>1, <1>2, <1>4, <1>5, StripShape------------------------------------------------------------------------------
(* A text that is cut where a piece begins. *)

LEMMA PartsOf ==
    ASSUME NEW P \in Clauses, P # <<>>
    PROVE  Front(P) \in Clauses /\ Last(P) \in Texts
BY EndsType DEF Clauses

\* Only the last piece is read on, and only the last clause is glued to.
LEMMA ReadLocal ==
    ASSUME NEW F \in Clauses, NEW Q \in Clauses, Q # <<>>, NEW x \in Lexemes
    PROVE  Read(F \o Q, x) = F \o Read(Q, x) /\ Read(Q, x) # <<>>
<1>1. /\ F \o Q \in Clauses /\ F \o Q # <<>> /\ Last(F \o Q) = Last(Q)
      /\ Front(F \o Q) = F \o Front(Q)
  <2>1. <<>> \in Texts
    BY DEF Texts
  <2> QED BY <2>1, PutTogether DEF Clauses
<1>2. Front(Q) \in Clauses /\ Last(Q) \in Texts /\ <<>> \in Texts
  BY PartsOf DEF Texts
<1>3. Append(Last(Q), x) \in Texts
  BY <1>2, AppendProperties DEF Texts
<1>4. F \o Append(Q, <<>>) = Append(F \o Q, <<>>)
  BY <1>2, PutTogether DEF Clauses
<1>5. F \o Append(Front(Q), Append(Last(Q), x)) = Append(F \o Front(Q), Append(Last(Q), x))
  <2> DEFINE q == Front(Q)
             l == Append(Last(Q), x)
  <2>1. q \in Seq(Texts) /\ l \in Texts /\ F \in Seq(Texts)
    BY <1>2, <1>3 DEF Clauses
  <2> HIDE DEF q, l
  <2>2. F \o Append(q, l) = Append(F \o q, l)
    BY <2>1, PutTogether
  <2> QED BY <2>2 DEF q, l
<1>6. Append(Q, <<>>) # <<>> /\ Append(Front(Q), Append(Last(Q), x)) # <<>>
  <2>1. Q \in Seq(Texts) /\ Front(Q) \in Seq(Texts)
    BY <1>2 DEF Clauses
  <2> DEFINE q == Front(Q)
             l == Append(Last(Q), x)
             e == <<>>
  <2>2. q \in Seq(Texts) /\ l \in Texts /\ e \in Texts
    BY <1>2, <1>3, <2>1
  <2> HIDE DEF q, l, e
  <2>3. Append(Q, e) # <<>> /\ Append(q, l) # <<>>
    BY <2>1, <2>2, Ends2
  <2> QED BY <2>3 DEF q, l, e
<1> QED BY <1>1, <1>4, <1>5, <1>6 DEF Read

LEMMA GluedLocal ==
    ASSUME NEW F \in Clauses, NEW Q \in Clauses, Q # <<>>, NEW s \in Texts, NEW n
    PROVE  Glued(F \o Q, s, n) = F \o Glued(Q, s, n) /\ Glued(Q, s, n) # <<>>
<1>1. /\ F \o Q \in Clauses /\ F \o Q # <<>> /\ Last(F \o Q) = Last(Q)
      /\ Front(F \o Q) = F \o Front(Q)
  <2>1. <<>> \in Texts
    BY DEF Texts
  <2> QED BY <2>1, PutTogether DEF Clauses
<1>2. Front(Q) \in Clauses /\ Last(Q) \in Texts
  BY PartsOf
<1>3. Last(Q) \o <<Space>> \o s \in Texts
  <2>1. <<Space>> \in Texts
    BY DEF Texts, Lexemes
  <2> QED BY <1>2, <2>1 DEF Texts
<1> DEFINE q == Front(Q)
           l == Last(Q) \o <<Space>> \o s
<1>4. q \in Seq(Texts) /\ l \in Texts /\ F \in Seq(Texts) /\ Q \in Seq(Texts)
  BY <1>2, <1>3 DEF Clauses
<1>5. Glued(Q, s, n) = IF Len(Last(Q)) < n THEN Append(q, l) ELSE Append(Q, s)
  BY DEF Glued
<1>6. Glued(F \o Q, s, n) = IF Len(Last(Q)) < n THEN Append(F \o q, l) ELSE Append(F \o Q, s)
  BY <1>1 DEF Glued
<1> HIDE DEF q, l
<1>7. /\ F \o Append(q, l) = Append(F \o q, l) /\ F \o Append(Q, s) = Append(F \o Q, s)
      /\ Append(q, l) # <<>> /\ Append(Q, s) # <<>>
  <2>1. F \o Append(q, l) = Append(F \o q, l)
    BY <1>4, PutTogether
  <2>2. F \o Append(Q, s) = Append(F \o Q, s)
    BY <1>4, PutTogether
  <2>3. Append(q, l) # <<>> /\ Append(Q, s) # <<>>
    BY <1>4, Ends2
  <2> QED BY <2>1, <2>2, <2>3
<1> QED BY <1>5, <1>6, <1>7

LEMMA KeptLocal ==
    ASSUME NEW F \in Clauses, NEW Q \in Clauses, NEW p \in Texts
    PROVE  Kept(F \o Q, p) = F \o Kept(Q, p)
<1>1. Strip(p) \in Texts /\ F \in Seq(Texts) /\ Q \in Seq(Texts)
  BY StripType DEF Clauses
<1>2. F \o Append(Q, Strip(p)) = Append(F \o Q, Strip(p))
  BY <1>1, PutTogether
<1> QED BY <1>2 DEF Kept

LEMMA SentencesTogether ==
    ASSUME NEW F \in Clauses, NEW Q \in Clauses
    PROVE  Sentences(F \o Q) = Sentences(F) \o Sentences(Q)
<1> DEFINE T == {P \in Clauses : Sentences(F \o P) = Sentences(F) \o Sentences(P)}
<1>0. <<>> \in Texts /\ <<>> \in Clauses
  BY DEF Texts, Clauses
<1>1. <<>> \in T
  <2>1. F \o <<>> = F
    BY ConcatEmptySeq DEF Clauses
  <2>2. Sentences(<<>>) = <<>>
    BY <1>0, SentencesAppend
  <2>3. Sentences(F) \o <<>> = Sentences(F)
    BY SentencesType, ConcatEmptySeq DEF Clauses
  <2> QED BY <1>0, <2>1, <2>2, <2>3
<1>2. ASSUME NEW P \in Seq(Texts), NEW p \in Texts, P \in T PROVE Append(P, p) \in T
  <2>1. /\ P \in Clauses /\ F \o P \in Clauses /\ Append(P, p) \in Clauses
        /\ F \o Append(P, p) = Append(F \o P, p)
    BY PutTogether, ConcatProperties, AppendProperties DEF Clauses
  <2>2. Sentences(Append(F \o P, p)) = Kept(Sentences(F \o P), p)
    BY <2>1, SentencesAppend
  <2>3. Sentences(Append(P, p)) = Kept(Sentences(P), p)
    BY <2>1, SentencesAppend
  <2>4. Sentences(F) \in Clauses /\ Sentences(P) \in Clauses
    BY <2>1, SentencesType
  <2>5. Kept(Sentences(F) \o Sentences(P), p) = Sentences(F) \o Kept(Sentences(P), p)
    BY <2>4, KeptLocal
  <2> QED BY <1>2, <2>1, <2>2, <2>3, <2>5
<1> HIDE DEF T
<1>3. Seq(Texts) \subseteq T
  BY <1>1, <1>2, OneByOne
<1> QED BY <1>3 DEF T, Clauses

\* Is a clause long enough not to be glued to?
Full(out, n) == out = <<>> \/ ~(Len(Last(out)) < n)

LEMMA MergedOne ==
    ASSUME NEW s \in Texts, NEW n
    PROVE  Merged(<<s>>, n) = <<s>>
<1>1. <<>> \in Clauses /\ Append(<<>>, s) = <<s>>
  BY DEF Clauses
<1>2. Merged(<<>>, n) = <<>> /\ Merged(Append(<<>>, s), n) = Glued(Merged(<<>>, n), s, n)
  BY <1>1, MergedAppend
<1>3. Glued(<<>>, s, n) = Append(<<>>, s)
  BY DEF Glued
<1> QED BY <1>1, <1>2, <1>3

LEMMA MergedTogether ==
    ASSUME NEW S \in Clauses, NEW R \in Clauses, NEW n, Full(Merged(S, n), n)
    PROVE  Merged(S \o R, n) = Merged(S, n) \o Merged(R, n)
<1> DEFINE T == {P \in Clauses : /\ Merged(S \o P, n) = Merged(S, n) \o Merged(P, n)
                                 /\ P # <<>> => Merged(P, n) # <<>>}
<1>0. <<>> \in Texts /\ <<>> \in Clauses
  BY DEF Texts, Clauses
<1>m. Merged(S, n) \in Clauses /\ Merged(<<>>, n) = <<>>
  BY <1>0, MergedType, MergedAppend
<1>1. <<>> \in T
  <2>1. S \o <<>> = S /\ Merged(S, n) \o <<>> = Merged(S, n)
    BY <1>m, ConcatEmptySeq DEF Clauses
  <2> QED BY <1>0, <1>m, <2>1
<1>2. ASSUME NEW P \in Seq(Texts), NEW p \in Texts, P \in T PROVE Append(P, p) \in T
  <2>1. /\ P \in Clauses /\ S \o P \in Clauses /\ Append(P, p) \in Clauses
        /\ S \o Append(P, p) = Append(S \o P, p)
    BY PutTogether, ConcatProperties, AppendProperties DEF Clauses
  <2>2. Merged(Append(S \o P, p), n) = Glued(Merged(S \o P, n), p, n)
    BY <2>1, MergedAppend
  <2>3. Merged(Append(P, p), n) = Glued(Merged(P, n), p, n)
    BY <2>1, MergedAppend
  <2>4. Merged(P, n) \in Clauses
    BY <2>1, MergedType
  <2>5. CASE P = <<>>
    <3>1. S \o P = S /\ Merged(P, n) = <<>>
      BY <1>m, <2>5, ConcatEmptySeq DEF Clauses
    <3>2. Glued(Merged(S, n), p, n) = Append(Merged(S, n), p)
      BY DEF Full, Glued
    <3>3. Glued(<<>>, p, n) = <<p>>
      BY DEF Glued
    <3>4. Append(Merged(S, n), p) = Merged(S, n) \o <<p>> /\ <<p>> # <<>>
      BY <1>m, AppendIsConcat DEF Clauses
    <3> QED BY <2>1, <2>2, <2>3, <3>1, <3>2, <3>3, <3>4
  <2>6. CASE P # <<>>
    <3>1. Merged(P, n) # <<>> /\ Merged(S \o P, n) = Merged(S, n) \o Merged(P, n)
      BY <1>2, <2>6
    <3>2. /\ Glued(Merged(S, n) \o Merged(P, n), p, n) = Merged(S, n) \o Glued(Merged(P, n), p, n)
          /\ Glued(Merged(P, n), p, n) # <<>>
      BY <1>m, <2>4, <3>1, GluedLocal
    <3> QED BY <2>1, <2>2, <2>3, <3>1, <3>2
  <2> QED BY <2>5, <2>6
<1> HIDE DEF T
<1>3. Seq(Texts) \subseteq T
  BY <1>1, <1>2, OneByOne
<1> QED BY <1>3 DEF T, Clauses
LEMMA Rejoined ==
    ASSUME NEW X, NEW P \in Seq(X), P # <<>>
    PROVE  P = Append(Front(P), Last(P)) /\ Front(P) \in Seq(X) /\ Last(P) \in X
<1>1. PICK r \in Seq(X), l \in X : P = Append(r, l)
  BY SequenceEmptyOrAppend
<1>2. Front(P) = r /\ Last(P) = l
  BY <1>1, Ends2
<1> QED BY <1>1, <1>2

\* The last piece ends as the text does.
LEMMA LastPiece ==
    ASSUME NEW t \in Texts, t # <<>>
    PROVE  /\ Pieces(t) \in Clauses /\ Pieces(t) # <<>>
           /\ Last(t) # Space => /\ Last(Pieces(t)) # <<>>
                                 /\ Last(Last(Pieces(t))) = Last(t)
<1>1. PICK r \in Texts, x \in Lexemes : t = Append(r, x)
  BY SequenceEmptyOrAppend DEF Texts
<1>2. Last(t) = x
  BY <1>1, Ends2 DEF Texts
<1>3. Pieces(t) = Read(Pieces(r), x) /\ Pieces(r) \in Clauses /\ Pieces(t) \in Clauses
  BY <1>1, PiecesAppend, PiecesType
<1> DEFINE P == Pieces(r)
<1>4. CASE P = <<>>
  <2>1. x # Space => Read(P, x) = <<<<x>>>>
    BY <1>4 DEF Read
  <2>2. Read(P, x) = Append(P, <<>>) \/ Read(P, x) = <<<<x>>>>
    BY <1>4 DEF Read
  <2>3. Append(P, <<>>) # <<>> /\ <<<<x>>>> # <<>>
    BY <1>4
  <2>4. Last(<<<<x>>>>) = <<x>> /\ Last(<<x>>) = x /\ <<x>> # <<>>
    BY DEF Last
  <2> QED BY <1>2, <1>3, <2>1, <2>2, <2>3, <2>4
<1>5. CASE P # <<>>
  <2> DEFINE q == Front(P)
             p == Last(P)
             l == Append(p, x)
             e == <<>>
  <2>1. q \in Seq(Texts) /\ p \in Seq(Lexemes) /\ P \in Seq(Texts) /\ e \in Texts
    BY <1>3, <1>5, PartsOf DEF Clauses, Texts
  <2>2. Read(P, x) = IF x = Space /\ Terminated(p) THEN Append(P, e) ELSE Append(q, l)
    BY <1>5 DEF Read
  <2> HIDE DEF q, p, e
  <2>3. l \in Texts /\ l # <<>> /\ Last(l) = x
    BY <2>1, Ends2 DEF Texts
  <2> HIDE DEF l
  <2>4. Append(P, e) # <<>> /\ Append(q, l) # <<>> /\ Last(Append(q, l)) = l
    BY <2>1, <2>3, Ends2
  <2> QED BY <1>2, <1>3, <2>2, <2>3, <2>4
<1> QED BY <1>4, <1>5

\* Does what is read next begin a piece?
Open(c) == c = <<>> \/ Last(Pieces(c)) = <<>>

LEMMA PiecesCut ==
    ASSUME NEW c \in Texts, c # <<>>, Last(Pieces(c)) = <<>>,
           NEW y \in Texts, y # <<>>, y[1] # Space
    PROVE  Pieces(c \o y) = Front(Pieces(c)) \o Pieces(y)
<1> DEFINE F == Front(Pieces(c))
           T == {z \in Texts : z # <<>> /\ z[1] # Space => Pieces(c \o z) = F \o Pieces(z)}
<1>1. Pieces(c) \in Clauses /\ Pieces(c) # <<>> /\ F \in Clauses
  BY LastPiece, PartsOf
<1>2. <<>> \in T
  BY DEF Texts
<1>3. ASSUME NEW z \in Seq(Lexemes), NEW x \in Lexemes, z \in T PROVE Append(z, x) \in T
  <2> DEFINE w == Append(z, x)
  <2> SUFFICES ASSUME w[1] # Space PROVE w \in Texts /\ Pieces(c \o w) = F \o Pieces(w)
    <3>1. w \in Texts
      BY AppendProperties DEF Texts
    <3> QED BY <3>1
  <2>1. /\ w \in Texts /\ c \o w = Append(c \o z, x) /\ c \o z \in Texts /\ z \in Texts
    <3>1. c \in Seq(Lexemes)
      BY DEF Texts
    <3>2. c \o z \in Seq(Lexemes)
      BY <3>1, ConcatProperties
    <3>3. w \in Seq(Lexemes)
      BY AppendProperties
    <3>4. c \o w = Append(c \o z, x)
      BY <3>1, PutTogether
    <3> QED BY <3>2, <3>3, <3>4 DEF Texts
  <2>2. Pieces(c \o w) = Read(Pieces(c \o z), x) /\ Pieces(w) = Read(Pieces(z), x)
    BY <2>1, PiecesAppend
  <2>3. CASE z = <<>>
    <3>1. x # Space /\ c \o z = c /\ Pieces(z) = <<>>
      <4>1. w[1] = x
        BY <2>3
      <4>2. c \o <<>> = c
        BY ConcatEmptySeq DEF Texts
      <4> QED BY <2>1, <2>3, <4>1, <4>2, PiecesAppend
    <3>2. Read(Pieces(c), x) = Append(F, Append(<<>>, x))
      BY <1>1, <3>1 DEF Read
    <3>3. Read(<<>>, x) = <<<<x>>>>
      BY <3>1 DEF Read
    <3>4. Append(F, <<x>>) = F \o <<<<x>>>>
      <4>1. <<x>> \in Texts /\ F \in Seq(Texts)
        BY <1>1 DEF Texts, Clauses
      <4> HIDE DEF F
      <4> QED BY <4>1, AppendIsConcat
    <3>5. Append(<<>>, x) = <<x>>
      OBVIOUS
    <3> QED BY <2>1, <2>2, <3>1, <3>2, <3>3, <3>4, <3>5
  <2>4. CASE z # <<>>
    <3>1. z[1] = w[1]
      <4>1. Len(z) \in Nat \ {0}
        BY <2>4, EmptySeq
      <4> QED BY <4>1, AppendProperties
    <3>2. Pieces(c \o z) = F \o Pieces(z)
      BY <1>3, <2>4, <3>1
    <3>3. Pieces(z) \in Clauses /\ Pieces(z) # <<>>
      BY <2>1, <2>4, LastPiece
    <3>4. Read(F \o Pieces(z), x) = F \o Read(Pieces(z), x)
      BY <1>1, <3>3, ReadLocal
    <3> QED BY <2>1, <2>2, <3>2, <3>4
  <2> QED BY <2>3, <2>4
<1> HIDE DEF T
<1>4. Seq(Lexemes) \subseteq T
  BY <1>2, <1>3, OneByOne
<1> QED BY <1>4 DEF T, Texts

LEMMA KeptEmpty ==
    ASSUME NEW P \in Clauses
    PROVE  Sentences(Append(P, <<>>)) = Sentences(P)
<1>1. <<>> \in Texts /\ Strip(<<>>) = <<>>
  <2>1. <<>> \in Texts /\ NonSpaces(<<>>) = {}
    BY DEF Texts, NonSpaces
  <2> QED BY <2>1, StripShape
<1> QED BY <1>1, SentencesAppend DEF Kept

\* Where a piece begins, the clauses so far long enough, a text may be cut.
LEMMA SplitCut ==
    ASSUME NEW c \in Texts, NEW y \in Texts, NEW n, Open(c), Full(SplitForStreaming(c, n), n),
           y = <<>> \/ y[1] # Space
    PROVE  SplitForStreaming(c \o y, n) = SplitForStreaming(c, n) \o SplitForStreaming(y, n)
<1>0. <<>> \in Clauses /\ Pieces(<<>>) = <<>> /\ Sentences(<<>>) = <<>> /\ Merged(<<>>, n) = <<>>
  <2>1. <<>> \in Texts /\ <<>> \in Clauses /\ Space \in Lexemes
    BY DEF Texts, Clauses, Lexemes
  <2> QED BY <2>1, PiecesAppend, SentencesAppend, MergedAppend
<1>e. SplitForStreaming(<<>>, n) = <<>>
  BY <1>0 DEF SplitForStreaming
<1>t. SplitForStreaming(c, n) \in Clauses /\ SplitForStreaming(y, n) \in Clauses
  BY SplitType
<1>1. CASE c = <<>>
  <2>1. c \o y = y /\ <<>> \o SplitForStreaming(y, n) = SplitForStreaming(y, n)
    BY <1>1, <1>t, ConcatEmptySeq DEF Texts, Clauses
  <2> QED BY <1>1, <1>e, <2>1
<1>2. CASE y = <<>>
  <2>1. c \o y = c /\ SplitForStreaming(c, n) \o <<>> = SplitForStreaming(c, n)
    BY <1>2, <1>t, ConcatEmptySeq DEF Texts, Clauses
  <2> QED BY <1>2, <1>e, <2>1
<1>3. CASE c # <<>> /\ y # <<>>
  <2>1. Last(Pieces(c)) = <<>> /\ y[1] # Space
    BY <1>3 DEF Open
  <2>2. Pieces(c) \in Clauses /\ Pieces(c) # <<>> /\ Pieces(y) \in Clauses
    BY <1>3, LastPiece
  <2> DEFINE F == Front(Pieces(c))
  <2>3. Pieces(c) = Append(F, <<>>) /\ F \in Clauses
    BY <2>1, <2>2, Rejoined DEF Clauses
  <2>4. Pieces(c \o y) = F \o Pieces(y)
    BY <1>3, <2>1, PiecesCut
  <2> HIDE DEF F
  <2>5. Sentences(Pieces(c)) = Sentences(F)
    BY <2>3, KeptEmpty
  <2>6. Sentences(Pieces(c \o y)) = Sentences(F) \o Sentences(Pieces(y))
    BY <2>2, <2>3, <2>4, SentencesTogether
  <2>7. Sentences(F) \in Clauses /\ Sentences(Pieces(y)) \in Clauses
    BY <2>2, <2>3, SentencesType
  <2>8. Full(Merged(Sentences(F), n), n)
    BY <2>5 DEF SplitForStreaming
  <2>9. Merged(Sentences(F) \o Sentences(Pieces(y)), n)
          = Merged(Sentences(F), n) \o Merged(Sentences(Pieces(y)), n)
    BY <2>7, <2>8, MergedTogether
  <2> QED BY <2>5, <2>6, <2>9 DEF SplitForStreaming
<1> QED BY <1>1, <1>2, <1>3------------------------------------------------------------------------------
(* One lexeme more, and the clauses. *)

LEMMA SpaceIsLexeme == Space \in Lexemes /\ <<>> \in Texts /\ <<Space>> \in Texts /\ <<>> \in Clauses
BY DEF Lexemes, Texts, Clauses

\* A space at the end changes no clause.
LEMMA SpaceAtEnd ==
    ASSUME NEW t \in Texts, NEW n
    PROVE  SplitForStreaming(Append(t, Space), n) = SplitForStreaming(t, n)
<1> DEFINE P == Pieces(t)
<1>1. P \in Clauses /\ Pieces(Append(t, Space)) = Read(P, Space)
  BY PiecesType, PiecesAppend, SpaceIsLexeme
<1>2. Sentences(Read(P, Space)) = Sentences(P)
  <2> HIDE DEF P
  <2>1. CASE P = <<>> \/ Terminated(Last(P))
    <3>1. Read(P, Space) = Append(P, <<>>)
      BY <2>1 DEF Read
    <3> QED BY <1>1, <3>1, KeptEmpty
  <2>2. CASE ~(P = <<>> \/ Terminated(Last(P)))
    <3> DEFINE q == Front(P)
               p == Last(P)
               l == Append(p, Space)
    <3>1. Read(P, Space) = Append(q, l)
      BY <2>2 DEF Read
    <3>2. P = Append(q, p) /\ q \in Clauses /\ p \in Texts
      BY <1>1, <2>2, Rejoined DEF Clauses
    <3> HIDE DEF q, p
    <3>3. l \in Texts /\ Strip(l) = Strip(p)
      BY <3>2, SpaceIsLexeme, AppendProperties, StripSpace DEF Texts
    <3> HIDE DEF l
    <3>4. Sentences(Append(q, l)) = Kept(Sentences(q), l) /\ Sentences(Append(q, p)) = Kept(Sentences(q), p)
      BY <3>2, <3>3, SentencesAppend
    <3> QED BY <3>1, <3>2, <3>3, <3>4 DEF Kept
  <2> QED BY <2>1, <2>2
<1> QED BY <1>1, <1>2 DEF SplitForStreaming

\* A clause of one lexeme.
LEMMA SplitOne ==
    ASSUME NEW x \in Lexemes, x # Space, NEW n
    PROVE  SplitForStreaming(<<x>>, n) = <<<<x>>>>
<1>1. <<x>> \in Texts /\ Append(<<>>, x) = <<x>>
  BY DEF Texts
<1>2. Pieces(<<x>>) = <<<<x>>>>
  <2>1. Pieces(<<x>>) = Read(<<>>, x)
    BY <1>1, SpaceIsLexeme, PiecesAppend
  <2> QED BY <2>1 DEF Read
<1>3. Sentences(<<<<x>>>>) = <<<<x>>>>
  <2>1. Append(<<>>, <<x>>) = <<<<x>>>>
    OBVIOUS
  <2>2. Sentences(Append(<<>>, <<x>>)) = Kept(<<>>, <<x>>)
    BY <1>1, SpaceIsLexeme, SentencesAppend
  <2>3. Strip(<<x>>) = <<x>>
    BY StripOne
  <2> QED BY <2>1, <2>2, <2>3 DEF Kept
<1> QED BY <1>1, <1>2, <1>3, MergedOne DEF SplitForStreaming

\* What is appended to the last part is appended to the last clause.
LEMMA GluedGrows ==
    ASSUME NEW out \in Clauses, NEW s \in Texts, NEW z \in Texts, NEW n
    PROVE  /\ Glued(out, s, n) # <<>>
           /\ Glued(out, s \o z, n)
                = Append(Front(Glued(out, s, n)), Last(Glued(out, s, n)) \o z)
<1>1. CASE out # <<>> /\ Len(Last(out)) < n
  <2> DEFINE q == Front(out)
             p == Last(out)
             l == (p \o <<Space>>) \o s
  <2>1. q \in Seq(Texts) /\ p \in Texts
    BY <1>1, PartsOf DEF Clauses
  <2>2. Glued(out, s, n) = Append(q, l)
        /\ Glued(out, s \o z, n) = Append(q, (p \o <<Space>>) \o (s \o z))
    BY <1>1 DEF Glued
  <2> HIDE DEF q, p
  <2>3. l \in Texts /\ (p \o <<Space>>) \o (s \o z) = l \o z
    <3> DEFINE r == p \o <<Space>>
    <3>1. r \in Seq(Lexemes) /\ s \in Seq(Lexemes) /\ z \in Seq(Lexemes)
      BY <2>1, SpaceIsLexeme, ConcatProperties DEF Texts
    <3> HIDE DEF r
    <3>2. r \o s \in Seq(Lexemes) /\ r \o (s \o z) = (r \o s) \o z
      BY <3>1, ConcatProperties, ConcatAssociative
    <3> QED BY <3>2 DEF r, Texts
  <2> HIDE DEF l
  <2>4. Append(q, l) # <<>> /\ Front(Append(q, l)) = q /\ Last(Append(q, l)) = l
    BY <2>1, <2>3, Ends2
  <2> QED BY <2>2, <2>3, <2>4
<1>2. CASE ~(out # <<>> /\ Len(Last(out)) < n)
  <2>1. Glued(out, s, n) = Append(out, s) /\ Glued(out, s \o z, n) = Append(out, s \o z)
    BY <1>2 DEF Glued
  <2>2. Append(out, s) # <<>> /\ Front(Append(out, s)) = out /\ Last(Append(out, s)) = s
    BY Ends2 DEF Clauses
  <2> QED BY <2>1, <2>2
<1> QED BY <1>1, <1>2

\* u continues t by z, which lengthens t's last piece; and its last clause.
PieceGrows(t, u, z) ==
    /\ t # <<>> /\ Last(t) # Space /\ z # <<>> /\ Last(z) # Space
    /\ Pieces(u) = Append(Front(Pieces(t)), Last(Pieces(t)) \o z)
ClauseGrows(t, u, z, n) ==
    SplitForStreaming(u, n)
      = Append(Front(SplitForStreaming(t, n)), Last(SplitForStreaming(t, n)) \o z)

\* The last piece grows at its end, and with it the last clause.
LEMMA LastPieceGrows ==
    ASSUME NEW t \in Texts, NEW u \in Texts, NEW z \in Texts, PieceGrows(t, u, z), NEW n
    PROVE  ClauseGrows(t, u, z, n)
<1>0. /\ t # <<>> /\ Last(t) # Space /\ z # <<>> /\ Last(z) # Space
      /\ Pieces(u) = Append(Front(Pieces(t)), Last(Pieces(t)) \o z)
  BY DEF PieceGrows
<1> DEFINE q == Front(Pieces(t))
           p == Last(Pieces(t))
<1>1. Pieces(t) = Append(q, p) /\ q \in Clauses /\ p \in Texts /\ p # <<>> /\ Last(p) = Last(t)
  <2>1. Pieces(t) \in Clauses /\ Pieces(t) # <<>> /\ p # <<>> /\ Last(p) = Last(t)
    BY <1>0, LastPiece
  <2> QED BY <2>1, Rejoined DEF Clauses
<1>2. Pieces(u) = Append(q, p \o z)
  BY <1>0
<1> HIDE DEF q, p
<1> DEFINE s == Strip(p)
           r == Strip(p \o z)
           S == Sentences(q)
<1>3. s # <<>> /\ r = s \o z /\ s \in Texts /\ p \o z \in Texts
  BY <1>0, <1>1, StripGrows, StripType, ConcatProperties DEF Texts
<1>4. r # <<>> /\ r \in Texts
  <2> HIDE DEF s, r
  <2>1. s \in Seq(Lexemes) /\ z \in Seq(Lexemes)
    BY <1>3 DEF Texts
  <2>2. s \o z # <<>> /\ s \o z \in Seq(Lexemes)
    BY <1>0, <1>3, <2>1, ConcatEqualIffEmpty, ConcatProperties
  <2> QED BY <1>3, <2>2 DEF Texts
<1>5. S \in Clauses /\ Sentences(Pieces(t)) = Append(S, s) /\ Sentences(Pieces(u)) = Append(S, s \o z)
  <2>1. Sentences(Append(q, p)) = Kept(S, p)
    BY <1>1, SentencesAppend
  <2>2. Sentences(Append(q, p \o z)) = Kept(S, p \o z)
    BY <1>1, <1>3, SentencesAppend
  <2> QED BY <1>1, <1>2, <1>3, <1>4, <2>1, <2>2, SentencesType DEF Kept
<1> HIDE DEF s, r, S
<1>6. /\ SplitForStreaming(t, n) = Glued(Merged(S, n), s, n)
      /\ SplitForStreaming(u, n) = Glued(Merged(S, n), s \o z, n)
      /\ Merged(S, n) \in Clauses
  <2>1. s \o z \in Texts
    BY <1>3, <1>4
  <2> QED BY <1>3, <1>5, <2>1, MergedAppend, MergedType DEF SplitForStreaming
<1> DEFINE out == Merged(S, n)
<1>7. out \in Clauses
  BY <1>6
<1> HIDE DEF out
<1>8. /\ Glued(out, s, n) # <<>>
      /\ Glued(out, s \o z, n) = Append(Front(Glued(out, s, n)), Last(Glued(out, s, n)) \o z)
  BY <1>0, <1>3, <1>7, GluedGrows
<1>9. SplitForStreaming(u, n)
        = Append(Front(SplitForStreaming(t, n)), Last(SplitForStreaming(t, n)) \o z)
  BY <1>6, <1>8 DEF out
<1> QED BY <1>9 DEF ClauseGrows

LEMMA TwoOf ==
    ASSUME NEW X, NEW a \in X, NEW x \in X
    PROVE  Append(<<a>>, x) = <<a, x>>
<1>1. <<a>> \in Seq(X) /\ Len(<<a>>) = 1 /\ <<a>>[1] = a
  OBVIOUS
<1> DEFINE l == Append(<<a>>, x)
           r == <<a, x>>
<1>2. l \in Seq(X) /\ Len(l) = 2 /\ l[1] = a /\ l[2] = x
  <2> DEFINE s == <<a>>
  <2> HIDE DEF s
  <2>1. s \in Seq(X) /\ Len(s) = 1 /\ s[1] = a
    BY <1>1 DEF s
  <2>2. Append(s, x) \in Seq(X) /\ Len(Append(s, x)) = 2 /\ Append(s, x)[1] = a
        /\ Append(s, x)[2] = x
    <3>1. /\ Append(s, x) \in Seq(X) /\ Len(Append(s, x)) = Len(s) + 1
          /\ \A i \in 1..Len(s) : Append(s, x)[i] = s[i]
          /\ Append(s, x)[Len(s) + 1] = x
      BY <2>1, AppendProperties, ZenonT(60)
    <3>2. 1 \in 1..Len(s) /\ Len(s) + 1 = 2
      BY <2>1
    <3> QED BY <2>1, <3>1, <3>2
  <2> QED BY <2>2 DEF s
<1>3. r \in Seq(X) /\ Len(r) = 2 /\ r[1] = a /\ r[2] = x
  OBVIOUS
<1> HIDE DEF l, r
<1>4. \A i \in 1..Len(l) : l[i] = r[i]
  <2>1. \A i \in 1..2 : i = 1 \/ i = 2
    OBVIOUS
  <2> QED BY <1>2, <1>3, <2>1
<1>5. l = r
  BY <1>2, <1>3, <1>4, SeqEqual
<1> QED BY <1>5 DEF l, r

\* How the last piece grows.
LEMMA PiecesGrow ==
    ASSUME NEW t \in Texts, t # <<>>, Last(t) # Space, NEW x \in Lexemes, x # Space
    PROVE  /\ Pieces(t \o <<x>>) = Append(Front(Pieces(t)), Last(Pieces(t)) \o <<x>>)
           /\ ~Terminated(t) => Pieces(t \o <<Space, x>>)
                                  = Append(Front(Pieces(t)), Last(Pieces(t)) \o <<Space, x>>)
           /\ Terminated(t) => /\ Pieces(Append(t, Space)) = Append(Pieces(t), <<>>)
                               /\ Pieces(t \o <<Space, x>>) = Append(Pieces(t), <<x>>)
<1> DEFINE P == Pieces(t)
           q == Front(P)
           p == Last(P)
<1>1. P \in Clauses /\ P # <<>> /\ p # <<>> /\ Last(p) = Last(t)
  BY LastPiece
<1>2. P = Append(q, p) /\ q \in Clauses /\ p \in Texts
  BY <1>1, Rejoined DEF Clauses
<1>3. Terminated(p) <=> Terminated(t)
  BY <1>1 DEF Terminated
<1>4. t \o <<x>> = Append(t, x) /\ p \o <<x>> = Append(p, x) /\ t \in Seq(Lexemes) /\ p \in Seq(Lexemes)
  BY <1>2, AppendIsConcat DEF Texts
<1>5. t \o <<Space, x>> = Append(Append(t, Space), x) /\ p \o <<Space, x>> = Append(Append(p, Space), x)
  <2>1. Append(<<Space>>, x) = <<Space, x>>
    BY SpaceIsLexeme, TwoOf
  <2>2. <<Space>> \in Seq(Lexemes)
    BY SpaceIsLexeme DEF Texts
  <2>3. t \o Append(<<Space>>, x) = Append(t \o <<Space>>, x)
    BY <1>4, <2>2, PutTogether
  <2>4. p \o Append(<<Space>>, x) = Append(p \o <<Space>>, x)
    BY <1>4, <2>2, PutTogether
  <2>5. t \o <<Space>> = Append(t, Space) /\ p \o <<Space>> = Append(p, Space)
    BY <1>4, SpaceIsLexeme, AppendIsConcat
  <2> QED BY <2>1, <2>3, <2>4, <2>5
<1> DEFINE u == Append(t, Space)
<1>6. u \in Texts /\ Pieces(t \o <<x>>) = Read(P, x) /\ Pieces(u) = Read(P, Space)
      /\ Pieces(t \o <<Space, x>>) = Read(Pieces(u), x)
  <2>1. u \in Texts
    BY SpaceIsLexeme, AppendProperties DEF Texts
  <2> HIDE DEF u
  <2>2. Pieces(Append(u, x)) = Read(Pieces(u), x)
    BY <2>1, PiecesAppend
  <2>3. Pieces(Append(t, x)) = Read(P, x) /\ Pieces(Append(t, Space)) = Read(P, Space)
    BY SpaceIsLexeme, PiecesAppend
  <2> QED BY <1>4, <1>5, <2>1, <2>2, <2>3 DEF u
<1> HIDE DEF P, q, p, u
<1>7. Read(P, x) = Append(q, p \o <<x>>)
  BY <1>1, <1>4 DEF Read, q, p
<1>8. ASSUME ~Terminated(t)
      PROVE  Read(Read(P, Space), x) = Append(q, p \o <<Space, x>>)
  <2> DEFINE l == Append(p, Space)
  <2>1. Read(P, Space) = Append(q, l)
    BY <1>1, <1>3, <1>8 DEF Read, q, p
  <2>2. l \in Texts
    BY <1>2, SpaceIsLexeme, AppendProperties DEF Texts
  <2> HIDE DEF l
  <2>3. Append(q, l) # <<>> /\ Last(Append(q, l)) = l /\ Front(Append(q, l)) = q
    BY <1>2, <2>2, Ends2 DEF Clauses
  <2>4. Read(Append(q, l), x) = Append(q, Append(l, x))
    BY <2>3 DEF Read
  <2> QED BY <1>5, <2>1, <2>4 DEF l
<1>9. ASSUME Terminated(t)
      PROVE  Read(P, Space) = Append(P, <<>>) /\ Read(Read(P, Space), x) = Append(P, <<x>>)
  <2> DEFINE e == <<>>
  <2>1. Read(P, Space) = Append(P, e)
    BY <1>1, <1>3, <1>9 DEF Read, p
  <2>2. e \in Texts
    BY DEF Texts
  <2> HIDE DEF e
  <2>3. Append(P, e) # <<>> /\ Last(Append(P, e)) = e /\ Front(Append(P, e)) = P
    BY <1>1, <2>2, Ends2 DEF Clauses
  <2>4. Read(Append(P, e), x) = Append(P, Append(e, x))
    BY <2>3 DEF Read
  <2>5. Append(e, x) = <<x>>
    BY DEF e
  <2> QED BY <2>1, <2>4, <2>5 DEF e
<1> QED BY <1>6, <1>7, <1>8, <1>9 DEF P, q, p, u

\* A text is what its clauses but the last are of, the last, and at most a space.
Cuts(u, n, b, w, e) ==
    /\ u = (b \o w) \o e /\ b \in Texts /\ w \in Texts /\ e \in {<<>>, <<Space>>}
    /\ w # <<>> /\ w[1] # Space /\ Last(w) # Space
    /\ Open(b) /\ Full(SplitForStreaming(b, n), n)
    /\ SplitForStreaming(u, n) = Append(SplitForStreaming(b, n), w)

IsCut(u, n) == u \in {<<>>, <<Space>>} \/ \E b, w, e : Cuts(u, n, b, w, e)

LEMMA FirstStays ==
    ASSUME NEW X, NEW s \in Seq(X), NEW z \in Seq(X), s # <<>>
    PROVE  (s \o z)[1] = s[1]
<1>1. Len(s) \in Nat \ {0} /\ Len(z) \in Nat
  BY EmptySeq
<1>2. 1 \in 1..(Len(s) + Len(z)) /\ 1 <= Len(s)
  BY <1>1
<1> QED BY <1>2, ConcatProperties

LEMMA CutWithSpace ==
    ASSUME NEW n, NEW b, NEW w, NEW u, Cuts(u, n, b, w, <<>>)
    PROVE  Cuts(Append(u, Space), n, b, w, <<Space>>)
<1>1. b \in Seq(Lexemes) /\ w \in Seq(Lexemes) /\ u = (b \o w) \o <<>>
  BY DEF Cuts, Texts
<1> DEFINE t == b \o w
<1>2. t \in Seq(Lexemes)
  BY <1>1, ConcatProperties
<1>3. u = t
  <2> HIDE DEF t
  <2>1. t \o <<>> = t
    BY <1>2, ConcatEmptySeq
  <2> QED BY <1>1, <2>1 DEF t
<1>4. Append(u, Space) = t \o <<Space>>
  <2> HIDE DEF t
  <2> QED BY <1>2, <1>3, SpaceIsLexeme, AppendIsConcat
<1>5. SplitForStreaming(Append(u, Space), n) = SplitForStreaming(u, n)
  BY <1>2, <1>3, SpaceAtEnd DEF Texts
<1> QED BY <1>4, <1>5 DEF Cuts
LEMMA CutGrows ==
    ASSUME NEW n, NEW b, NEW w, NEW e, NEW u, Cuts(u, n, b, w, e),
           NEW x \in Lexemes, x # Space
    PROVE  IsCut(Append(u, x), n)
<1> DEFINE t == b \o w
           cs == SplitForStreaming(b, n)
<1>1. /\ u = t \o e /\ b \in Texts /\ w \in Texts /\ e \in {<<>>, <<Space>>}
      /\ w # <<>> /\ w[1] # Space /\ Last(w) # Space
      /\ Open(b) /\ Full(cs, n) /\ SplitForStreaming(u, n) = Append(cs, w)
  BY DEF Cuts
<1>2. b \in Seq(Lexemes) /\ w \in Seq(Lexemes) /\ cs \in Clauses
  BY <1>1, SplitType DEF Texts
<1>3. t \in Seq(Lexemes) /\ t # <<>> /\ Last(t) = Last(w)
  <2>1. b \o w \in Seq(Lexemes) /\ b \o w # <<>> /\ Last(b \o w) = Last(w)
    BY <1>1, <1>2, PutTogether
  <2> QED BY <2>1
<1> HIDE DEF cs
<1>4. SplitForStreaming(t, n) = Append(cs, w) /\ (e = <<Space>> => u = Append(t, Space))
      /\ (e = <<>> => u = t)
  <2> HIDE DEF t
  <2>1. CASE e = <<>>
    <3>1. t \o <<>> = t
      BY <1>3, ConcatEmptySeq
    <3>2. <<>> # <<Space>>
      OBVIOUS
    <3> QED BY <1>1, <2>1, <3>1, <3>2
  <2>2. CASE e = <<Space>>
    <3>1. t \o <<Space>> = Append(t, Space)
      BY <1>3, SpaceIsLexeme, AppendIsConcat
    <3>2. SplitForStreaming(Append(t, Space), n) = SplitForStreaming(t, n)
      BY <1>3, SpaceAtEnd DEF Texts
    <3>3. <<>> # <<Space>>
      OBVIOUS
    <3> QED BY <1>1, <2>2, <3>1, <3>2, <3>3
  <2> QED BY <1>1, <2>1, <2>2
<1>5. Front(Append(cs, w)) = cs /\ Last(Append(cs, w)) = w
  BY <1>1, <1>2, Ends2 DEF Clauses
<1>6. <<x>> \in Texts /\ <<Space, x>> \in Texts /\ <<x>> # <<>> /\ <<Space, x>> # <<>>
      /\ Last(<<x>>) = x /\ Last(<<Space, x>>) = x
  BY SpaceIsLexeme DEF Texts, Last
\* Nothing is between the clause and what comes: it grows.
<1>7. ASSUME NEW z \in Texts, z # <<>>, Last(z) # Space, Append(u, x) = t \o z,
             Pieces(t \o z) = Append(Front(Pieces(t)), Last(Pieces(t)) \o z)
      PROVE  IsCut(Append(u, x), n)
  <2>1. z \in Seq(Lexemes) /\ t \o z \in Texts
    BY <1>3, <1>7, ConcatProperties DEF Texts
  <2>2. SplitForStreaming(t \o z, n) = Append(cs, w \o z)
    <3>1. t \in Texts /\ t # <<>> /\ Last(t) # Space
      BY <1>1, <1>3 DEF Texts
    <3> HIDE DEF t
    <3> DEFINE v == t \o z
    <3>v. v \in Texts /\ z \in Texts /\ z # <<>> /\ Last(z) # Space
          /\ Pieces(v) = Append(Front(Pieces(t)), Last(Pieces(t)) \o z)
      BY <1>7, <2>1
    <3> HIDE DEF v
    <3>w. ClauseGrows(t, v, z, n)
      <4>1. t \in Texts /\ v \in Texts /\ z \in Texts
        BY <3>1, <3>v
      <4>2. PieceGrows(t, v, z)
        BY <3>1, <3>v DEF PieceGrows
      <4> QED BY ONLY <4>1, <4>2, LastPieceGrows
    <3>2. SplitForStreaming(t \o z, n)
            = Append(Front(SplitForStreaming(t, n)), Last(SplitForStreaming(t, n)) \o z)
      BY <3>w DEF v, ClauseGrows
    <3> QED BY <1>4, <1>5, <3>2
  <2>3. w \o z \in Seq(Lexemes) /\ w \o z # <<>> /\ Last(w \o z) = Last(z) /\ (w \o z)[1] = w[1]
    <3>1. w \o z \in Seq(Lexemes) /\ w \o z # <<>> /\ Last(w \o z) = Last(z)
      BY <1>2, <1>7, <2>1, PutTogether
    <3>2. (w \o z)[1] = w[1]
      BY <1>1, <1>2, <2>1, FirstStays
    <3> QED BY <3>1, <3>2
  <2>4. t \o z = (b \o (w \o z)) \o <<>>
    <3>1. (b \o w) \o z = b \o (w \o z)
      BY <1>2, <2>1, ConcatAssociative
    <3> DEFINE v == t \o z
    <3>2. v \in Seq(Lexemes)
      BY <2>1 DEF Texts
    <3> HIDE DEF v
    <3>3. v \o <<>> = v
      BY <3>2, ConcatEmptySeq
    <3> QED BY <3>1, <3>3 DEF v
  <2>5. Cuts(t \o z, n, b, w \o z, <<>>)
    BY <1>1, <1>7, <2>2, <2>3, <2>4 DEF Cuts, Texts, cs
  <2> QED BY <1>7, <2>5 DEF IsCut
<1>8. CASE e = <<>>
  <2>1. Append(u, x) = t \o <<x>>
    <3> HIDE DEF t
    <3> QED BY <1>3, <1>4, <1>8, AppendIsConcat
  <2>2. Pieces(t \o <<x>>) = Append(Front(Pieces(t)), Last(Pieces(t)) \o <<x>>)
    <3>1. t \in Texts /\ t # <<>> /\ Last(t) # Space
      BY <1>1, <1>3 DEF Texts
    <3> HIDE DEF t
    <3> QED BY <3>1, PiecesGrow
  <2> QED BY <1>6, <1>7, <2>1, <2>2
<1>9. CASE e = <<Space>>
  <2>1. Append(u, x) = t \o <<Space, x>> /\ u = Append(t, Space) /\ u \in Texts
    <3> HIDE DEF t
    <3>1. u = Append(t, Space) /\ u \in Seq(Lexemes)
      <4>1. u = Append(t, Space)
        BY <1>4, <1>9
      <4>2. Append(t, Space) \in Seq(Lexemes)
        BY ONLY <1>3, SpaceIsLexeme, AppendProperties
      <4> QED BY <4>1, <4>2
    <3>2. <<Space>> \in Seq(Lexemes) /\ Append(<<Space>>, x) = <<Space, x>>
      BY SpaceIsLexeme, TwoOf DEF Texts
    <3>3. t \o Append(<<Space>>, x) = Append(t \o <<Space>>, x)
      BY <1>3, <3>2, PutTogether
    <3>4. t \o <<Space>> = Append(t, Space)
      BY <1>3, SpaceIsLexeme, AppendIsConcat
    <3> QED BY <3>1, <3>2, <3>3, <3>4 DEF Texts
  <2>2. t \in Texts /\ t # <<>> /\ Last(t) # Space
    BY <1>1, <1>3 DEF Texts
  <2>3. CASE ~Terminated(t)
    <3>1. Pieces(t \o <<Space, x>>) = Append(Front(Pieces(t)), Last(Pieces(t)) \o <<Space, x>>)
      <4> HIDE DEF t
      <4> QED BY <2>2, <2>3, PiecesGrow
    <3> QED BY <1>6, <1>7, <2>1, <3>1
  <2>4. CASE Terminated(t)
    <3>1. /\ Pieces(u) = Append(Pieces(t), <<>>) /\ Pieces(Append(u, x)) = Append(Pieces(t), <<x>>)
          /\ Pieces(t) \in Clauses
      <4> HIDE DEF t
      <4> QED BY <2>1, <2>2, <2>4, PiecesGrow, PiecesType
    <3>2. CASE Len(w) < n
      <4>1. Sentences(Pieces(Append(u, x))) = Append(Sentences(Pieces(t)), <<x>>)
        <5> DEFINE P == Pieces(t)
        <5>1. P \in Clauses
          BY <3>1
        <5> HIDE DEF P
        <5>2. Sentences(Append(P, <<x>>)) = Kept(Sentences(P), <<x>>)
          BY <1>6, <5>1, SentencesAppend
        <5>3. Strip(<<x>>) = <<x>>
          BY StripOne
        <5> QED BY <1>6, <3>1, <5>2, <5>3 DEF Kept, P
      <4>2. SplitForStreaming(Append(u, x), n) = Glued(Append(cs, w), <<x>>, n)
        <5> DEFINE S == Sentences(Pieces(t))
        <5>1. S \in Clauses
          BY <3>1, SentencesType
        <5>2. Merged(S, n) = Append(cs, w)
          BY <1>4 DEF SplitForStreaming
        <5> HIDE DEF S
        <5>3. Merged(Append(S, <<x>>), n) = Glued(Merged(S, n), <<x>>, n)
          BY <1>6, <5>1, MergedAppend
        <5> QED BY <4>1, <5>2, <5>3 DEF SplitForStreaming, S
      <4>3. Append(cs, w) # <<>>
        BY <1>1, <1>2, Ends2 DEF Clauses
      <4>4. Glued(Append(cs, w), <<x>>, n) = Append(cs, (w \o <<Space>>) \o <<x>>)
        BY <1>5, <3>2, <4>3 DEF Glued
      <4> DEFINE z == <<Space, x>>
      <4>5. (w \o <<Space>>) \o <<x>> = w \o z
        <5>1. <<Space>> \in Seq(Lexemes) /\ <<x>> \in Seq(Lexemes)
          BY SpaceIsLexeme DEF Texts
        <5>2. (w \o <<Space>>) \o <<x>> = w \o (<<Space>> \o <<x>>)
          BY <1>2, <5>1, ConcatAssociative
        <5>3. <<Space>> \o <<x>> = Append(<<Space>>, x)
          BY <5>1, AppendIsConcat
        <5>4. Append(<<Space>>, x) = <<Space, x>>
          BY SpaceIsLexeme, TwoOf
        <5> QED BY <5>2, <5>3, <5>4
      <4>6. z \in Seq(Lexemes) /\ z # <<>> /\ Last(z) = x
        BY <1>6 DEF Texts
      <4> HIDE DEF z
      <4>7. w \o z \in Seq(Lexemes) /\ w \o z # <<>> /\ Last(w \o z) = x /\ (w \o z)[1] = w[1]
        <5>1. w \o z \in Seq(Lexemes) /\ w \o z # <<>> /\ Last(w \o z) = Last(z)
          BY <1>2, <4>6, PutTogether
        <5>2. (w \o z)[1] = w[1]
          BY <1>1, <1>2, <4>6, FirstStays
        <5> QED BY <4>6, <5>1, <5>2
      <4>8. Append(u, x) = (b \o (w \o z)) \o <<>>
        <5>1. (b \o w) \o z = b \o (w \o z) /\ b \o (w \o z) \in Seq(Lexemes)
          BY <1>2, <4>6, <4>7, ConcatAssociative, ConcatProperties
        <5> DEFINE v == b \o (w \o z)
        <5>2. v \in Seq(Lexemes)
          BY <5>1
        <5> HIDE DEF v
        <5>3. v \o <<>> = v
          BY <5>2, ConcatEmptySeq
        <5> QED BY <2>1, <5>1, <5>3 DEF v, z
      <4>9. Cuts(Append(u, x), n, b, w \o z, <<>>)
        BY <1>1, <4>2, <4>4, <4>5, <4>7, <4>8 DEF Cuts, Texts, cs
      <4> QED BY <4>9 DEF IsCut
    <3>3. CASE ~(Len(w) < n)
      <4>1. Open(u)
        <5> DEFINE P == Pieces(t)
                   o == <<>>
        <5>1. P \in Seq(Texts) /\ o \in Texts
          BY <3>1, SpaceIsLexeme DEF Clauses
        <5> HIDE DEF P, o
        <5>2. Last(Append(P, o)) = o
          BY <5>1, Ends2
        <5> QED BY <3>1, <5>2 DEF Open, P, o
      <4>2. Full(SplitForStreaming(u, n), n)
        BY <1>1, <1>5, <3>3 DEF Full
      <4>3. <<x>>[1] = x /\ SplitForStreaming(<<x>>, n) = <<<<x>>>>
        BY SplitOne
      <4> DEFINE y == <<x>>
      <4>4. y \in Texts /\ y # <<>> /\ y[1] # Space /\ Last(y) # Space
            /\ SplitForStreaming(y, n) = <<y>>
        BY <1>6, <4>3
      <4>5. Append(u, x) = u \o y
        BY <2>1, AppendIsConcat DEF Texts
      <4> HIDE DEF y
      <4>6. SplitForStreaming(u \o y, n) = SplitForStreaming(u, n) \o <<y>>
        <5>1. u \in Texts /\ y \in Texts /\ (y = <<>> \/ y[1] # Space)
          BY <2>1, <4>4
        <5>2. SplitForStreaming(u \o y, n) = SplitForStreaming(u, n) \o SplitForStreaming(y, n)
          BY <4>1, <4>2, <5>1, SplitCut
        <5> QED BY <4>4, <5>2
      <4>7. SplitForStreaming(u, n) \o <<y>> = Append(SplitForStreaming(u, n), y)
        <5> DEFINE S == SplitForStreaming(u, n)
        <5>1. S \in Seq(Texts)
          BY <2>1, SplitType DEF Clauses
        <5> HIDE DEF S
        <5>2. S \o <<y>> = Append(S, y)
          BY <4>4, <5>1, AppendIsConcat
        <5> QED BY <5>2 DEF S
      <4>8. u \o y = (u \o y) \o <<>>
        <5> DEFINE v == u \o y
        <5>1. v \in Seq(Lexemes)
          BY <2>1, <4>4, ConcatProperties DEF Texts
        <5> HIDE DEF v
        <5>2. v \o <<>> = v
          BY <5>1, ConcatEmptySeq
        <5> QED BY <5>2 DEF v
      <4>9. Cuts(u \o y, n, u, y, <<>>)
        BY <2>1, <4>1, <4>2, <4>4, <4>6, <4>7, <4>8 DEF Cuts
      <4> QED BY <4>5, <4>9 DEF IsCut
    <3> QED BY <3>2, <3>3
  <2> QED BY <2>3, <2>4
<1> QED BY <1>1, <1>8, <1>9
LEMMA SplitNothing ==
    ASSUME NEW n
    PROVE  SplitForStreaming(<<>>, n) = <<>> /\ SplitForStreaming(<<Space>>, n) = <<>>
<1>1. SplitForStreaming(<<>>, n) = <<>>
  BY SpaceIsLexeme, PiecesAppend, SentencesAppend, MergedAppend DEF SplitForStreaming
<1>2. Append(<<>>, Space) = <<Space>>
  OBVIOUS
<1>3. SplitForStreaming(Append(<<>>, Space), n) = SplitForStreaming(<<>>, n)
  BY SpaceIsLexeme, SpaceAtEnd
<1> QED BY <1>1, <1>2, <1>3

\* In a text without doubled spaces neither are its parts', nor where they meet.
LEMMA SingleParts ==
    ASSUME NEW s \in Texts, NEW z \in Texts, Single(s \o z)
    PROVE  /\ Single(s) /\ Single(z)
           /\ s # <<>> /\ z # <<>> /\ Last(s) = Space => z[1] # Space
<1> DEFINE u == s \o z
           m == Len(s)
           k == Len(z)
<1>1. /\ m \in Nat /\ k \in Nat /\ Len(u) = m + k
      /\ \A i \in 1..(m + k) : u[i] = IF i <= m THEN s[i] ELSE z[i - m]
  <2>1. s \in Seq(Lexemes) /\ z \in Seq(Lexemes)
    BY DEF Texts
  <2> QED BY <2>1, ConcatProperties, LenProperties
<1>2. \A i \in 2..(m + k) : ~(u[i - 1] = Space /\ u[i] = Space)
  BY <1>1 DEF Single
<1>3. Single(s)
  <2> SUFFICES ASSUME NEW i \in 2..m PROVE ~(s[i - 1] = Space /\ s[i] = Space)
    BY DEF Single
  <2> HIDE DEF u, m, k
  <2>1. i \in 2..(m + k) /\ u[i] = s[i] /\ u[i - 1] = s[i - 1]
    BY <1>1
  <2> QED BY <1>2, <2>1
<1>4. Single(z)
  <2> SUFFICES ASSUME NEW i \in 2..k PROVE ~(z[i - 1] = Space /\ z[i] = Space)
    BY DEF Single
  <2> HIDE DEF u, m, k
  <2>1. m + i \in 2..(m + k) /\ (m + i) - m = i /\ (m + i - 1) - m = i - 1
        /\ ~(m + i <= m) /\ ~(m + i - 1 <= m) /\ m + i - 1 \in 1..(m + k) /\ m + i \in 1..(m + k)
    BY <1>1
  <2> DEFINE j == m + i
             h == m + i - 1
  <2>2. u[j] = z[i]
    BY <1>1, <2>1
  <2>3. h \in 1..(m + k) /\ ~(h <= m) /\ h - m = i - 1 /\ j - 1 = h /\ j \in 2..(m + k)
    BY <1>1, <2>1
  <2>4. u[j - 1] = z[i - 1]
    <3> HIDE DEF h, j
    <3>1. u[h] = z[h - m]
      BY <1>1, <2>3
    <3> QED BY <2>3, <3>1
  <2>5. ~(u[j - 1] = Space /\ u[j] = Space)
    <3> HIDE DEF h, j
    <3> QED BY <1>2, <2>3
  <2> QED BY <2>2, <2>4, <2>5
<1>5. ASSUME s # <<>>, z # <<>>, Last(s) = Space PROVE z[1] # Space
  <2>1. m \in Nat \ {0} /\ k \in Nat \ {0} /\ s[m] = Space
    <3>1. s \in Seq(Lexemes) /\ z \in Seq(Lexemes)
      BY DEF Texts
    <3>2. Len(s) \in Nat \ {0} /\ Last(s) = s[Len(s)]
      BY <1>5, <3>1, EndsType
    <3>3. Len(z) \in Nat \ {0}
      BY <1>5, <3>1, EmptySeq
    <3> QED BY <1>5, <3>2, <3>3
  <2> HIDE DEF u, m, k
  <2>2. m + 1 \in 2..(m + k) /\ m \in 1..(m + k) /\ m + 1 \in 1..(m + k)
        /\ (m + 1) - 1 = m /\ (m + 1) - m = 1 /\ ~(m + 1 <= m)
    BY <2>1
  <2>3. u[m + 1] = z[1] /\ u[m] = s[m]
    BY <1>1, <2>1, <2>2
  <2> QED BY <1>2, <2>1, <2>2, <2>3
<1> QED BY <1>3, <1>4, <1>5

LEMMA EveryTextIsCut ==
    ASSUME NEW n, NEW u \in Texts, Single(u)
    PROVE  IsCut(u, n)
<1> DEFINE T == {t \in Texts : Single(t) => IsCut(t, n)}
<1>1. <<>> \in T
  BY SpaceIsLexeme DEF IsCut
<1>2. ASSUME NEW t \in Seq(Lexemes), NEW x \in Lexemes, t \in T PROVE Append(t, x) \in T
  <2> SUFFICES ASSUME Single(Append(t, x)) PROVE IsCut(Append(t, x), n)
    BY AppendProperties DEF Texts
  <2>1. t \in Texts /\ <<x>> \in Texts /\ Append(t, x) = t \o <<x>> /\ <<x>> # <<>> /\ <<x>>[1] = x
    BY AppendIsConcat DEF Texts
  <2>2. Single(t) /\ (t # <<>> /\ Last(t) = Space => x # Space)
    <3> DEFINE z == <<x>>
    <3>1. z \in Texts /\ z # <<>> /\ z[1] = x /\ Single(t \o z)
      BY <2>1
    <3> HIDE DEF z
    <3> QED BY <2>1, <3>1, SingleParts
  <2>3. IsCut(t, n)
    BY <1>2, <2>1, <2>2
  <2>4. CASE t = <<>>
    <3>1. Append(t, x) = <<x>>
      BY <2>4
    <3>2. CASE x = Space
      BY <3>1, <3>2 DEF IsCut
    <3>3. CASE x # Space
      <4> DEFINE y == <<x>>
      <4>1. y \in Texts /\ y # <<>> /\ y[1] # Space /\ Last(y) # Space
            /\ SplitForStreaming(y, n) = <<y>>
        BY <2>1, <3>3, SplitOne DEF Last
      <4> HIDE DEF y
      <4>2. (<<>> \o y) \o <<>> = y
        BY <4>1, ConcatEmptySeq DEF Texts
      <4>3. Append(<<>>, y) = <<y>>
        OBVIOUS
      <4>4. Open(<<>>) /\ Full(SplitForStreaming(<<>>, n), n)
        BY SplitNothing DEF Open, Full
      <4>5. Cuts(y, n, <<>>, y, <<>>)
        BY <4>1, <4>2, <4>3, <4>4, SplitNothing, SpaceIsLexeme DEF Cuts
      <4> QED BY <3>1, <4>5 DEF IsCut, y
    <3> QED BY <3>2, <3>3
  <2>5. CASE t = <<Space>>
    <3>1. x # Space
      <4>1. Last(<<Space>>) = Space /\ <<Space>> # <<>>
        BY DEF Last
      <4> QED BY <2>2, <2>5, <4>1
    <3> DEFINE y == <<x>>
               c == <<Space>>
    <3>2. y \in Texts /\ y # <<>> /\ y[1] # Space /\ Last(y) # Space
          /\ SplitForStreaming(y, n) = <<y>>
      BY <2>1, <3>1, SplitOne DEF Last
    <3>3. c \in Texts /\ SplitForStreaming(c, n) = <<>>
      BY SpaceIsLexeme, SplitNothing
    <3>4. Open(c) /\ Full(SplitForStreaming(c, n), n)
      <4>1. c = Append(<<>>, Space)
        OBVIOUS
      <4>2. Pieces(c) = Read(<<>>, Space)
        BY <4>1, SpaceIsLexeme, PiecesAppend
      <4>3. Read(<<>>, Space) = Append(<<>>, <<>>)
        BY DEF Read
      <4>4. Last(Append(<<>>, <<>>)) = <<>>
        <5>1. <<>> \in Seq(Texts) /\ <<>> \in Texts
          BY SpaceIsLexeme
        <5> QED BY <5>1, Ends2
      <4>5. Open(c)
        BY <4>2, <4>3, <4>4 DEF Open
      <4> HIDE DEF c
      <4>6. Full(SplitForStreaming(c, n), n)
        BY <3>3 DEF Full
      <4> QED BY <4>5, <4>6
    <3> HIDE DEF y, c
    <3>5. SplitForStreaming(c \o y, n) = SplitForStreaming(c, n) \o SplitForStreaming(y, n)
      BY <3>2, <3>3, <3>4, SplitCut
    <3>6. <<>> \o <<y>> = <<y>> /\ Append(<<>>, y) = <<y>>
      OBVIOUS
    <3>7. (c \o y) \o <<>> = c \o y
      <4> DEFINE v == c \o y
      <4>1. v \in Seq(Lexemes)
        BY <3>2, <3>3, ConcatProperties DEF Texts
      <4> HIDE DEF v
      <4>2. v \o <<>> = v
        BY <4>1, ConcatEmptySeq
      <4> QED BY <4>2 DEF v
    <3>8. Cuts(c \o y, n, c, y, <<>>)
      BY <3>2, <3>3, <3>4, <3>5, <3>6, <3>7 DEF Cuts
    <3> QED BY <2>1, <2>5, <3>8 DEF IsCut, y, c
  <2>6. CASE \E b, w, e : Cuts(t, n, b, w, e)
    <3>1. PICK b, w, e : Cuts(t, n, b, w, e)
      BY <2>6
    <3>2. CASE x # Space
      BY <3>1, <3>2, CutGrows
    <3>3. CASE x = Space
      <4>1. e = <<>>
        <5> SUFFICES ASSUME e = <<Space>> PROVE FALSE
          BY <3>1 DEF Cuts
        <5> DEFINE c == b \o w
        <5>1. t = c \o <<Space>> /\ c \in Seq(Lexemes)
          BY <3>1, ConcatProperties DEF Cuts, Texts
        <5> HIDE DEF c
        <5>2. t = Append(c, Space)
          BY <5>1, SpaceIsLexeme, AppendIsConcat
        <5>3. t # <<>> /\ Last(t) = Space
          BY <5>1, <5>2, SpaceIsLexeme, Ends2
        <5> QED BY <2>2, <3>3, <5>3
      <4>2. Cuts(Append(t, Space), n, b, w, <<Space>>)
        BY <3>1, <4>1, CutWithSpace
      <4> QED BY <3>3, <4>2 DEF IsCut
    <3> QED BY <3>2, <3>3
  <2> QED BY <2>3, <2>4, <2>5, <2>6 DEF IsCut
<1> HIDE DEF T
<1>3. Seq(Lexemes) \subseteq T
  BY <1>1, <1>2, OneByOne
<1> QED BY <1>3 DEF T, Texts
\* Where the buffer stands in the text: a has been cut into the clauses k taken,
\* and whatever follows it is cut the same without it.
Place(a, t, k, b, n) ==
    /\ a \in Texts
    /\ \/ t = a \o b
       \/ t = Append(a \o b, Space) /\ b # <<>> /\ Last(b) # Space
    /\ a = <<>> \/ (b # <<>> /\ b[1] # Space)
    /\ \A y \in Texts :
         (a = <<>> \/ (y # <<>> /\ y[1] # Space)) =>
           SplitForStreaming(a \o y, n) = k \o SplitForStreaming(y, n)

LEMMA PlaceMeansSplit ==
    ASSUME NEW t \in Texts, NEW k, NEW b \in Texts, NEW n, NEW a, Place(a, t, k, b, n)
    PROVE  k \o SplitForStreaming(b, n) = SplitForStreaming(t, n)
<1> DEFINE c == a \o b
<1>1. c \in Texts
  BY ConcatProperties DEF Place, Texts
<1>2. SplitForStreaming(c, n) = k \o SplitForStreaming(b, n)
  BY DEF Place
<1>3. t = c \/ t = Append(c, Space)
  BY DEF Place
<1> HIDE DEF c
<1> QED BY <1>1, <1>2, <1>3, SpaceAtEnd

\* A fragment joined to the text is joined to the buffer in the same way.
LEMMA JoinPlace ==
    ASSUME NEW t \in Texts, NEW k, NEW b \in Texts, NEW n, NEW a, Place(a, t, k, b, n),
           NEW f \in Texts, f # <<>>, Single(Join(t, f))
    PROVE  /\ Join(b, f) \in Texts /\ Join(t, f) = a \o Join(b, f)
           /\ Single(Join(b, f)) /\ Place(a, Join(t, f), k, Join(b, f), n)
<1> DEFINE s == <<Space>>
<1>1. /\ a \in Texts /\ s \in Texts /\ Head(f) = f[1]
      /\ a = <<>> \/ (b # <<>> /\ b[1] # Space)
  BY HeadTailProperties, SpaceIsLexeme DEF Place, Texts
<1>2. PICK j \in Texts : j = Join(b, f) /\ Join(t, f) = a \o j /\ (b # <<>> => j # <<>> /\ j[1] = b[1])
  <2>1. b \o f \in Texts /\ (b # <<>> => (b \o f)[1] = b[1] /\ b \o f # <<>>)
        /\ s \o f \in Texts /\ s \o f # <<>> /\ (s \o f)[1] = Space
    <3>1. /\ b \in Seq(Lexemes) /\ f \in Seq(Lexemes) /\ s \in Seq(Lexemes) /\ s # <<>>
          /\ s[1] = Space
      BY <1>1 DEF Texts
    <3> HIDE DEF s
    <3> QED BY <3>1, PutTogether, FirstStays, ConcatProperties DEF Texts
  <2>2. b \o (s \o f) \in Texts
        /\ (b # <<>> => (b \o (s \o f))[1] = b[1] /\ b \o (s \o f) # <<>>)
    <3> DEFINE g == s \o f
    <3>1. g \in Seq(Lexemes) /\ b \in Seq(Lexemes) /\ g # <<>>
      BY <2>1 DEF Texts
    <3> HIDE DEF g
    <3>2. b \o g \in Texts /\ (b # <<>> => (b \o g)[1] = b[1] /\ b \o g # <<>>)
      <4>1. b \o g \in Texts
        BY ONLY <3>1, ConcatProperties DEF Texts
      <4>2. b # <<>> => b \o g # <<>>
        BY ONLY <3>1, PutTogether
      <4>3. b # <<>> => (b \o g)[1] = b[1]
        BY ONLY <3>1, FirstStays
      <4> QED BY <4>1, <4>2, <4>3
    <3> QED BY <3>2 DEF g
  <2>3. (b \o s) \o f = b \o (s \o f) /\ (a \o b) \o f = a \o (b \o f)
        /\ ((a \o b) \o s) \o f = a \o (b \o (s \o f)) /\ Append(a \o b, Space) = (a \o b) \o s
    <3>1. /\ a \in Seq(Lexemes) /\ b \in Seq(Lexemes) /\ f \in Seq(Lexemes) /\ s \in Seq(Lexemes)
          /\ a \o b \in Seq(Lexemes) /\ s \o f \in Seq(Lexemes)
      BY <1>1, ConcatProperties DEF Texts
    <3>2. Append(a \o b, Space) = (a \o b) \o s
      <4> DEFINE c == a \o b
      <4>1. c \in Seq(Lexemes)
        BY <3>1
      <4> HIDE DEF c
      <4>2. Append(c, Space) = c \o <<Space>>
        BY ONLY <4>1, SpaceIsLexeme, AppendIsConcat
      <4> QED BY <4>2 DEF c
    <3>3. ((a \o b) \o s) \o f = (a \o b) \o (s \o f)
      <4> DEFINE c == a \o b
      <4>1. c \in Seq(Lexemes)
        BY <3>1
      <4> HIDE DEF c, s
      <4>2. (c \o s) \o f = c \o (s \o f)
        BY ONLY <3>1, <4>1, ConcatAssociative, SMTT(30)
      <4> QED BY <4>2 DEF c
    <3>4. (a \o b) \o (s \o f) = a \o (b \o (s \o f))
      <4> DEFINE g == s \o f
      <4>1. g \in Seq(Lexemes)
        BY <3>1
      <4> HIDE DEF g
      <4>2. (a \o b) \o g = a \o (b \o g)
        BY <3>1, <4>1, ConcatAssociative
      <4> QED BY <4>2 DEF g
    <3> HIDE DEF s
    <3>5. (b \o s) \o f = b \o (s \o f)
      BY ONLY <3>1, ConcatAssociative
    <3>6. (a \o b) \o f = a \o (b \o f)
      BY ONLY <3>1, ConcatAssociative, SMTT(30)
    <3> QED BY <3>2, <3>3, <3>4, <3>5, <3>6
  <2>4. CASE t = a \o b
    <3>1. CASE b = <<>>
      <4>1. a = <<>> /\ t = <<>>
        BY <1>1, <2>4, <3>1, ConcatEmptySeq DEF Texts
      <4>2. Join(b, f) = f /\ Join(t, f) = f /\ a \o f = f
        <5>1. <<>> \o f = f
          BY ConcatEmptySeq DEF Texts
        <5> QED BY <3>1, <4>1, <5>1 DEF Join, Touch
      <4> QED BY <3>1, <4>2
    <3>2. CASE b # <<>>
      <4>1. t # <<>> /\ Last(t) = Last(b)
        <5>1. a \in Seq(Lexemes) /\ b \in Seq(Lexemes)
          BY <1>1 DEF Texts
        <5> QED BY <2>4, <3>2, <5>1, PutTogether
      <4>2. CASE Last(b) # Space /\ Head(f) # Space
        <5>1. Join(b, f) = b \o (s \o f) /\ Join(t, f) = a \o (b \o (s \o f))
          BY <2>3, <2>4, <3>2, <4>1, <4>2 DEF Join, Touch
        <5> HIDE DEF s
        <5> QED BY <2>2, <5>1
      <4>3. CASE ~(Last(b) # Space /\ Head(f) # Space)
        <5>1. Join(b, f) = b \o f /\ Join(t, f) = a \o (b \o f)
          BY <2>3, <2>4, <3>2, <4>1, <4>3 DEF Join, Touch
        <5> QED BY <2>1, <5>1
      <4> QED BY <4>2, <4>3
    <3> QED BY <3>1, <3>2
  <2>5. CASE t = Append(a \o b, Space) /\ b # <<>> /\ Last(b) # Space
    <3>1. t # <<>> /\ Last(t) = Space
      <4> DEFINE c == a \o b
      <4>1. c \in Seq(Lexemes)
        BY <1>1, ConcatProperties DEF Texts
      <4> HIDE DEF c
      <4>2. Append(c, Space) # <<>> /\ Last(Append(c, Space)) = Space
        BY <4>1, SpaceIsLexeme, Ends2
      <4> QED BY <2>5, <4>2 DEF c
    <3>2. Join(t, f) = t \o f
      BY <3>1 DEF Join, Touch
    <3>3. f[1] # Space
      BY <3>1, <3>2, SingleParts
    <3>4. Join(b, f) = b \o (s \o f)
      BY <1>1, <2>3, <2>5, <3>3 DEF Join, Touch
    <3>5. Join(t, f) = a \o (b \o (s \o f))
      BY <2>3, <2>5, <3>2
    <3> HIDE DEF s
    <3> QED BY <2>2, <2>5, <3>4, <3>5
  <2> HIDE DEF s
  <2> QED BY <2>4, <2>5 DEF Place
<1>3. Single(j)
  BY <1>1, <1>2, SingleParts
<1>4. a = <<>> \/ (j # <<>> /\ j[1] # Space)
  BY <1>1, <1>2
<1>5. Place(a, Join(t, f), k, j, n)
  <2>1. \A y \in Texts : (a = <<>> \/ (y # <<>> /\ y[1] # Space)) =>
           SplitForStreaming(a \o y, n) = k \o SplitForStreaming(y, n)
    BY DEF Place
  <2>2. Join(t, f) = a \o j
    BY <1>2
  <2> QED BY <1>1, <1>4, <2>1, <2>2 DEF Place
<1> QED BY <1>2, <1>3, <1>5
\* All parts but the last are taken, and the last stays in the buffer.
LEMMA TakenPlace ==
    ASSUME NEW t, NEW k \in Clauses, NEW u \in Texts, NEW n, NEW a,
           Place(a, t, k, u, n), t = a \o u, Single(u),
           Len(SplitForStreaming(u, n)) > 1
    PROVE  \E c : Place(c, t, k \o Front(SplitForStreaming(u, n)),
                        Last(SplitForStreaming(u, n)), n)
<1>1. PICK b, w, e : Cuts(u, n, b, w, e)
  <2>1. u \notin {<<>>, <<Space>>}
    <3>1. Len(<<>>) = 0
      OBVIOUS
    <3> QED BY <3>1, SplitNothing
  <2> QED BY <2>1, EveryTextIsCut DEF IsCut
<1>2. /\ u = (b \o w) \o e /\ b \in Texts /\ w \in Texts /\ e \in {<<>>, <<Space>>}
      /\ w # <<>> /\ w[1] # Space /\ Last(w) # Space
      /\ Open(b) /\ Full(SplitForStreaming(b, n), n)
  BY <1>1 DEF Cuts
<1> DEFINE P == SplitForStreaming(b, n)
<1>3. P \in Clauses /\ SplitForStreaming(u, n) = Append(P, w)
  BY <1>1, <1>2, SplitType DEF Cuts
<1>4. Front(SplitForStreaming(u, n)) = P /\ Last(SplitForStreaming(u, n)) = w
  <2> HIDE DEF P
  <2> QED BY <1>2, <1>3, Ends2 DEF Clauses
<1>5. b # <<>>
  <2> SUFFICES ASSUME b = <<>> PROVE FALSE
    OBVIOUS
  <2>1. P = <<>>
    BY SplitNothing
  <2>2. Len(Append(<<>>, w)) = 1
    OBVIOUS
  <2> QED BY <1>3, <2>1, <2>2
<1>6. a \in Seq(Lexemes) /\ b \in Seq(Lexemes) /\ w \in Seq(Lexemes) /\ e \in Seq(Lexemes)
      /\ b \o w \in Seq(Lexemes)
  BY <1>2, SpaceIsLexeme, ConcatProperties DEF Place, Texts
<1> DEFINE c == a \o b
<1>7. c \in Texts /\ c # <<>>
  BY <1>5, <1>6, PutTogether DEF Texts
<1>8. t = (c \o w) \o e
  <2> DEFINE v == b \o w
  <2>1. v \in Seq(Lexemes) /\ u = v \o e
    BY <1>2, <1>6
  <2> HIDE DEF v
  <2>2. (a \o v) \o e = a \o (v \o e)
    <3>1. a \in Seq(Lexemes) /\ v \in Seq(Lexemes) /\ e \in Seq(Lexemes)
      BY <1>6, <2>1
    <3> QED BY ONLY <3>1, ConcatAssociative
  <2>3. (a \o b) \o w = a \o v
    <3>1. (a \o b) \o w = a \o (b \o w)
      <4>1. a \in Seq(Lexemes) /\ b \in Seq(Lexemes) /\ w \in Seq(Lexemes)
        BY <1>6
      <4> QED BY ONLY <4>1, ConcatAssociative
    <3> QED BY <3>1 DEF v
  <2> QED BY <2>1, <2>2, <2>3
<1>9. t = c \o w \/ (t = Append(c \o w, Space) /\ w # <<>> /\ Last(w) # Space)
  <2> DEFINE d == c \o w
  <2>1. d \in Seq(Lexemes)
    <3> HIDE DEF c
    <3> QED BY <1>6, <1>7, ConcatProperties DEF Texts
  <2>2. t = d \o e
    BY <1>8
  <2> HIDE DEF d, c
  <2>3. d \o <<>> = d /\ Append(d, Space) = d \o <<Space>>
    BY <2>1, SpaceIsLexeme, ConcatEmptySeq, AppendIsConcat
  <2>4. t = d \/ t = Append(d, Space)
    BY <1>2, <2>2, <2>3
  <2> QED BY <1>2, <2>4 DEF d
<1>10. a = <<>> \/ b[1] # Space
  <2>1. a = <<>> \/ u[1] # Space
    BY DEF Place
  <2>2. u[1] = b[1]
    <3> DEFINE v == b \o w
    <3>1. v \in Seq(Lexemes) /\ v # <<>> /\ v[1] = b[1] /\ u = v \o e
      BY <1>2, <1>5, <1>6, FirstStays, PutTogether
    <3> HIDE DEF v
    <3> QED BY <1>6, <3>1, FirstStays
  <2> QED BY <2>1, <2>2
<1>11. ASSUME NEW y \in Texts, y # <<>>, y[1] # Space
       PROVE  SplitForStreaming(c \o y, n) = (k \o P) \o SplitForStreaming(y, n)
  <2> DEFINE z == b \o y
             R == SplitForStreaming(y, n)
  <2>1. z \in Texts /\ z # <<>> /\ z[1] = b[1]
    <3>1. y \in Seq(Lexemes)
      BY DEF Texts
    <3> QED BY <1>5, <1>6, <1>11, <3>1, FirstStays, PutTogether DEF Texts
  <2>2. R \in Clauses
    BY SplitType
  <2>3. SplitForStreaming(z, n) = P \o R
    BY <1>2, <1>11, SplitCut
  <2>4. c \o y = a \o z
    <3>1. a \in Seq(Lexemes) /\ b \in Seq(Lexemes) /\ y \in Seq(Lexemes)
      BY <1>6 DEF Texts
    <3>2. (a \o b) \o y = a \o (b \o y)
      BY ONLY <3>1, ConcatAssociative
    <3> QED BY <3>2
  <2> HIDE DEF z
  <2>5. SplitForStreaming(a \o z, n) = k \o SplitForStreaming(z, n)
    BY <1>10, <2>1 DEF Place
  <2>6. k \o (P \o R) = (k \o P) \o R
    <3> HIDE DEF P, R
    <3>1. k \in Seq(Texts) /\ P \in Seq(Texts) /\ R \in Seq(Texts)
      BY <1>3, <2>2 DEF Clauses
    <3> QED BY ONLY <3>1, ConcatAssociative
  <2> QED BY <2>3, <2>4, <2>5, <2>6
<1>12. Place(c, t, k \o P, w, n)
  <2> HIDE DEF c, P
  <2> QED BY <1>2, <1>7, <1>9, <1>11 DEF Place
<1> QED BY <1>4, <1>12

------------------------------------------------------------------------------
(* The cache: what one look-up does to the order of use. *)

Said    == {Normalize(c) : c \in Texts}
Entry   == {[key |-> s, latents |-> s] : s \in Said}
Results == {[text |-> c, latents |-> Normalize(c), index |-> i] : c \in Texts, i \in Nat}

KeysFrom(c, k) == {c[l].key : l \in k..Len(c)}
UsesFrom(u, k) == {u[j] : j \in k..Len(u)}

InOrder(c, u) ==
    /\ \A k, l \in 1..Len(c) : c[k].key = c[l].key => k = l
    /\ \A k \in 1..Len(c) :
         \E j \in 1..Len(u) : u[j] = c[k].key /\ UsesFrom(u, j + 1) = KeysFrom(c, k + 1)

Recent(c, u) ==
    /\ Len(c) <= CacheSize
    /\ Len(c) < CacheSize => UsesFrom(u, 1) = KeysFrom(c, 1)
    /\ InOrder(c, u)

LEMMA UsedOnceMore ==
    ASSUME NEW u \in Seq(Said), NEW x \in Said
    PROVE  /\ Append(u, x) \in Seq(Said) /\ Len(Append(u, x)) = Len(u) + 1
           /\ \A j \in 1..Len(u) : Append(u, x)[j] = u[j]
           /\ Append(u, x)[Len(u) + 1] = x
           /\ \A j \in 1..(Len(u) + 1) : UsesFrom(Append(u, x), j) = UsesFrom(u, j) \cup {x}
           /\ UsesFrom(Append(u, x), Len(u) + 2) = {}
<1>1. /\ Append(u, x) \in Seq(Said) /\ Len(Append(u, x)) = Len(u) + 1 /\ Len(u) \in Nat
      /\ \A j \in 1..Len(u) : Append(u, x)[j] = u[j]
      /\ Append(u, x)[Len(u) + 1] = x
  BY AppendProperties
<1> DEFINE v == Append(u, x)
<1>2. /\ Len(v) = Len(u) + 1 /\ v[Len(u) + 1] = x
      /\ \A j \in 1..Len(u) : v[j] = u[j]
  BY <1>1
<1> HIDE DEF v
<1>3. ASSUME NEW j \in 1..(Len(u) + 1) PROVE UsesFrom(v, j) = UsesFrom(u, j) \cup {x}
  <2>1. j..Len(v) = (j..Len(u)) \cup {Len(u) + 1}
    BY <1>1, <1>2
  <2>2. \A i \in j..Len(u) : v[i] = u[i]
    BY <1>1, <1>2
  <2> QED BY <1>2, <2>1, <2>2 DEF UsesFrom
<1>4. UsesFrom(v, Len(u) + 2) = {}
  <2>1. (Len(u) + 2)..Len(v) = {}
    BY <1>1, <1>2
  <2> QED BY <2>1 DEF UsesFrom
<1> QED BY <1>1, <1>3, <1>4 DEF v

LEMMA EntryType ==
    ASSUME NEW e \in Entry
    PROVE  e.key \in Said /\ e.latents = e.key
BY DEF Entry

\* An entry moved to the end.
LEMMA Moved ==
    ASSUME NEW c \in Seq(Entry), NEW k \in 1..Len(c)
    PROVE  LET d == Append(RemoveAt(c, k), c[k]) IN
           /\ d \in Seq(Entry) /\ Len(d) = Len(c) /\ d[Len(c)] = c[k]
           /\ \A i \in 1..(Len(c) - 1) : d[i] = IF i < k THEN c[i] ELSE c[i + 1]
<1> DEFINE n == Len(c)
           a == SubSeq(c, 1, k - 1)
           b == SubSeq(c, k + 1, n)
<1>1. n \in Nat /\ k \in Nat /\ c[k] \in Entry
  OBVIOUS
<1>2. a \in Seq(Entry) /\ Len(a) = k - 1 /\ \A i \in 1..(k - 1) : a[i] = c[i]
  <2>1. \A i \in 1..(k - 1) : i \in 1..n
    BY <1>1
  <2> QED BY <1>1, <2>1, SubSeqProperties
<1>3. b \in Seq(Entry) /\ Len(b) = n - k /\ \A i \in 1..(n - k) : b[i] = c[i + k]
  <2>1. \A i \in (k + 1)..n : i \in 1..n
    BY <1>1
  <2> QED BY <1>1, <2>1, SubSeqProperties
<1>4. RemoveAt(c, k) = a \o b
  BY DEF RemoveAt
<1> HIDE DEF n, a, b
<1>5. a \o b \in Seq(Entry) /\ Len(a \o b) = n - 1
  <2>1. Len(a) + Len(b) = n - 1
    BY <1>1, <1>2, <1>3
  <2> QED BY <1>2, <1>3, <2>1, ConcatProperties
<1>6. \A i \in 1..(n - 1) : (a \o b)[i] = IF i < k THEN c[i] ELSE c[i + 1]
  BY <1>1, <1>2, <1>3
<1> QED BY <1>1, <1>4, <1>5, <1>6 DEF n

LEMMA TouchedRecent ==
    ASSUME NEW c \in Seq(Entry), NEW u \in Seq(Said), Recent(c, u), NEW k \in 1..Len(c)
    PROVE  LET d == Append(RemoveAt(c, k), c[k]) IN
           d \in Seq(Entry) /\ Recent(d, Append(u, c[k].key))
<1> DEFINE d == Append(RemoveAt(c, k), c[k])
           v == Append(u, c[k].key)
           n == Len(c)
           x == c[k].key
<1>1. /\ d \in Seq(Entry) /\ Len(d) = n /\ d[n] = c[k]
      /\ \A i \in 1..(n - 1) : d[i] = IF i < k THEN c[i] ELSE c[i + 1]
  BY Moved
<1>2. x \in Said /\ n \in Nat /\ n >= 1 /\ k \in 1..n /\ Len(u) \in Nat
  BY EntryType
<1>3. /\ v \in Seq(Said) /\ Len(v) = Len(u) + 1
      /\ \A j \in 1..Len(u) : v[j] = u[j]
      /\ v[Len(u) + 1] = x
      /\ \A j \in 1..(Len(u) + 1) : UsesFrom(v, j) = UsesFrom(u, j) \cup {x}
      /\ UsesFrom(v, Len(u) + 2) = {}
  BY <1>2, UsedOnceMore
<1>4. /\ n <= CacheSize
      /\ \A i, l \in 1..n : c[i].key = c[l].key => i = l
      /\ n < CacheSize => UsesFrom(u, 1) = KeysFrom(c, 1)
      /\ \A i \in 1..n :
           \E j \in 1..Len(u) : u[j] = c[i].key /\ UsesFrom(u, j + 1) = KeysFrom(c, i + 1)
  BY DEF Recent, InOrder
<1> HIDE DEF d, v
\* Where the entry that is at i was.
<1> DEFINE was == [i \in 1..n |-> IF i = n THEN k ELSE IF i < k THEN i ELSE i + 1]
<1>5. \A i \in 1..n : was[i] \in 1..n /\ d[i] = c[was[i]]
  BY <1>1, <1>2
<1>6. \A i, l \in 1..n : was[i] = was[l] => i = l
  BY <1>2
<1>7. \A i \in 1..n : \E l \in 1..n : was[l] = i
  <2> SUFFICES ASSUME NEW i \in 1..n PROVE \E l \in 1..n : was[l] = i
    OBVIOUS
  <2>1. CASE i = k
    BY <1>2, <2>1
  <2>2. CASE i < k
    BY <1>2, <2>2
  <2>3. CASE i > k
    <3>1. i - 1 \in 1..n /\ was[i - 1] = i
      BY <1>2, <2>3
    <3> QED BY <3>1
  <2> QED BY <1>2, <2>1, <2>2, <2>3
<1>8. ASSUME NEW i \in 1..n, i < k
      PROVE  KeysFrom(d, i + 1) = KeysFrom(c, i + 1)
  <2>1. \A l \in (i + 1)..n : was[l] \in (i + 1)..n /\ d[l] = c[was[l]]
    BY <1>1, <1>2, <1>8
  <2>2. ASSUME NEW m \in (i + 1)..n PROVE \E l \in (i + 1)..n : was[l] = m
    <3>1. CASE m = k
      BY <1>2, <3>1
    <3>2. CASE m < k
      BY <1>2, <3>2
    <3>3. CASE m > k
      <4>1. m - 1 \in (i + 1)..n /\ was[m - 1] = m
        BY <1>2, <1>8, <3>3
      <4> QED BY <4>1
    <3> QED BY <1>2, <3>1, <3>2, <3>3
  <2> HIDE DEF was
  <2>3. KeysFrom(d, i + 1) \subseteq KeysFrom(c, i + 1)
    <3>1. ASSUME NEW l \in (i + 1)..n PROVE d[l].key \in KeysFrom(c, i + 1)
      <4>1. was[l] \in (i + 1)..Len(c) /\ d[l].key = c[was[l]].key
        BY <1>1, <2>1
      <4> QED BY <4>1 DEF KeysFrom
    <3>2. Len(d) = n
      BY <1>1
    <3> QED BY <3>1, <3>2 DEF KeysFrom
  <2>4. ASSUME NEW m \in (i + 1)..n PROVE c[m].key \in KeysFrom(d, i + 1)
    <3>1. PICK l \in (i + 1)..n : was[l] = m
      BY <2>2
    <3>2. d[l].key = c[m].key /\ l \in (i + 1)..Len(d)
      BY <1>1, <2>1, <3>1
    <3> QED BY <3>2 DEF KeysFrom
  <2>5. KeysFrom(c, i + 1) \subseteq KeysFrom(d, i + 1)
    BY <2>4 DEF KeysFrom
  <2> QED BY <2>3, <2>5
<1>9. ASSUME NEW i \in 1..n, i >= k, i < n
      PROVE  KeysFrom(d, i + 1) = KeysFrom(c, i + 2) \cup {x}
  <2>1. \A l \in (i + 1)..n : was[l] \in ((i + 2)..n) \cup {k} /\ d[l] = c[was[l]]
    BY <1>1, <1>2, <1>9
  <2>2. ASSUME NEW m \in (i + 2)..n PROVE \E l \in (i + 1)..n : was[l] = m
    <3>1. m - 1 \in (i + 1)..n /\ was[m - 1] = m
      BY <1>2, <1>9
    <3> QED BY <3>1
  <2>3. was[n] = k /\ n \in (i + 1)..n
    BY <1>2, <1>9
  <2> HIDE DEF was
  <2>4. KeysFrom(d, i + 1) \subseteq KeysFrom(c, i + 2) \cup {x}
    <3>1. ASSUME NEW l \in (i + 1)..n PROVE d[l].key \in KeysFrom(c, i + 2) \cup {x}
      <4>1. d[l].key = c[was[l]].key /\ was[l] \in ((i + 2)..Len(c)) \cup {k}
        BY <1>1, <2>1
      <4>2. CASE was[l] = k
        BY <1>1, <4>1, <4>2
      <4>3. CASE was[l] \in (i + 2)..Len(c)
        BY <4>1, <4>3 DEF KeysFrom
      <4> QED BY <4>1, <4>2, <4>3
    <3>2. Len(d) = n
      BY <1>1
    <3> QED BY <3>1, <3>2 DEF KeysFrom
  <2>5. ASSUME NEW m \in ((i + 2)..n) \cup {k} PROVE c[m].key \in KeysFrom(d, i + 1)
    <3>1. PICK l \in (i + 1)..n : was[l] = m
      BY <2>2, <2>3
    <3>2. d[l].key = c[m].key /\ l \in (i + 1)..Len(d)
      BY <1>1, <2>1, <3>1
    <3> QED BY <3>2 DEF KeysFrom
  <2>6. KeysFrom(c, i + 2) \cup {x} \subseteq KeysFrom(d, i + 1)
    BY <2>5 DEF KeysFrom
  <2> QED BY <2>4, <2>6
<1>10. KeysFrom(d, n + 1) = {}
  BY <1>1, <1>2 DEF KeysFrom
<1>11. KeysFrom(d, 1) = KeysFrom(c, 1) /\ x \in KeysFrom(c, 1)
  <2> HIDE DEF was
  <2>1. ASSUME NEW i \in 1..n PROVE d[i].key \in KeysFrom(c, 1)
    BY <1>5 DEF KeysFrom
  <2>2. ASSUME NEW i \in 1..n PROVE c[i].key \in KeysFrom(d, 1)
    <3>1. PICK l \in 1..n : was[l] = i
      BY <1>7
    <3>2. d[l].key = c[i].key /\ l \in 1..Len(d)
      BY <1>1, <1>5, <3>1
    <3> QED BY <3>2 DEF KeysFrom
  <2>3. KeysFrom(d, 1) \subseteq KeysFrom(c, 1)
    BY <1>1, <2>1 DEF KeysFrom
  <2>4. KeysFrom(c, 1) \subseteq KeysFrom(d, 1)
    BY <2>2 DEF KeysFrom
  <2>5. x \in KeysFrom(c, 1)
    BY <1>2 DEF KeysFrom
  <2> QED BY <2>3, <2>4, <2>5
<1>12. ASSUME NEW i \in 1..n
       PROVE  \E j \in 1..Len(v) : v[j] = d[i].key /\ UsesFrom(v, j + 1) = KeysFrom(d, i + 1)
  <2>1. CASE i = n
    <3>1. Len(u) + 1 \in 1..Len(v) /\ (Len(u) + 1) + 1 = Len(u) + 2
      BY <1>2, <1>3
    <3>2. v[Len(u) + 1] = d[i].key
      BY <1>1, <1>3, <2>1
    <3> QED BY <1>3, <1>10, <2>1, <3>1, <3>2
  <2>2. CASE i < k
    <3>1. PICK j \in 1..Len(u) : u[j] = c[i].key /\ UsesFrom(u, j + 1) = KeysFrom(c, i + 1)
      BY <1>4
    <3>2. x \in KeysFrom(c, i + 1)
      BY <1>2, <2>2 DEF KeysFrom
    <3>3. j \in 1..Len(v) /\ v[j] = u[j] /\ j + 1 \in 1..(Len(u) + 1)
      BY <1>2, <1>3
    <3>4. UsesFrom(v, j + 1) = KeysFrom(d, i + 1)
      <4>1. UsesFrom(v, j + 1) = UsesFrom(u, j + 1) \cup {x}
        BY <1>3, <3>3
      <4>2. KeysFrom(d, i + 1) = KeysFrom(c, i + 1)
        BY <1>8, <2>2
      <4> QED BY <3>1, <3>2, <4>1, <4>2
    <3>5. d[i] = c[i]
      BY <1>1, <1>2, <2>2
    <3> QED BY <3>1, <3>3, <3>4, <3>5
  <2>3. CASE i >= k /\ i < n
    <3>1. i + 1 \in 1..n /\ (i + 1) + 1 = i + 2
      BY <1>2, <2>3
    <3>2. PICK j \in 1..Len(u) : u[j] = c[i + 1].key /\ UsesFrom(u, j + 1) = KeysFrom(c, i + 2)
      BY <1>4, <3>1
    <3>3. j \in 1..Len(v) /\ v[j] = u[j] /\ j + 1 \in 1..(Len(u) + 1)
      BY <1>2, <1>3
    <3>4. UsesFrom(v, j + 1) = KeysFrom(d, i + 1)
      BY <1>3, <1>9, <2>3, <3>2, <3>3
    <3>5. d[i] = c[i + 1]
      BY <1>1, <1>2, <2>3
    <3> QED BY <3>2, <3>3, <3>4, <3>5
  <2> QED BY <1>2, <2>1, <2>2, <2>3
<1>13. ASSUME NEW i \in 1..n, NEW l \in 1..n, d[i].key = d[l].key PROVE i = l
  <2> HIDE DEF was
  <2>1. /\ was[i] \in 1..n /\ d[i] = c[was[i]]
        /\ was[l] \in 1..n /\ d[l] = c[was[l]]
    BY <1>5
  <2>2. c[was[i]].key = c[was[l]].key
    BY <1>13, <2>1
  <2>3. was[i] = was[l]
    BY <1>4, <2>1, <2>2
  <2> QED BY <1>6, <2>3
<1>14. ASSUME n < CacheSize PROVE UsesFrom(v, 1) = KeysFrom(d, 1)
  <2>1. UsesFrom(v, 1) = UsesFrom(u, 1) \cup {x}
    BY <1>2, <1>3
  <2>2. UsesFrom(u, 1) = KeysFrom(c, 1)
    BY <1>4, <1>14
  <2> QED BY <1>11, <2>1, <2>2
<1>15. Recent(d, v)
  BY <1>1, <1>4, <1>12, <1>13, <1>14 DEF Recent, InOrder
<1> QED BY <1>1, <1>15 DEF d, v

\* A new entry at the end.
LEMMA AddedInOrder ==
    ASSUME NEW c \in Seq(Entry), NEW u \in Seq(Said), NEW e \in Entry,
           InOrder(c, u), \A k \in 1..Len(c) : c[k].key # e.key
    PROVE  LET d == Append(c, e)
               v == Append(u, e.key)
           IN  /\ d \in Seq(Entry) /\ Len(d) = Len(c) + 1 /\ InOrder(d, v)
               /\ KeysFrom(d, 1) = KeysFrom(c, 1) \cup {e.key}
<1> DEFINE d == Append(c, e)
           v == Append(u, e.key)
           n == Len(c)
<1>1. /\ d \in Seq(Entry) /\ Len(d) = n + 1 /\ n \in Nat /\ Len(u) \in Nat
      /\ d[n + 1] = e /\ \A k \in 1..n : d[k] = c[k]
  BY AppendProperties
<1>2. /\ v \in Seq(Said) /\ Len(v) = Len(u) + 1
      /\ \A j \in 1..Len(u) : v[j] = u[j]
      /\ v[Len(u) + 1] = e.key
      /\ \A j \in 1..(Len(u) + 1) : UsesFrom(v, j) = UsesFrom(u, j) \cup {e.key}
      /\ UsesFrom(v, Len(u) + 2) = {}
  BY EntryType, UsedOnceMore
<1> HIDE DEF d, v
<1>3. ASSUME NEW k \in 1..(n + 1) PROVE KeysFrom(d, k) = KeysFrom(c, k) \cup {e.key}
  <2>1. k..Len(d) = (k..n) \cup {n + 1}
    BY <1>1
  <2>2. \A l \in k..n : d[l] = c[l]
    BY <1>1
  <2>3. KeysFrom(d, k) = {d[l].key : l \in k..n} \cup {d[n + 1].key}
    BY <2>1 DEF KeysFrom
  <2>4. KeysFrom(c, k) = {d[l].key : l \in k..n}
    BY <2>2 DEF KeysFrom
  <2> QED BY <1>1, <2>3, <2>4
<1>4. KeysFrom(d, n + 2) = {}
  <2>1. (n + 2)..Len(d) = {}
    BY <1>1
  <2> QED BY <2>1 DEF KeysFrom
<1>5. ASSUME NEW k \in 1..(n + 1)
      PROVE  \E j \in 1..Len(v) : v[j] = d[k].key /\ UsesFrom(v, j + 1) = KeysFrom(d, k + 1)
  <2>1. CASE k = n + 1
    <3>1. Len(u) + 1 \in 1..Len(v) /\ (Len(u) + 1) + 1 = Len(u) + 2 /\ k + 1 = n + 2
      BY <1>1, <1>2, <2>1
    <3> QED BY <1>1, <1>2, <1>4, <2>1, <3>1
  <2>2. CASE k <= n
    <3>1. k \in 1..n /\ k + 1 \in 1..(n + 1)
      BY <1>1, <2>2
    <3>2. PICK j \in 1..Len(u) : u[j] = c[k].key /\ UsesFrom(u, j + 1) = KeysFrom(c, k + 1)
      BY <3>1 DEF InOrder
    <3>3. j \in 1..Len(v) /\ j + 1 \in 1..(Len(u) + 1) /\ v[j] = u[j]
      BY <1>1, <1>2
    <3>4. UsesFrom(v, j + 1) = UsesFrom(u, j + 1) \cup {e.key}
      BY <1>2, <3>3
    <3>5. KeysFrom(d, k + 1) = KeysFrom(c, k + 1) \cup {e.key}
      BY <1>3, <3>1
    <3>6. d[k] = c[k]
      BY <1>1, <3>1
    <3> QED BY <3>2, <3>3, <3>4, <3>5, <3>6
  <2> QED BY <1>1, <2>1, <2>2
<1>6. ASSUME NEW k \in 1..(n + 1), NEW l \in 1..(n + 1), d[k].key = d[l].key PROVE k = l
  <2>1. \A i \in 1..n : d[i].key = c[i].key /\ d[i].key # e.key
    BY <1>1
  <2>2. d[n + 1].key = e.key
    BY <1>1
  <2>3. CASE k = n + 1
    BY <1>1, <1>6, <2>1, <2>2, <2>3
  <2>4. CASE l = n + 1
    BY <1>1, <1>6, <2>1, <2>2, <2>4
  <2>5. CASE k \in 1..n /\ l \in 1..n
    BY <1>6, <2>1, <2>5 DEF InOrder
  <2> QED BY <1>1, <2>3, <2>4, <2>5
<1>7. KeysFrom(d, 1) = KeysFrom(c, 1) \cup {e.key}
  BY <1>1, <1>3
<1>8. InOrder(d, v)
  BY <1>1, <1>5, <1>6 DEF InOrder
<1> QED BY <1>1, <1>7, <1>8 DEF d, v

\* The oldest entry dropped.
LEMMA EvictedInOrder ==
    ASSUME NEW d \in Seq(Entry), d # <<>>, NEW v, InOrder(d, v)
    PROVE  Tail(d) \in Seq(Entry) /\ Len(Tail(d)) = Len(d) - 1 /\ InOrder(Tail(d), v)
<1> DEFINE c == Tail(d)
           n == Len(d)
<1>1. /\ c \in Seq(Entry) /\ Len(c) = n - 1 /\ n \in Nat \ {0}
      /\ \A k \in 1..(n - 1) : c[k] = d[k + 1]
  BY HeadTailProperties
<1> HIDE DEF c
<1>2. ASSUME NEW k \in 1..n PROVE KeysFrom(c, k) = KeysFrom(d, k + 1)
  <2>1. \A l \in k..(n - 1) : c[l] = d[l + 1] /\ l + 1 \in (k + 1)..n
    BY <1>1
  <2>2. ASSUME NEW m \in (k + 1)..n PROVE d[m].key \in KeysFrom(c, k)
    <3>1. m - 1 \in k..Len(c) /\ d[m] = c[m - 1]
      BY <1>1
    <3> QED BY <3>1 DEF KeysFrom
  <2>3. KeysFrom(c, k) \subseteq KeysFrom(d, k + 1)
    BY <1>1, <2>1, SMTT(30) DEF KeysFrom
  <2>4. KeysFrom(d, k + 1) \subseteq KeysFrom(c, k)
    <3>1. KeysFrom(d, k + 1) = {d[m].key : m \in (k + 1)..n}
      BY DEF KeysFrom
    <3> QED BY <2>2, <3>1
  <2> QED BY <2>3, <2>4
<1>3. ASSUME NEW k \in 1..(n - 1)
      PROVE  \E j \in 1..Len(v) : v[j] = c[k].key /\ UsesFrom(v, j + 1) = KeysFrom(c, k + 1)
  <2>1. k + 1 \in 1..n /\ c[k] = d[k + 1]
    BY <1>1
  <2>2. PICK j \in 1..Len(v) : v[j] = d[k + 1].key /\ UsesFrom(v, j + 1) = KeysFrom(d, (k + 1) + 1)
    BY <2>1 DEF InOrder
  <2>3. KeysFrom(c, k + 1) = KeysFrom(d, (k + 1) + 1)
    BY <1>2, <2>1
  <2> QED BY <2>1, <2>2, <2>3
<1>4. ASSUME NEW k \in 1..(n - 1), NEW l \in 1..(n - 1), c[k].key = c[l].key PROVE k = l
  <2>1. k + 1 \in 1..n /\ l + 1 \in 1..n /\ c[k] = d[k + 1] /\ c[l] = d[l + 1]
    BY <1>1
  <2>2. k + 1 = l + 1
    BY <1>4, <2>1 DEF InOrder
  <2> QED BY <2>2
<1>5. InOrder(c, v)
  BY <1>1, <1>3, <1>4 DEF InOrder
<1> QED BY <1>1, <1>5 DEF c

LEMMA MissedRecent ==
    ASSUME NEW c \in Seq(Entry), NEW u \in Seq(Said), NEW e \in Entry, Recent(c, u),
           \A k \in 1..Len(c) : c[k].key # e.key
    PROVE  LET more == Append(c, e)
               d == IF Len(more) > CacheSize THEN Tail(more) ELSE more
           IN  d \in Seq(Entry) /\ Recent(d, Append(u, e.key))
<1> DEFINE more == Append(c, e)
           v == Append(u, e.key)
<1>1. /\ more \in Seq(Entry) /\ Len(more) = Len(c) + 1 /\ InOrder(more, v)
      /\ KeysFrom(more, 1) = KeysFrom(c, 1) \cup {e.key}
  BY AddedInOrder DEF Recent
<1>2. UsesFrom(v, 1) = UsesFrom(u, 1) \cup {e.key}
  <2>1. 1 \in 1..(Len(u) + 1) /\ e.key \in Said
    BY EntryType
  <2> QED BY <2>1, UsedOnceMore
<1>3. /\ Len(c) \in Nat /\ CacheSize \in Nat /\ Len(c) <= CacheSize
      /\ Len(c) < CacheSize => UsesFrom(u, 1) = KeysFrom(c, 1)
  BY SizesAssumption DEF Recent
<1> HIDE DEF more, v
<1>4. CASE Len(more) > CacheSize
  <2>1. more # <<>>
    BY <1>1, <1>3
  <2> DEFINE d == Tail(more)
  <2>2. d \in Seq(Entry) /\ Len(d) = Len(more) - 1 /\ InOrder(d, v)
    BY <1>1, <2>1, EvictedInOrder
  <2>3. Len(d) = CacheSize
    BY <1>1, <1>3, <1>4, <2>2
  <2> HIDE DEF d
  <2>4. Recent(d, v)
    BY <1>3, <2>2, <2>3 DEF Recent
  <2> QED BY <1>4, <2>2, <2>4 DEF d, more, v
<1>5. CASE ~(Len(more) > CacheSize)
  <2>1. Len(more) <= CacheSize /\ Len(c) < CacheSize
    BY <1>1, <1>3, <1>5
  <2>3. UsesFrom(v, 1) = KeysFrom(more, 1)
    BY <1>1, <1>2, <1>3, <2>1
  <2>2. Recent(more, v)
    BY <1>1, <2>1, <2>3 DEF Recent
  <2> QED BY <1>1, <1>5, <2>2 DEF more, v
<1> QED BY <1>4, <1>5

------------------------------------------------------------------------------
(* The invariant. *)

Live == {g \in Generators : running[g]}
HeardTexts == [k \in 1..Len(heard) |-> heard[k].text]

Types ==
    /\ buf \in Texts /\ taken \in Clauses
    /\ left \in [Generators -> Clauses] /\ running \in [Generators -> BOOLEAN]
    /\ heard \in Seq(Results) /\ cache \in Seq(Entry) /\ used \in Seq(Said)
    /\ emitted \in Nat /\ orderly \in BOOLEAN
    /\ stats \in [hits : Nat, misses : Nat, clauses_emitted : Nat]
    /\ pushes \in 0..MaxPushes /\ flushes \in 0..MaxFlushes

Counts ==
    /\ IsFiniteSet(Live) /\ emitted + Cardinality(Live) <= Len(heard)
    /\ \A k \in 1..Len(heard) : heard[k].index <= emitted
    /\ stats.clauses_emitted = Len(heard) /\ stats.hits + stats.misses = Len(heard)

\* At most one generator is suspended; the clause it has yielded is the only one
\* not yet counted, and what it has still to emit is the rest of what was taken.
Orderly ==
    /\ \A k \in 1..Len(heard) : heard[k].index = k - 1
    /\ \A g, h \in Live : g = h
    /\ Len(heard) = emitted + Cardinality(Live)
    /\ flushes = 0 =>
         /\ Live = {} => taken = HeardTexts
         /\ \A g \in Live : taken = HeardTexts \o left[g]

IndInv ==
    /\ Types
    /\ \A g \in Generators : left[g] # <<>> => running[g]
    /\ Counts
    /\ orderly => Orderly
    /\ Recent(cache, used)
------------------------------------------------------------------------------
(* One step of a generator. *)

LEMMA ResultType ==
    ASSUME NEW c \in Texts, NEW i \in Nat
    PROVE  [text |-> c, latents |-> Normalize(c), index |-> i] \in Results
BY DEF Results

LEMMA HeardType ==
    ASSUME NEW r \in Results
    PROVE  r.text \in Texts /\ r.latents = Normalize(r.text) /\ r.index \in Nat
BY DEF Results

\* What the cache returns is what synthesis gives.
LEMMA LatentsAreTheClause ==
    ASSUME cache \in Seq(Entry), NEW c \in Texts
    PROVE  /\ Key(c) \in Said /\ Latents(c) = Normalize(c)
           /\ [key |-> Key(c), latents |-> Latents(c)] \in Entry
<1>1. Key(c) \in Said /\ Key(c) = Normalize(c)
  BY DEF Key, Said
<1>2. Latents(c) = Normalize(c)
  <2>1. CASE Entries(Key(c)) = {}
    BY <2>1 DEF Latents, LatentsFn
  <2>2. CASE Entries(Key(c)) # {}
    <3> DEFINE k == CHOOSE k \in Entries(Key(c)) : TRUE
    <3>1. k \in Entries(Key(c))
      BY <2>2
    <3>2. Latents(c) = cache[k].latents
      BY <2>2 DEF Latents
    <3> HIDE DEF k
    <3>3. cache[k] \in Entry /\ cache[k].key = Key(c)
      BY <3>1 DEF Entries
    <3> QED BY <1>1, <3>2, <3>3, EntryType
  <2> QED BY <2>1, <2>2
<1>3. [key |-> Key(c), latents |-> Latents(c)] \in Entry
  BY <1>1, <1>2 DEF Entry
<1> QED BY <1>1, <1>2, <1>3

LEMMA SynthStep ==
    ASSUME cache \in Seq(Entry), used \in Seq(Said), Recent(cache, used),
           stats \in [hits : Nat, misses : Nat, clauses_emitted : Nat],
           NEW c \in Texts, Synth(c)
    PROVE  /\ cache' \in Seq(Entry) /\ used' \in Seq(Said) /\ Recent(cache', used')
           /\ stats' \in [hits : Nat, misses : Nat, clauses_emitted : Nat]
           /\ stats'.clauses_emitted = stats.clauses_emitted + 1
           /\ stats'.hits + stats'.misses = stats.hits + stats.misses + 1
<1> DEFINE key == Key(c)
           e == [key |-> Key(c), latents |-> Latents(c)]
<1>1. key \in Said /\ e \in Entry /\ e.key = key /\ used' = Append(used, key)
  BY LatentsAreTheClause DEF Synth
<1>2. used' \in Seq(Said)
  BY <1>1, UsedOnceMore
<1>3. CASE /\ Entries(key) = {} /\ cache' = Inserted(e)
           /\ stats' = [stats EXCEPT !.misses = @ + 1, !.clauses_emitted = @ + 1]
  <2> HIDE DEF e
  <2>1. \A k \in 1..Len(cache) : cache[k].key # e.key
    BY <1>1, <1>3 DEF Entries
  <2>2. cache' = IF Len(Append(cache, e)) > CacheSize
                   THEN Tail(Append(cache, e)) ELSE Append(cache, e)
    BY <1>3 DEF Inserted
  <2>3. cache' \in Seq(Entry) /\ Recent(cache', used')
    BY <1>1, <2>1, <2>2, MissedRecent
  <2>4. /\ stats' \in [hits : Nat, misses : Nat, clauses_emitted : Nat]
        /\ stats'.clauses_emitted = stats.clauses_emitted + 1
        /\ stats'.hits + stats'.misses = stats.hits + stats.misses + 1
    <3>1. /\ stats'.hits = stats.hits /\ stats'.misses = stats.misses + 1
          /\ stats'.clauses_emitted = stats.clauses_emitted + 1
      BY <1>3
    <3>2. stats.hits \in Nat /\ stats.misses \in Nat /\ stats.clauses_emitted \in Nat
      OBVIOUS
    <3>3. stats.hits + 1 \in Nat /\ stats.misses + 1 \in Nat /\ stats.clauses_emitted + 1 \in Nat
      BY <3>2
    <3>4. stats' \in [hits : Nat, misses : Nat, clauses_emitted : Nat]
      BY <1>3, <3>3
    <3> QED BY <3>1, <3>2, <3>4
  <2> QED BY <1>2, <2>3, <2>4
<1>4. CASE \E k \in Entries(key) :
             /\ cache' = Touched(k)
             /\ stats' = [stats EXCEPT !.hits = @ + 1, !.clauses_emitted = @ + 1]
  <2>1. PICK k \in Entries(key) :
             /\ cache' = Touched(k)
             /\ stats' = [stats EXCEPT !.hits = @ + 1, !.clauses_emitted = @ + 1]
    BY <1>4
  <2>2. k \in 1..Len(cache) /\ cache[k].key = key
    BY DEF Entries
  <2>3. cache' \in Seq(Entry) /\ Recent(cache', used')
    BY <1>1, <2>1, <2>2, TouchedRecent DEF Touched
  <2>4. /\ stats' \in [hits : Nat, misses : Nat, clauses_emitted : Nat]
        /\ stats'.clauses_emitted = stats.clauses_emitted + 1
        /\ stats'.hits + stats'.misses = stats.hits + stats.misses + 1
    <3>1. /\ stats'.hits = stats.hits + 1 /\ stats'.misses = stats.misses
          /\ stats'.clauses_emitted = stats.clauses_emitted + 1
      BY <2>1
    <3>2. stats.hits \in Nat /\ stats.misses \in Nat /\ stats.clauses_emitted \in Nat
      OBVIOUS
    <3>3. stats.hits + 1 \in Nat /\ stats.misses + 1 \in Nat /\ stats.clauses_emitted + 1 \in Nat
      BY <3>2
    <3>4. stats' \in [hits : Nat, misses : Nat, clauses_emitted : Nat]
      BY <2>1, <3>3
    <3> QED BY <3>1, <3>2, <3>4
  <2> QED BY <1>2, <2>3, <2>4
<1> QED BY <1>3, <1>4 DEF Synth

\* It ends, or it yields one clause.
Quiet(g, clauses) ==
    /\ left' = [left EXCEPT ![g] = <<>>] /\ running' = [running EXCEPT ![g] = FALSE]
    /\ UNCHANGED <<heard, stats>>
    /\ orderly' => orderly /\ clauses = <<>>

Spoke(g, clauses, index) ==
    /\ clauses # <<>>
    /\ left' = [left EXCEPT ![g] = Tail(clauses)] /\ running' = [running EXCEPT ![g] = TRUE]
    /\ heard' = Append(heard, [text |-> Head(clauses), latents |-> Normalize(Head(clauses)),
                               index |-> index])
    /\ stats'.clauses_emitted = stats.clauses_emitted + 1
    /\ stats'.hits + stats'.misses = stats.hits + stats.misses + 1
    /\ orderly' => orderly /\ \A o \in Generators \ {g} : ~running[o]

LEMMA AdvanceStep ==
    ASSUME IndInv, NEW g \in Generators, NEW clauses \in Clauses, NEW index \in Nat,
           Advance(g, clauses, index)
    PROVE  /\ left' \in [Generators -> Clauses] /\ running' \in [Generators -> BOOLEAN]
           /\ heard' \in Seq(Results) /\ cache' \in Seq(Entry) /\ used' \in Seq(Said)
           /\ orderly' \in BOOLEAN
           /\ stats' \in [hits : Nat, misses : Nat, clauses_emitted : Nat]
           /\ Recent(cache', used')
           /\ \A o \in Generators : left'[o] # <<>> => running'[o]
           /\ Quiet(g, clauses) \/ Spoke(g, clauses, index)
<1>1. <<>> \in Clauses
  BY DEF Clauses
<1>2. CASE clauses = <<>> /\ Ends(g) /\ UNCHANGED <<cache, stats, heard, used, orderly>>
  BY <1>1, <1>2 DEF IndInv, Types, Ends, Quiet
<1>3. CASE Ends(g) /\ orderly' = FALSE /\ UNCHANGED <<cache, stats, heard, used>>
  BY <1>1, <1>3 DEF IndInv, Types, Ends, Quiet
<1>4. CASE /\ clauses # <<>>
           /\ Synth(Head(clauses))
           /\ heard' = Append(heard, [text |-> Head(clauses), latents |-> Latents(Head(clauses)),
                                      index |-> index])
           /\ left' = [left EXCEPT ![g] = Tail(clauses)]
           /\ running' = [running EXCEPT ![g] = TRUE]
           /\ orderly' = (orderly /\ \A o \in Generators \ {g} : ~running[o])
  <2>1. Head(clauses) \in Texts /\ Tail(clauses) \in Clauses
    BY <1>4, HeadTailProperties DEF Clauses
  <2> HIDE DEF Clauses
  <2>2. Latents(Head(clauses)) = Normalize(Head(clauses))
    BY <2>1, LatentsAreTheClause DEF IndInv, Types
  <2>3. /\ cache' \in Seq(Entry) /\ used' \in Seq(Said) /\ Recent(cache', used')
        /\ stats' \in [hits : Nat, misses : Nat, clauses_emitted : Nat]
        /\ stats'.clauses_emitted = stats.clauses_emitted + 1
        /\ stats'.hits + stats'.misses = stats.hits + stats.misses + 1
    BY <1>4, <2>1, SynthStep DEF IndInv, Types
  <2>4. heard' \in Seq(Results)
    <3>1. heard \in Seq(Results)
      BY DEF IndInv, Types
    <3> QED BY <1>4, <2>1, <2>2, <3>1, ResultType, AppendProperties
  <2>5. left' \in [Generators -> Clauses] /\ running' \in [Generators -> BOOLEAN]
    BY <1>4, <2>1 DEF IndInv, Types
  <2>6. orderly' \in BOOLEAN
    BY <1>4 DEF IndInv, Types
  <2>7. \A o \in Generators : left'[o] # <<>> => running'[o]
    BY <1>4 DEF IndInv, Types
  <2>8. Spoke(g, clauses, index)
    BY <1>4, <2>2, <2>3 DEF Spoke
  <2> QED BY <2>3, <2>4, <2>5, <2>6, <2>7, <2>8
<1> QED BY <1>2, <1>3, <1>4 DEF Advance

LEMMA LiveAfter ==
    ASSUME IndInv, NEW g \in Generators
    PROVE  /\ running' = [running EXCEPT ![g] = FALSE] =>
                /\ Live' = Live \ {g} /\ IsFiniteSet(Live')
                /\ Cardinality(Live') = Cardinality(Live) - (IF running[g] THEN 1 ELSE 0)
           /\ running' = [running EXCEPT ![g] = TRUE] =>
                /\ Live' = Live \cup {g} /\ IsFiniteSet(Live')
                /\ Cardinality(Live') = Cardinality(Live) + (IF running[g] THEN 0 ELSE 1)
<1>1. running \in [Generators -> BOOLEAN] /\ IsFiniteSet(Live) /\ Cardinality(Live) \in Nat
  BY FS_CardinalityType DEF IndInv, Types, Counts
<1>2. running' = [running EXCEPT ![g] = FALSE] => Live' = Live \ {g}
  BY <1>1 DEF Live
<1>3. running' = [running EXCEPT ![g] = TRUE] => Live' = Live \cup {g}
  BY <1>1 DEF Live
<1>4. g \in Live <=> running[g]
  BY DEF Live
<1>5. /\ IsFiniteSet(Live \ {g})
      /\ Cardinality(Live \ {g}) = Cardinality(Live) - (IF running[g] THEN 1 ELSE 0)
  BY <1>1, <1>4, FS_RemoveElement
<1>6. /\ IsFiniteSet(Live \cup {g})
      /\ Cardinality(Live \cup {g}) = Cardinality(Live) + (IF running[g] THEN 0 ELSE 1)
  BY <1>1, <1>4, FS_AddElement
<1> QED BY <1>2, <1>3, <1>5, <1>6

\* The clauses counted and the generators suspended never exceed what was heard.
LEMMA StepCounts ==
    ASSUME IndInv, NEW g \in Generators, NEW clauses \in Clauses,
           emitted' = emitted + (IF running[g] THEN 1 ELSE 0),
           Quiet(g, clauses) \/ Spoke(g, clauses, emitted')
    PROVE  Counts'
<1>1. /\ emitted \in Nat /\ heard \in Seq(Results) /\ Len(heard) \in Nat
      /\ IsFiniteSet(Live) /\ Cardinality(Live) \in Nat
      /\ emitted + Cardinality(Live) <= Len(heard)
      /\ \A k \in 1..Len(heard) : heard[k].index \in Nat /\ heard[k].index <= emitted
      /\ stats.clauses_emitted = Len(heard) /\ stats.hits + stats.misses = Len(heard)
  <2>1. emitted \in Nat /\ heard \in Seq(Results) /\ IsFiniteSet(Live)
    BY DEF IndInv, Types, Counts
  <2>2. \A k \in 1..Len(heard) : heard[k].index \in Nat
    BY <2>1, HeardType
  <2> QED BY <2>1, <2>2, FS_CardinalityType DEF IndInv, Counts
<1>2. emitted' \in Nat /\ emitted <= emitted'
  BY <1>1
<1>3. CASE Quiet(g, clauses)
  <2>1. /\ IsFiniteSet(Live')
        /\ Cardinality(Live') = Cardinality(Live) - (IF running[g] THEN 1 ELSE 0)
    BY <1>3, LiveAfter DEF Quiet
  <2>2. emitted' + Cardinality(Live') = emitted + Cardinality(Live)
    BY <1>1, <2>1
  <2>3. heard' = heard /\ stats' = stats
    BY <1>3 DEF Quiet
  <2>4. \A k \in 1..Len(heard) : heard[k].index <= emitted'
    BY <1>1, <1>2
  <2> QED BY <1>1, <2>1, <2>2, <2>3, <2>4 DEF Counts
<1>4. CASE Spoke(g, clauses, emitted')
  <2>1. /\ IsFiniteSet(Live')
        /\ Cardinality(Live') = Cardinality(Live) + (IF running[g] THEN 0 ELSE 1)
    BY <1>4, LiveAfter DEF Spoke
  <2>2. emitted' + Cardinality(Live') = emitted + Cardinality(Live) + 1
    BY <1>1, <2>1
  <2> DEFINE r == [text |-> Head(clauses), latents |-> Normalize(Head(clauses)), index |-> emitted']
  <2>3. heard' = Append(heard, r) /\ r \in Results /\ r.index = emitted'
    <3>1. Head(clauses) \in Texts
      BY <1>4, HeadTailProperties DEF Spoke, Clauses
    <3> QED BY <1>2, <1>4, <3>1, ResultType DEF Spoke
  <2> HIDE DEF r
  <2>4. Len(heard') = Len(heard) + 1 /\ heard'[Len(heard) + 1] = r
        /\ \A k \in 1..Len(heard) : heard'[k] = heard[k]
    BY <1>1, <2>3, AppendProperties
  <2>5. ASSUME NEW k \in 1..Len(heard') PROVE heard'[k].index <= emitted'
    <3>1. CASE k = Len(heard) + 1
      BY <1>2, <2>3, <2>4, <3>1
    <3>2. CASE k \in 1..Len(heard)
      BY <1>1, <1>2, <2>4, <3>2
    <3> QED BY <1>1, <2>4, <3>1, <3>2
  <2>6. stats'.clauses_emitted = Len(heard') /\ stats'.hits + stats'.misses = Len(heard')
    BY <1>1, <1>4, <2>4 DEF Spoke
  <2> QED BY <1>1, <2>1, <2>2, <2>4, <2>5, <2>6 DEF Counts
<1> QED BY <1>3, <1>4

LEMMA Shifted ==
    ASSUME NEW a \in Clauses, NEW b \in Clauses, b # <<>>
    PROVE  a \o b = Append(a, Head(b)) \o Tail(b)
<1>1. /\ Head(b) \in Texts /\ Tail(b) \in Clauses /\ Len(Tail(b)) = Len(b) - 1
      /\ Head(b) = b[1] /\ \A i \in 1..(Len(b) - 1) : Tail(b)[i] = b[i + 1]
      /\ Len(b) \in Nat \ {0} /\ Len(a) \in Nat
  BY HeadTailProperties DEF Clauses
<1>2. /\ Append(a, Head(b)) \in Clauses /\ Len(Append(a, Head(b))) = Len(a) + 1
      /\ Append(a, Head(b))[Len(a) + 1] = b[1]
      /\ \A i \in 1..Len(a) : Append(a, Head(b))[i] = a[i]
  BY <1>1, AppendProperties DEF Clauses
<1> DEFINE d == Append(a, Head(b))
           t == Tail(b)
<1>3. /\ d \in Clauses /\ Len(d) = Len(a) + 1 /\ d[Len(a) + 1] = b[1]
      /\ \A i \in 1..Len(a) : d[i] = a[i]
  BY <1>2
<1>4. /\ t \in Clauses /\ Len(t) = Len(b) - 1
      /\ \A i \in 1..(Len(b) - 1) : t[i] = b[i + 1]
  BY <1>1
<1> HIDE DEF d, t
<1>5. a \o b \in Clauses /\ Len(a \o b) = Len(a) + Len(b)
  BY ConcatProperties DEF Clauses
<1>6. d \o t \in Clauses /\ Len(d \o t) = Len(a) + Len(b)
  <2>1. Len(d) + Len(t) = Len(a) + Len(b)
    BY <1>1, <1>3, <1>4
  <2>2. d \o t \in Seq(Texts) /\ Len(d \o t) = Len(d) + Len(t)
    BY <1>3, <1>4, ConcatProperties DEF Clauses
  <2> QED BY <2>1, <2>2 DEF Clauses
<1>7. ASSUME NEW i \in 1..(Len(a) + Len(b)) PROVE (a \o b)[i] = (d \o t)[i]
  BY <1>1, <1>3, <1>4 DEF Clauses
<1>8. a \o b = d \o t
  BY <1>5, <1>6, <1>7, SeqEqual DEF Clauses
<1> QED BY <1>8 DEF d, t

\* While the generators are run one at a time, to their end.
LEMMA StepOrderly ==
    ASSUME IndInv, NEW g \in Generators, NEW clauses \in Clauses,
           emitted' = emitted + (IF running[g] THEN 1 ELSE 0),
           Quiet(g, clauses) \/ Spoke(g, clauses, emitted'),
           flushes' = 0 =>
             /\ flushes = 0
             /\ IF running[g] THEN taken' = taken /\ clauses = left[g]
                              ELSE taken' = taken \o clauses,
           orderly'
    PROVE  Orderly'
<1>1. /\ orderly /\ Orderly
      /\ taken \in Clauses /\ left \in [Generators -> Clauses]
      /\ running \in [Generators -> BOOLEAN]
      /\ heard \in Seq(Results) /\ Len(heard) \in Nat /\ emitted \in Nat
      /\ IsFiniteSet(Live) /\ Cardinality(Live) \in Nat
  BY FS_CardinalityType DEF IndInv, Types, Counts, Quiet, Spoke
<1>2. /\ \A k \in 1..Len(heard) : heard[k].index = k - 1
      /\ \A o, h \in Live : o = h
      /\ Len(heard) = emitted + Cardinality(Live)
      /\ flushes = 0 =>
           /\ Live = {} => taken = HeardTexts
           /\ \A o \in Live : taken = HeardTexts \o left[o]
  BY <1>1 DEF Orderly
<1>3. HeardTexts \in Clauses /\ Len(HeardTexts) = Len(heard)
  <2>1. \A k \in 1..Len(heard) : heard[k].text \in Texts
    BY <1>1, HeardType
  <2>2. HeardTexts \in [1..Len(heard) -> Texts]
    BY <2>1 DEF HeardTexts
  <2> DEFINE h == HeardTexts
             m == Len(heard)
  <2>3. m \in Nat /\ h \in [1..m -> Texts]
    BY <1>1, <2>2
  <2> HIDE DEF h, m
  <2>4. h \in Seq(Texts)
    BY <2>3, SeqDef
  <2>5. Len(h) = m
    <3>1. DOMAIN h = 1..Len(h) /\ Len(h) \in Nat
      BY <2>4, LenProperties
    <3> QED BY <2>3, <3>1
  <2> QED BY <2>4, <2>5 DEF h, m, Clauses
<1>4. g \in Live <=> running[g]
  BY DEF Live
<1>5. CASE Quiet(g, clauses)
  <2>1. clauses = <<>> /\ heard' = heard /\ left' = [left EXCEPT ![g] = <<>>]
    BY <1>5 DEF Quiet
  <2>2. /\ Live' = Live \ {g}
        /\ Cardinality(Live') = Cardinality(Live) - (IF running[g] THEN 1 ELSE 0)
    BY <1>5, LiveAfter DEF Quiet
  <2>3. Len(heard') = emitted' + Cardinality(Live')
    BY <1>1, <1>2, <2>1, <2>2
  <2>4. HeardTexts' = HeardTexts
    BY <2>1 DEF HeardTexts
  <2>5. ASSUME flushes' = 0
        PROVE  /\ Live' = {} => taken' = HeardTexts'
               /\ \A o \in Live' : taken' = HeardTexts' \o left'[o]
    <3>1. CASE running[g]
      <4>1. Live' = {}
        BY <1>2, <1>4, <2>2, <3>1
      <4>2. taken = HeardTexts \o left[g] /\ taken' = taken /\ left[g] = <<>>
        BY <1>2, <1>4, <2>1, <2>5, <3>1
      <4>3. HeardTexts \o <<>> = HeardTexts
        BY <1>3, ConcatEmptySeq DEF Clauses
      <4> QED BY <2>4, <4>1, <4>2, <4>3
    <3>2. CASE ~running[g]
      <4>1. Live' = Live /\ g \notin Live
        BY <1>4, <2>2, <3>2
      <4>2. taken' = taken
        <5>1. taken \o <<>> = taken
          BY <1>1, ConcatEmptySeq DEF Clauses
        <5> QED BY <2>1, <2>5, <3>2, <5>1
      <4>3. \A o \in Live : left'[o] = left[o]
        BY <1>1, <2>1, <4>1 DEF Live
      <4> QED BY <1>2, <2>4, <2>5, <4>1, <4>2, <4>3
    <3> QED BY <3>1, <3>2
  <2> QED BY <1>2, <2>1, <2>2, <2>3, <2>5 DEF Orderly
<1>6. CASE Spoke(g, clauses, emitted')
  <2> DEFINE r == [text |-> Head(clauses), latents |-> Normalize(Head(clauses)), index |-> emitted']
  <2>1. /\ clauses # <<>> /\ heard' = Append(heard, r)
        /\ left' = [left EXCEPT ![g] = Tail(clauses)]
        /\ \A o \in Generators \ {g} : ~running[o]
    BY <1>6 DEF Spoke
  <2>2. Head(clauses) \in Texts /\ Tail(clauses) \in Clauses
    BY <2>1, HeadTailProperties DEF Clauses
  <2>3. r \in Results /\ r.text = Head(clauses) /\ r.index = emitted'
    BY <1>1, <2>2, ResultType
  <2> HIDE DEF r
  <2>4. /\ Len(heard') = Len(heard) + 1 /\ heard'[Len(heard) + 1] = r
        /\ \A k \in 1..Len(heard) : heard'[k] = heard[k]
    BY <1>1, <2>1, <2>3, AppendProperties
  <2>5. Live \subseteq {g}
    BY <2>1 DEF Live
  <2>6. Live = IF running[g] THEN {g} ELSE {}
    BY <1>4, <2>5
  <2>7. Cardinality(Live) = IF running[g] THEN 1 ELSE 0
    BY <2>6, FS_EmptySet, FS_Singleton
  <2>8. emitted' = Len(heard)
    BY <1>1, <1>2, <2>7
  <2>9. Live' = {g} /\ Cardinality(Live') = 1
    <3>1. Live' = Live \cup {g}
      BY <1>6, LiveAfter DEF Spoke
    <3> QED BY <2>5, <3>1, FS_Singleton
  <2>10. ASSUME NEW k \in 1..Len(heard') PROVE heard'[k].index = k - 1
    <3>1. CASE k = Len(heard) + 1
      BY <1>1, <2>3, <2>4, <2>8, <3>1
    <3>2. CASE k \in 1..Len(heard)
      BY <1>2, <2>4, <3>2
    <3> QED BY <1>1, <2>4, <3>1, <3>2
  <2>11. Len(heard') = emitted' + Cardinality(Live')
    BY <1>1, <2>4, <2>8, <2>9
  <2>12. HeardTexts' = Append(HeardTexts, Head(clauses))
    <3>1. HeardTexts' = [k \in 1..(Len(heard) + 1) |-> heard'[k].text]
      BY <2>4 DEF HeardTexts
    <3>2. \A k \in 1..Len(heard) : heard'[k].text = heard[k].text
      BY <2>4
    <3>3. heard'[Len(heard) + 1].text = Head(clauses)
      BY <2>3, <2>4
    <3>4. Append(HeardTexts, Head(clauses)) =
            [k \in 1..(Len(heard) + 1) |->
               IF k = Len(heard) + 1 THEN Head(clauses) ELSE heard[k].text]
      BY <1>1, <1>3 DEF HeardTexts
    <3>5. \A k \in 1..(Len(heard) + 1) :
             heard'[k].text = IF k = Len(heard) + 1 THEN Head(clauses) ELSE heard[k].text
      BY <1>1, <3>2, <3>3
    <3> QED BY <3>1, <3>4, <3>5
  <2>13. ASSUME flushes' = 0 PROVE taken' = HeardTexts' \o left'[g]
    <3>1. taken' = HeardTexts \o clauses
      <4>1. CASE running[g]
        BY <1>2, <1>4, <2>13, <4>1
      <4>2. CASE ~running[g]
        BY <1>2, <2>6, <2>13, <4>2
      <4> QED BY <4>1, <4>2
    <3>2. HeardTexts \o clauses = Append(HeardTexts, Head(clauses)) \o Tail(clauses)
      BY <1>3, <2>1, Shifted
    <3>3. left'[g] = Tail(clauses)
      BY <1>1, <2>1
    <3> QED BY <2>12, <3>1, <3>2, <3>3
  <2> QED BY <2>9, <2>10, <2>11, <2>13 DEF Orderly
<1> QED BY <1>5, <1>6

LEMMA IndInit == Init => IndInv
<1> SUFFICES ASSUME Init PROVE IndInv
  OBVIOUS
<1> USE DEF Init
<1>1. Types
  BY SizesAssumption DEF Types, Texts, Clauses
<1>2. Live = {}
  BY DEF Live
<1>3. Cardinality({}) = 0 /\ IsFiniteSet({})
  BY FS_EmptySet
<1>4. Counts
  BY <1>2, <1>3 DEF Counts
<1>5. HeardTexts = <<>>
  BY DEF HeardTexts
<1>6. Orderly
  BY <1>2, <1>3, <1>5 DEF Orderly
<1>7. Recent(cache, used)
  BY SizesAssumption DEF Recent, InOrder, UsesFrom, KeysFrom
<1> QED BY <1>1, <1>4, <1>6, <1>7 DEF IndInv

------------------------------------------------------------------------------
(* Every step preserves the invariant. *)

LEMMA JoinType ==
    ASSUME NEW t \in Texts, NEW f \in Fragments
    PROVE  Join(t, f) \in Texts
<1>1. f \in Texts
  <2>1. f \in Seq(Lexeme) /\ Lexeme \subseteq Lexemes
    BY FragmentsAssumption DEF Lexemes
  <2> QED BY <2>1, SeqMonotonic DEF Texts
<1>2. <<Space>> \in Texts
  BY DEF Texts, Lexemes
<1>3. t \o <<Space>> \o f \in Texts /\ t \o f \in Texts
  BY <1>1, <1>2 DEF Texts
<1> QED BY <1>3 DEF Join

LEMMA RecentStutters ==
    ASSUME Recent(cache, used), cache' = cache, used' = used
    PROVE  Recent(cache, used)'
<1>1. Recent(cache', used')
  BY Zenon
<1> QED BY <1>1 DEF Recent, InOrder, KeysFrom, UsesFrom

\* A generator that is run on from where it stands.
LEMMA AdvanceKeeps ==
    ASSUME IndInv, NEW g \in Generators, NEW clauses \in Clauses,
           emitted' = emitted + (IF running[g] THEN 1 ELSE 0),
           Advance(g, clauses, emitted'),
           buf' \in Texts, taken' \in Clauses,
           pushes' \in 0..MaxPushes, flushes' \in 0..MaxFlushes,
           flushes' = 0 =>
             /\ flushes = 0
             /\ IF running[g] THEN taken' = taken /\ clauses = left[g]
                              ELSE taken' = taken \o clauses
    PROVE  IndInv'
<1>1. emitted' \in Nat
  BY DEF IndInv, Types
<1>2. /\ left' \in [Generators -> Clauses] /\ running' \in [Generators -> BOOLEAN]
      /\ heard' \in Seq(Results) /\ cache' \in Seq(Entry) /\ used' \in Seq(Said)
      /\ orderly' \in BOOLEAN
      /\ stats' \in [hits : Nat, misses : Nat, clauses_emitted : Nat]
      /\ Recent(cache', used')
      /\ \A o \in Generators : left'[o] # <<>> => running'[o]
      /\ Quiet(g, clauses) \/ Spoke(g, clauses, emitted')
  BY <1>1, AdvanceStep
<1>3. Types'
  BY <1>1, <1>2 DEF Types
<1>4. Counts'
  BY <1>2, StepCounts
<1>5. orderly' => Orderly'
  BY <1>2, StepOrderly
<1>6. Recent(cache, used)'
  BY <1>2 DEF Recent, InOrder, KeysFrom, UsesFrom
<1> QED BY <1>2, <1>3, <1>4, <1>5, <1>6 DEF IndInv

LEMMA PushKeeps ==
    ASSUME IndInv, NEW g \in Generators, NEW f \in Fragments, Push(g, f)
    PROVE  IndInv'
<1> DEFINE joined == Join(buf, f)
           parts  == SplitForStreaming(joined, MinChars)
<1>1. joined \in Texts
  BY JoinType DEF IndInv, Types
<1>2. parts \in Clauses
  BY <1>1, SplitType
<1>3. /\ ~running[g] /\ pushes < MaxPushes /\ pushes' = pushes + 1
      /\ emitted' = emitted /\ flushes' = flushes
      /\ IF Len(parts) <= 1
           THEN /\ buf' = joined
                /\ UNCHANGED <<taken, cache, stats, left, running, heard, used, orderly>>
           ELSE /\ buf' = Last(parts)
                /\ taken' = taken \o Front(parts)
                /\ Advance(g, Front(parts), emitted)
  BY DEF Push
<1> HIDE DEF joined, parts
<1>4. /\ taken \in Clauses /\ emitted \in Nat /\ pushes' \in 0..MaxPushes
      /\ flushes' \in 0..MaxFlushes
  BY <1>3, SizesAssumption DEF IndInv, Types
<1>5. CASE Len(parts) <= 1
  <2>1. /\ buf' \in Texts /\ UNCHANGED <<taken, cache, stats, left, running, heard, used, orderly>>
    BY <1>1, <1>3, <1>5
  <2>2. Types'
    BY <1>3, <1>4, <2>1 DEF IndInv, Types
  <2>3. Live' = Live /\ HeardTexts' = HeardTexts
    BY <2>1 DEF Live, HeardTexts
  <2>4. Counts'
    BY <1>3, <2>1, <2>3 DEF IndInv, Counts
  <2>5. orderly' => Orderly'
    BY <1>3, <2>1, <2>3 DEF IndInv, Orderly
  <2>6. Recent(cache, used)'
    BY <2>1, RecentStutters DEF IndInv
  <2> QED BY <2>1, <2>2, <2>4, <2>5, <2>6 DEF IndInv
<1>6. CASE ~(Len(parts) <= 1)
  <2>1. parts # <<>>
    BY <1>6
  <2>2. Front(parts) \in Clauses /\ Last(parts) \in Texts
    BY <1>2, <2>1, EndsType DEF Clauses
  <2>3. /\ buf' = Last(parts) /\ taken' = taken \o Front(parts)
        /\ Advance(g, Front(parts), emitted')
        /\ emitted' = emitted + (IF running[g] THEN 1 ELSE 0)
    BY <1>3, <1>4, <1>6
  <2>4. taken' \in Clauses
    BY <1>4, <2>2, <2>3 DEF Clauses
  <2> QED BY <1>3, <1>4, <2>2, <2>3, <2>4, AdvanceKeeps
<1> QED BY <1>5, <1>6

LEMMA FlushKeeps ==
    ASSUME IndInv, NEW g \in Generators, Flush(g)
    PROVE  IndInv'
<1> DEFINE clauses == IF Strip(buf) = <<>> THEN <<>> ELSE <<Strip(buf)>>
<1>1. clauses \in Clauses
  BY StripType DEF IndInv, Types, Clauses
<1>2. /\ ~running[g] /\ flushes < MaxFlushes /\ flushes' = flushes + 1
      /\ emitted' = emitted /\ pushes' = pushes
      /\ buf' = <<>> /\ taken' = <<>>
      /\ Advance(g, clauses, emitted)
  BY DEF Flush
<1> HIDE DEF clauses
<1>3. /\ emitted \in Nat /\ pushes' \in 0..MaxPushes
      /\ flushes' \in 0..MaxFlushes /\ flushes' # 0
      /\ buf' \in Texts /\ taken' \in Clauses
  BY <1>2, SizesAssumption DEF IndInv, Types, Texts, Clauses
<1>4. Advance(g, clauses, emitted') /\ emitted' = emitted + (IF running[g] THEN 1 ELSE 0)
  BY <1>2, <1>3
<1> QED BY <1>1, <1>3, <1>4, AdvanceKeeps

LEMMA ResumeKeeps ==
    ASSUME IndInv, NEW g \in Generators, Resume(g)
    PROVE  IndInv'
<1>1. /\ running[g] /\ emitted' = emitted + 1 /\ Advance(g, left[g], emitted + 1)
      /\ UNCHANGED <<buf, taken, pushes, flushes>>
  BY DEF Resume, history
<1>2. /\ left[g] \in Clauses /\ buf' \in Texts /\ taken' \in Clauses
      /\ pushes' \in 0..MaxPushes /\ flushes' \in 0..MaxFlushes
  BY <1>1 DEF IndInv, Types
<1>3. emitted' = emitted + (IF running[g] THEN 1 ELSE 0) /\ Advance(g, left[g], emitted')
  BY <1>1
<1> QED BY <1>1, <1>2, <1>3, AdvanceKeeps

LEMMA DropKeeps ==
    ASSUME IndInv, NEW g \in Generators, Drop(g)
    PROVE  IndInv'
<1>1. /\ running[g] /\ Ends(g) /\ orderly' = FALSE
      /\ UNCHANGED <<buf, emitted, cache, stats, heard, used, taken, pushes, flushes>>
  BY DEF Drop, history
<1>2. Types' /\ \A o \in Generators : left'[o] # <<>> => running'[o]
  <2>1. <<>> \in Clauses
    BY DEF Clauses
  <2> QED BY <1>1, <2>1 DEF IndInv, Types, Ends
<1>3. IsFiniteSet(Live') /\ Cardinality(Live') = Cardinality(Live) - 1
  BY <1>1, LiveAfter DEF Ends
<1>4. Counts'
  <2>1. emitted \in Nat /\ Len(heard) \in Nat /\ Cardinality(Live) \in Nat
    BY FS_CardinalityType DEF IndInv, Types, Counts
  <2> QED BY <1>1, <1>3, <2>1 DEF IndInv, Counts
<1>5. Recent(cache, used)'
  BY <1>1, RecentStutters DEF IndInv
<1> QED BY <1>1, <1>2, <1>4, <1>5 DEF IndInv

LEMMA IndStep == IndInv /\ [Next]_vars => IndInv'
<1> SUFFICES ASSUME IndInv, [Next]_vars PROVE IndInv'
  OBVIOUS
<1>1. ASSUME NEW g \in Generators, NEW f \in Fragments, Push(g, f) PROVE IndInv'
  BY <1>1, PushKeeps
<1>2. ASSUME NEW g \in Generators, Flush(g) PROVE IndInv'
  BY <1>2, FlushKeeps
<1>3. ASSUME NEW g \in Generators, Resume(g) PROVE IndInv'
  BY <1>3, ResumeKeeps
<1>4. ASSUME NEW g \in Generators, Drop(g) PROVE IndInv'
  BY <1>4, DropKeeps
<1>5. CASE UNCHANGED vars
  <2>1. Types' /\ Live' = Live /\ HeardTexts' = HeardTexts
    BY <1>5 DEF IndInv, Types, vars, history, Live, HeardTexts
  <2>2. Counts'
    BY <1>5, <2>1 DEF IndInv, Counts, vars
  <2>3. orderly' => Orderly'
    BY <1>5, <2>1 DEF IndInv, Orderly, vars, history
  <2>4. Recent(cache, used)'
    BY <1>5, RecentStutters DEF IndInv, vars
  <2> QED BY <1>5, <2>1, <2>2, <2>3, <2>4 DEF IndInv, vars
<1> QED BY <1>1, <1>2, <1>3, <1>4, <1>5 DEF Next

\* What holds of the suspended generators, the clauses counted and heard, and the
\* cache in every state the synthesizer reaches.
THEOREM IndInvInvariant == Spec => []IndInv
BY IndInit, IndStep, PTL DEF Spec

------------------------------------------------------------------------------
(* Where the buffer stands in the text. *)

Placed ==
    /\ text \in Texts /\ severed \in BOOLEAN
    /\ Single(text) /\ ~severed => \E a : Place(a, text, taken, buf, MinChars)

LEMMA NothingPlaced ==
    ASSUME NEW n
    PROVE  Place(<<>>, <<>>, <<>>, <<>>, n)
<1>1. <<>> \o <<>> = <<>>
  OBVIOUS
<1>2. ASSUME NEW y \in Texts
      PROVE  SplitForStreaming(<<>> \o y, n) = <<>> \o SplitForStreaming(y, n)
  <2>1. <<>> \o y = y
    BY ConcatEmptySeq DEF Texts
  <2>2. <<>> \o SplitForStreaming(y, n) = SplitForStreaming(y, n)
    BY SplitType, ConcatEmptySeq DEF Clauses
  <2> QED BY <2>1, <2>2
<1> QED BY <1>1, <1>2, SpaceIsLexeme DEF Place

\* A fragment that joins doubled spaces to a text joins them to all that follows.
LEMMA SingleBefore ==
    ASSUME NEW t \in Texts, NEW f \in Texts, Single(Join(t, f))
    PROVE  Single(t)
<1> DEFINE g == <<Space>> \o f
<1>1. g \in Texts
  BY SpaceIsLexeme, ConcatProperties DEF Texts
<1>2. (t \o <<Space>>) \o f = t \o g
  <2>1. t \in Seq(Lexemes) /\ <<Space>> \in Seq(Lexemes) /\ f \in Seq(Lexemes)
    BY SpaceIsLexeme DEF Texts
  <2> QED BY <2>1, ConcatAssociative
<1>3. Join(t, f) = t \o g \/ Join(t, f) = t \o f
  BY <1>2 DEF Join
<1> HIDE DEF g
<1> QED BY <1>1, <1>3, SingleParts

LEMMA PushPlaces ==
    ASSUME IndInv, Placed, NEW g \in Generators, NEW f \in Fragments, Push(g, f)
    PROVE  Placed'
<1> DEFINE parts == SplitForStreaming(Join(buf, f), MinChars)
<1>1. /\ text' = text \o f /\ severed' = (severed \/ Touch(text, f))
      /\ IF Len(parts) <= 1 THEN buf' = Join(buf, f) /\ taken' = taken
                            ELSE buf' = Last(parts) /\ taken' = taken \o Front(parts)
  BY DEF Push
<1>2. /\ text \in Texts /\ buf \in Texts /\ taken \in Clauses /\ f \in Texts /\ f # <<>>
  <2>1. f \in Seq(Lexeme) /\ f # <<>> /\ Lexeme \subseteq Lexemes
    BY FragmentsAssumption DEF Lexemes
  <2>2. f \in Texts
    BY <2>1, SeqMonotonic DEF Texts
  <2> QED BY <2>1, <2>2 DEF IndInv, Types, Placed
<1>3. text' \in Texts /\ severed' \in BOOLEAN
  <2>1. text' \in Texts
    BY <1>1, <1>2, ConcatProperties DEF Texts
  <2>2. severed' \in BOOLEAN
    BY <1>1, Zenon DEF Placed
  <2> QED BY <2>1, <2>2
<1>4. SUFFICES ASSUME Single(text'), ~severed'
               PROVE  \E a : Place(a, text', taken', buf', MinChars)
  BY <1>3 DEF Placed
<1>0. text' = Join(text, f) /\ ~severed
  BY <1>1, <1>4 DEF Join
<1>5. PICK a : Place(a, text, taken, buf, MinChars)
  BY <1>0, <1>2, <1>4, SingleBefore DEF Placed
<1> DEFINE u == Join(buf, f)
           t == Join(text, f)
<1>6. /\ u \in Texts /\ t = a \o u /\ Single(u)
      /\ Place(a, t, taken, u, MinChars) /\ t = text'
  <2>1. Single(Join(text, f))
    BY <1>0, <1>4
  <2>2. Place(a, text, taken, buf, MinChars)
    BY <1>5
  <2>3. /\ Join(buf, f) \in Texts /\ Join(text, f) = a \o Join(buf, f)
        /\ Single(Join(buf, f)) /\ Place(a, Join(text, f), taken, Join(buf, f), MinChars)
    BY ONLY <1>2, <2>1, <2>2, JoinPlace
  <2> QED BY <1>0, <2>3
<1>7. Len(parts) \in Nat
  BY <1>6, SplitType DEF Clauses
<1>8. parts = SplitForStreaming(u, MinChars)
  OBVIOUS
<1> HIDE DEF u, t, parts
<1>9. CASE Len(parts) <= 1
  BY <1>1, <1>6, <1>9 DEF u
<1>10. CASE Len(parts) > 1
  <2>1. PICK c : Place(c, t, taken \o Front(parts), Last(parts), MinChars)
    <3>1. taken \in Clauses /\ u \in Texts
      BY <1>2, <1>6
    <3>2. Place(a, t, taken, u, MinChars) /\ t = a \o u /\ Single(u)
      BY <1>6
    <3>3. Len(SplitForStreaming(u, MinChars)) > 1
      BY <1>8, <1>10
    <3> QED BY ONLY <1>8, <3>1, <3>2, <3>3, TakenPlace
  <2>2. buf' = Last(parts) /\ taken' = taken \o Front(parts)
    BY <1>1, <1>7, <1>10
  <2>3. t = text'
    BY <1>6
  <2>4. Place(c, text', taken', buf', MinChars)
    BY <2>1, <2>2, <2>3, Zenon
  <2> QED BY <2>4
<1> QED BY <1>7, <1>9, <1>10

LEMMA PlacedStep == IndInv /\ Placed /\ [Next]_vars => Placed'
<1> SUFFICES ASSUME IndInv, Placed, [Next]_vars PROVE Placed'
  OBVIOUS
<1>1. ASSUME NEW g \in Generators, NEW f \in Fragments, Push(g, f) PROVE Placed'
  BY <1>1, PushPlaces
<1>2. ASSUME NEW g \in Generators, Flush(g) PROVE Placed'
  <2>1. buf' = <<>> /\ text' = <<>> /\ taken' = <<>> /\ severed' = FALSE
    BY <1>2 DEF Flush
  <2>2. Place(<<>>, text', taken', buf', MinChars)
    BY <2>1, NothingPlaced
  <2> QED BY <2>1, <2>2, SpaceIsLexeme DEF Placed
<1>3. ASSUME NEW g \in Generators, Resume(g) PROVE Placed'
  BY <1>3 DEF Resume, history, Placed
<1>4. ASSUME NEW g \in Generators, Drop(g) PROVE Placed'
  BY <1>4 DEF Drop, history, Placed
<1>5. CASE UNCHANGED vars
  BY <1>5 DEF vars, history, Placed
<1> QED BY <1>1, <1>2, <1>3, <1>4, <1>5 DEF Next

LEMMA PlacedInvariant == Spec => []Placed
<1>1. Init => Placed
  <2> SUFFICES ASSUME Init PROVE Placed
    OBVIOUS
  <2>1. buf = <<>> /\ text = <<>> /\ taken = <<>> /\ severed = FALSE
    BY DEF Init
  <2>2. Place(<<>>, text, taken, buf, MinChars)
    BY <2>1, NothingPlaced
  <2> QED BY <2>1, <2>2, SpaceIsLexeme DEF Placed
<1> QED BY <1>1, PlacedStep, IndInvInvariant, PTL DEF Spec

------------------------------------------------------------------------------
\* Whatever is looked up in whatever order, the cache holds the latents of the
\* last CacheSize different clauses, ordered by their last use; what comes out of
\* it is what synthesis gives; and a look-up is a hit or a miss, never both.
THEOREM CacheHoldsTheMostRecent == Spec => []CacheIsLRU
<1>1. IndInv => CacheIsLRU
  <2> SUFFICES ASSUME IndInv PROVE CacheIsLRU
    OBVIOUS
  <2>1. /\ cache \in Seq(Entry) /\ used \in Seq(Said) /\ heard \in Seq(Results)
        /\ Len(cache) \in Nat /\ Len(used) \in Nat /\ CacheSize \in Nat
        /\ Len(cache) <= CacheSize
        /\ Len(cache) < CacheSize => UsesFrom(used, 1) = KeysFrom(cache, 1)
        /\ \A k, l \in 1..Len(cache) : cache[k].key = cache[l].key => k = l
        /\ \A k \in 1..Len(cache) :
             \E j \in 1..Len(used) :
               used[j] = cache[k].key /\ UsesFrom(used, j + 1) = KeysFrom(cache, k + 1)
    BY SizesAssumption DEF IndInv, Types, Recent, InOrder
  <2>2. \A k \in 1..Len(cache) :
          \E j \in 1..Len(used) :
            /\ used[j] = cache[k].key
            /\ UsedSince(j + 1) = {cache[l].key : l \in (k + 1)..Len(cache)}
    BY <2>1 DEF UsedSince, UsesFrom, KeysFrom
  <2>3. IsFiniteSet(KeysFrom(cache, 1)) /\ Cardinality(KeysFrom(cache, 1)) = Len(cache)
    <3> DEFINE f == [k \in 1..Len(cache) |-> cache[k].key]
               K == KeysFrom(cache, 1)
    <3>1. f \in Bijection(1..Len(cache), K)
      <4>1. f \in [1..Len(cache) -> K]
        BY DEF KeysFrom
      <4>2. \A a, b \in 1..Len(cache) : f[a] = f[b] => a = b
        BY <2>1
      <4>3. \A y \in K : \E k \in 1..Len(cache) : f[k] = y
        BY DEF KeysFrom
      <4> HIDE DEF f, K
      <4> QED BY <4>1, <4>2, <4>3 DEF Bijection, Injection, Surjection, IsInjective
    <3>2. ExistsBijection(1..Len(cache), K)
      BY <3>1 DEF ExistsBijection
    <3> QED BY <2>1, <3>2, FS_CountingElements, FS_NatBijection
  <2>4. IsFiniteSet(UsesFrom(used, 1)) /\ Cardinality(UsesFrom(used, 1)) \in Nat
    <3>1. IsFiniteSet(1..Len(used))
      BY <2>1, FS_Interval, 1 \in Int, Len(used) \in Int
    <3>2. UsesFrom(used, 1) = {used[j] : j \in 1..Len(used)}
      BY DEF UsesFrom
    <3> DEFINE f == [j \in 1..Len(used) |-> used[j]]
    <3>3. f \in Surjection(1..Len(used), UsesFrom(used, 1))
      BY <3>2 DEF Surjection
    <3> QED BY <3>1, <3>3, FS_Surjection, FS_CardinalityType
  <2>5. KeysFrom(cache, 1) \subseteq UsesFrom(used, 1)
    BY <2>1 DEF KeysFrom, UsesFrom
  <2>6. Cardinality(KeysFrom(cache, 1)) <= Cardinality(UsesFrom(used, 1))
    BY <2>4, <2>5, FS_Subset
  <2>7. UsedSince(1) = UsesFrom(used, 1)
    BY DEF UsedSince, UsesFrom
  <2>8. Len(cache) = IF Cardinality(UsedSince(1)) < CacheSize
                       THEN Cardinality(UsedSince(1)) ELSE CacheSize
    <3>1. CASE Len(cache) < CacheSize
      BY <2>1, <2>3, <2>7, <3>1
    <3>2. CASE Len(cache) = CacheSize
      BY <2>1, <2>3, <2>4, <2>6, <2>7, <3>2
    <3> QED BY <2>1, <3>1, <3>2
  <2>9. \A k \in 1..Len(heard) : heard[k].latents = LatentsFn(heard[k].text)
    <3>1. \A k \in 1..Len(heard) : heard[k] \in Results
      BY <2>1
    <3> QED BY <3>1, HeardType DEF LatentsFn
  <2>10. stats.hits + stats.misses = Len(heard)
    BY DEF IndInv, Counts
  <2> QED BY <2>2, <2>8, <2>9, <2>10 DEF CacheIsLRU
<1> QED BY <1>1, IndInvInvariant, PTL

------------------------------------------------------------------------------
(* What can be heard. *)


\* The words the passes put in.  They are strings too, but no prover knows it.
Spellings == {"hundred", "point", "dollar", "dollars", "cent", "cents", "and", "month",
              "o'clock", "oh", "Doctor", "minutes", "versus", "kilometers", "kilograms",
              "percent", "plus", "equals", "to"}
Terms == STRING \cup Spellings

\* What the tokenizer can say, and what there may be in a text on the way to it.
Numeral == Seq(0..9) \ {<<>>}
Sounds  == [word : Terms] \cup [mark : STRING \cup {" "}] \cup [cardinal : Nat] \cup [ordinal : Nat]
Parts   == Sounds \cup [digits : Numeral]

LEMMA Kinds ==
    /\ \A w \in Terms : Word(w) \in Sounds
    /\ \A n \in Nat : Cardinal(n) \in Sounds /\ Ordinal(n) \in Sounds
    /\ \A ds \in Numeral : Digits(ds) \in Parts
    /\ Space \in Sounds /\ Sounds \subseteq Parts /\ Lexemes \subseteq Parts
    /\ \A x \in Parts : IF IsDigits(x) THEN x.digits \in Numeral ELSE x \in Sounds
    /\ \A x \in Sounds : ~IsDigits(x)
<1>1. \A w \in Terms : Word(w) \in Sounds
  BY DEF Word, Sounds
<1>2. \A n \in Nat : Cardinal(n) \in Sounds /\ Ordinal(n) \in Sounds
  BY DEF Cardinal, Ordinal, Sounds
<1>3. \A ds \in Numeral : Digits(ds) \in Parts
  BY DEF Digits, Parts
<1>4. Space \in Sounds
  BY DEF Space, Mark, Sounds
<1>5. Sounds \subseteq Parts /\ Lexemes \subseteq Parts
  <2>1. Lexeme \subseteq Parts
    BY DEF Sounds, Parts, Lexeme, Numeral, Terms
  <2> QED BY <1>4, <2>1 DEF Parts, Lexemes
<1>6. \A x \in Sounds : ~IsDigits(x)
  <2>1. \A x \in [word : Terms] : DOMAIN x = {"word"}
    OBVIOUS
  <2>2. \A x \in [mark : STRING \cup {" "}] : DOMAIN x = {"mark"}
    OBVIOUS
  <2>3. \A x \in [cardinal : Nat] : DOMAIN x = {"cardinal"}
    OBVIOUS
  <2>4. \A x \in [ordinal : Nat] : DOMAIN x = {"ordinal"}
    OBVIOUS
  <2>5. \A x \in Sounds : \/ DOMAIN x = {"word"} \/ DOMAIN x = {"mark"}
                           \/ DOMAIN x = {"cardinal"} \/ DOMAIN x = {"ordinal"}
    BY <2>1, <2>2, <2>3, <2>4 DEF Sounds
  <2>6. "digits" \notin {"word", "mark", "cardinal", "ordinal"}
    OBVIOUS
  <2> QED BY <2>5, <2>6 DEF IsDigits
<1>7. \A x \in [digits : Numeral] : IsDigits(x) /\ x.digits \in Numeral
  BY DEF IsDigits
<1>8. \A x \in Parts : IF IsDigits(x) THEN x.digits \in Numeral ELSE x \in Sounds
  BY <1>6, <1>7 DEF Parts
<1> QED BY <1>1, <1>2, <1>3, <1>4, <1>5, <1>6, <1>8

LEMMA SpellingsSound == \A w \in Spellings : Word(w) \in Sounds
BY Kinds DEF Terms

\* What a rule may do at position i of n: take no more than there is, and put
\* something of X in its place.
Sound(e, i, n, X) == e.taken \in 1..(n + 1 - i) /\ e.by \in Seq(X)

From(k, n) == (n + 1 - k)..(n + 1)
Rest(rule, n, f, i) == IF i > n THEN <<>> ELSE rule[i].by \o f[i + rule[i].taken]
Rewrites(rule, n, k) == \E f : f = [i \in From(k, n) |-> Rest(rule, n, f, i)]

LEMMA RewriteNothing ==
    ASSUME NEW n \in Nat, NEW rule
    PROVE  Rewrites(rule, n, 0)
<1> DEFINE f == [i \in From(0, n) |-> <<>>]
<1>1. \A i \in From(0, n) : i > n
  BY DEF From
<1>2. \A i \in From(0, n) : f[i] = Rest(rule, n, f, i)
  BY <1>1 DEF Rest
<1>3. f = [i \in From(0, n) |-> Rest(rule, n, f, i)]
  BY <1>2
<1> HIDE DEF f
<1> QED BY <1>3 DEF Rewrites

LEMMA RewriteMore ==
    ASSUME NEW n \in Nat, NEW rule, \A i \in 1..n : rule[i].taken \in 1..(n + 1 - i),
           NEW k \in Nat, k + 1 <= n, Rewrites(rule, n, k)
    PROVE  Rewrites(rule, n, k + 1)
<1>1. PICK f : f = [i \in From(k, n) |-> Rest(rule, n, f, i)]
  BY DEF Rewrites
<1> DEFINE g == [i \in From(k + 1, n) |-> IF i \in From(k, n) THEN f[i] ELSE Rest(rule, n, f, i)]
<1>2. \A i \in From(k, n) : i \in From(k + 1, n)
  BY DEF From
<1>3. \A i \in From(k, n) : g[i] = f[i] /\ f[i] = Rest(rule, n, f, i)
  BY <1>1, <1>2
<1>4. \A i \in From(k + 1, n) : i \notin From(k, n) => g[i] = Rest(rule, n, f, i)
  OBVIOUS
<1>5. ASSUME NEW i \in From(k + 1, n) PROVE g[i] = Rest(rule, n, g, i)
  <2> HIDE DEF g
  <2>1. i \in Nat /\ i >= 1
    BY DEF From
  <2>2. i <= n => i + rule[i].taken \in From(k, n)
    BY <2>1 DEF From
  <2>3. i <= n => g[i + rule[i].taken] = f[i + rule[i].taken]
    BY <1>3, <2>2
  <2>4. Rest(rule, n, g, i) = Rest(rule, n, f, i)
    BY <2>1, <2>3 DEF Rest
  <2> QED BY <1>3, <1>4, <2>4
<1>6. g = [i \in From(k + 1, n) |-> Rest(rule, n, g, i)]
  BY <1>5
<1> HIDE DEF g
<1> QED BY <1>6 DEF Rewrites

\* From every position on, a rule makes a text of what it makes at each.
LEMMA RewriteRuns ==
    ASSUME NEW n \in Nat, NEW rule, Len(rule) = n, DOMAIN rule = 1..n,
           \A i \in 1..n : rule[i].taken \in 1..(n + 1 - i)
    PROVE  \E f : /\ Rewrite(rule) = f[1] /\ f[n + 1] = <<>>
                  /\ \A i \in 1..n : f[i] = rule[i].by \o f[i + rule[i].taken]
<1> DEFINE T == {k \in Nat : k <= n => Rewrites(rule, n, k)}
<1>1. 0 \in T
  BY RewriteNothing
<1>2. ASSUME NEW k \in Nat, k \in T PROVE k + 1 \in T
  BY <1>2, RewriteMore
<1>3. n \in T
  <2> HIDE DEF T
  <2> QED BY <1>1, <1>2, CountingUp
<1>4. PICK f : f = [i \in From(n, n) |-> Rest(rule, n, f, i)]
  BY <1>3 DEF Rewrites
<1>5. From(n, n) = 1..(Len(rule) + 1)
  BY DEF From
<1>6. \A i \in From(n, n) : i \notin DOMAIN rule <=> i > n
  BY DEF From
<1>7. f = [i \in 1..(Len(rule) + 1) |->
             IF i \notin DOMAIN rule THEN <<>> ELSE rule[i].by \o f[i + rule[i].taken]]
  BY <1>4, <1>5, <1>6 DEF Rest
<1> DEFINE F == CHOOSE g : g = [i \in 1..(Len(rule) + 1) |->
                  IF i \notin DOMAIN rule THEN <<>>
                  ELSE LET m == rule[i] IN m.by \o g[i + m.taken]]
<1>8. F = [i \in 1..(Len(rule) + 1) |->
             IF i \notin DOMAIN rule THEN <<>> ELSE rule[i].by \o F[i + rule[i].taken]]
  BY <1>7, Zenon
<1>9. Rewrite(rule) = F[1]
  BY DEF Rewrite
<1> HIDE DEF F
<1>10. /\ n + 1 \in 1..(Len(rule) + 1) /\ n + 1 \notin DOMAIN rule
       /\ \A i \in 1..n : i \in 1..(Len(rule) + 1) /\ i \in DOMAIN rule
  OBVIOUS
<1>11. F[n + 1] = <<>> /\ \A i \in 1..n : F[i] = rule[i].by \o F[i + rule[i].taken]
  BY <1>8, <1>10
<1> QED BY <1>9, <1>11

\* What a rule, of edits that stay within the text, makes of it from every position on.
Edits(rule, n, X) ==
    Len(rule) = n /\ DOMAIN rule = 1..n /\ \A i \in 1..n : Sound(rule[i], i, n, X)

From1(f, rule, n, X) ==
    /\ Rewrite(rule) = f[1] /\ f[n + 1] = <<>>
    /\ \A i \in 1..n : f[i] = rule[i].by \o f[i + rule[i].taken]
    /\ \A i \in 1..(n + 1) : f[i] \in Seq(X)

LEMMA CountingDown ==
    ASSUME NEW n \in Nat, NEW T, n + 1 \in T,
           \A i \in 1..n : (\A j \in (i + 1)..(n + 1) : j \in T) => i \in T
    PROVE  1..(n + 1) \subseteq T
<1> DEFINE D == {k \in Nat : \A i \in 1..(n + 1) : i + k >= n + 1 => i \in T}
<1>1. \A k \in Nat : k \in D <=> \A i \in 1..(n + 1) : i + k >= n + 1 => i \in T
  OBVIOUS
<1> HIDE DEF D
<1>2. 0 \in D
  <2>1. \A i \in 1..(n + 1) : i + 0 >= n + 1 => i = n + 1
    OBVIOUS
  <2> QED BY <1>1, <2>1
<1>3. ASSUME NEW k \in Nat, k \in D PROVE k + 1 \in D
  <2> SUFFICES ASSUME NEW i \in 1..(n + 1), i + (k + 1) >= n + 1 PROVE i \in T
    BY <1>1
  <2>1. CASE i = n + 1
    BY <2>1
  <2>2. CASE i # n + 1
    <3>1. i \in 1..n /\ \A j \in (i + 1)..(n + 1) : j \in 1..(n + 1) /\ j + k >= n + 1
      BY <2>2
    <3>2. \A j \in (i + 1)..(n + 1) : j \in T
      BY <1>1, <1>3, <3>1
    <3> QED BY <3>1, <3>2
  <2> QED BY <2>1, <2>2
<1>4. n \in D
  BY <1>2, <1>3, CountingUp
<1>5. \A i \in 1..(n + 1) : i + n >= n + 1
  OBVIOUS
<1> QED BY <1>1, <1>4, <1>5

LEMMA RewriteSteps ==
    ASSUME NEW n \in Nat, NEW rule, NEW X, Edits(rule, n, X)
    PROVE  /\ \E f : From1(f, rule, n, X)
           /\ Rewrite(rule) \in Seq(X)
<1>1. /\ Len(rule) = n /\ DOMAIN rule = 1..n
      /\ \A i \in 1..n : rule[i].taken \in 1..(n + 1 - i) /\ rule[i].by \in Seq(X)
  BY DEF Edits, Sound
<1>2. PICK f : /\ Rewrite(rule) = f[1] /\ f[n + 1] = <<>>
               /\ \A i \in 1..n : f[i] = rule[i].by \o f[i + rule[i].taken]
  BY <1>1, RewriteRuns, ZenonT(60)
<1> DEFINE T == {i \in 1..(n + 1) : f[i] \in Seq(X)}
<1>3. \A i : i \in T <=> i \in 1..(n + 1) /\ f[i] \in Seq(X)
  OBVIOUS
<1> HIDE DEF T
<1>4. n + 1 \in T
  <2>1. n + 1 \in 1..(n + 1) /\ <<>> \in Seq(X)
    OBVIOUS
  <2> QED BY <1>2, <1>3, <2>1
<1>5. ASSUME NEW i \in 1..n, \A j \in (i + 1)..(n + 1) : j \in T PROVE i \in T
  <2> DEFINE j == i + rule[i].taken
  <2>1. j \in (i + 1)..(n + 1) /\ i \in 1..(n + 1)
    BY <1>1
  <2>2. f[j] \in Seq(X) /\ rule[i].by \in Seq(X) /\ f[i] = rule[i].by \o f[j]
    BY <1>1, <1>2, <1>3, <1>5, <2>1
  <2> HIDE DEF j
  <2>3. f[i] \in Seq(X)
    BY <2>2, ConcatProperties
  <2> QED BY <1>3, <2>1, <2>3
<1>6. 1..(n + 1) \subseteq T
  BY <1>4, <1>5, CountingDown
<1>7. \A i \in 1..(n + 1) : f[i] \in Seq(X)
  BY <1>3, <1>6
<1>8. 1 \in 1..(n + 1)
  OBVIOUS
<1> QED BY <1>2, <1>7, <1>8 DEF From1

\* Two rules that agree make the same of what they agree on.
RestOf(fb, rb, m, ft, rt, n, X) ==
    /\ n \in Nat /\ m \in Nat
    /\ Edits(rb, m, X) /\ From1(fb, rb, m, X) /\ From1(ft, rt, n + m, X)
    /\ \A j \in 1..m : rt[n + j] = rb[j]

StartOf(fa, ra, n, ft, rt, l, X) ==
    /\ n \in Nat /\ l \in Nat /\ n <= l
    /\ Edits(ra, n, X) /\ From1(fa, ra, n, X) /\ From1(ft, rt, l, X)
    /\ \A i \in 1..n : rt[i] = ra[i]

Continues(ft, fa, n) == ft[1] = fa[1] \o ft[n + 1]

LEMMA SameRest ==
    ASSUME NEW fb, NEW rb, NEW m, NEW ft, NEW rt, NEW n, NEW X,
           RestOf(fb, rb, m, ft, rt, n, X)
    PROVE  \A j \in 1..(m + 1) : ft[n + j] = fb[j]
<1>0. /\ n \in Nat /\ m \in Nat
      /\ Edits(rb, m, X) /\ From1(fb, rb, m, X) /\ From1(ft, rt, n + m, X)
      /\ \A j \in 1..m : rt[n + j] = rb[j]
  BY DEF RestOf
<1> DEFINE T == {j \in 1..(m + 1) : ft[n + j] = fb[j]}
<1>1. \A j : j \in T <=> j \in 1..(m + 1) /\ ft[n + j] = fb[j]
  OBVIOUS
<1> HIDE DEF T
<1>2. m + 1 \in T
  <2>1. n + (m + 1) = (n + m) + 1 /\ m + 1 \in 1..(m + 1)
    BY <1>0
  <2> QED BY <1>0, <1>1, <2>1 DEF From1
<1>3. ASSUME NEW i \in 1..m, \A j \in (i + 1)..(m + 1) : j \in T PROVE i \in T
  <2> DEFINE j == i + rb[i].taken
  <2>0. rb[i].taken \in 1..(m + 1 - i)
    BY <1>0 DEF Edits, Sound
  <2>1. /\ j \in (i + 1)..(m + 1) /\ i \in 1..(m + 1) /\ n + i \in 1..(n + m)
        /\ n + j = (n + i) + rb[i].taken
    BY <1>0, <2>0
  <2>2. ft[n + j] = fb[j]
    BY <1>1, <1>3, <2>1
  <2>3. fb[i] = rb[i].by \o fb[j]
    BY <1>0 DEF From1
  <2>4. ft[n + i] = rt[n + i].by \o ft[(n + i) + rt[n + i].taken]
    BY <1>0, <2>1 DEF From1
  <2>5. rt[n + i] = rb[i]
    BY <1>0
  <2> HIDE DEF j
  <2> QED BY <1>1, <2>1, <2>2, <2>3, <2>4, <2>5
<1>4. 1..(m + 1) \subseteq T
  BY <1>0, <1>2, <1>3, CountingDown
<1> QED BY <1>1, <1>4

LEMMA SameStart ==
    ASSUME NEW fa, NEW ra, NEW n, NEW ft, NEW rt, NEW l, NEW X,
           StartOf(fa, ra, n, ft, rt, l, X)
    PROVE  Continues(ft, fa, n)
<1>0. /\ n \in Nat /\ l \in Nat /\ n <= l
      /\ Edits(ra, n, X) /\ From1(fa, ra, n, X) /\ From1(ft, rt, l, X)
      /\ \A i \in 1..n : rt[i] = ra[i]
  BY DEF StartOf
<1> DEFINE z == ft[n + 1]
           T == {i \in 1..(n + 1) : ft[i] = fa[i] \o z}
<1>1. \A i : i \in T <=> i \in 1..(n + 1) /\ ft[i] = fa[i] \o z
  OBVIOUS
<1>2. z \in Seq(X)
  <2>1. n + 1 \in 1..(l + 1)
    BY <1>0
  <2> QED BY <1>0, <2>1 DEF From1
<1>3. ft[n + 1] = z
  OBVIOUS
<1> HIDE DEF T, z
<1>4. n + 1 \in T
  <2>1. fa[n + 1] = <<>> /\ n + 1 \in 1..(n + 1)
    BY <1>0 DEF From1
  <2>2. <<>> \o z = z
    BY <1>2, ConcatEmptySeq
  <2> QED BY <1>1, <1>3, <2>1, <2>2
<1>5. ASSUME NEW i \in 1..n, \A j \in (i + 1)..(n + 1) : j \in T PROVE i \in T
  <2> DEFINE j == i + ra[i].taken
             x == ra[i].by
             y == fa[j]
  <2>0. ra[i].taken \in 1..(n + 1 - i) /\ x \in Seq(X)
    BY <1>0 DEF Edits, Sound
  <2>1. j \in (i + 1)..(n + 1) /\ i \in 1..(n + 1) /\ i \in 1..l /\ j \in 1..(n + 1)
    BY <1>0, <2>0
  <2>2. ft[j] = y \o z
    BY <1>1, <1>5, <2>1
  <2>3. fa[i] = x \o y /\ y \in Seq(X)
    BY <1>0, <2>1 DEF From1
  <2>4. ft[i] = x \o ft[j]
    BY <1>0, <2>1 DEF From1
  <2> HIDE DEF j, x, y
  <2>5. (x \o y) \o z = x \o (y \o z)
    BY <1>2, <2>0, <2>3, ConcatAssociative
  <2> QED BY <1>1, <2>1, <2>2, <2>3, <2>4, <2>5
<1>6. 1..(n + 1) \subseteq T
  BY <1>0, <1>4, <1>5, CountingDown
<1>7. 1 \in 1..(n + 1)
  BY <1>0
<1>8. ft[1] = fa[1] \o z
  BY <1>1, <1>6, <1>7
<1> QED BY <1>8 DEF z, Continues

\* Rewriting a text whose two parts are rewritten apart.
Apart(rt, ra, n, rb, m) ==
    /\ Len(rt) = n + m /\ DOMAIN rt = 1..(n + m)
    /\ \A i \in 1..n : rt[i] = ra[i]
    /\ \A j \in 1..m : rt[n + j] = rb[j]

LEMMA RewriteApart ==
    ASSUME NEW X, NEW n \in Nat, NEW m \in Nat, NEW ra, NEW rb, NEW rt,
           Edits(ra, n, X), Edits(rb, m, X), Apart(rt, ra, n, rb, m)
    PROVE  /\ Rewrite(ra) \in Seq(X) /\ Rewrite(rb) \in Seq(X) /\ Edits(rt, n + m, X)
           /\ Rewrite(rt) = Rewrite(ra) \o Rewrite(rb)
<1>0. /\ Len(rt) = n + m /\ DOMAIN rt = 1..(n + m)
      /\ \A i \in 1..n : rt[i] = ra[i]
      /\ \A j \in 1..m : rt[n + j] = rb[j]
  BY DEF Apart
<1>1. /\ \A i \in 1..n : ra[i].taken \in 1..(n + 1 - i) /\ ra[i].by \in Seq(X)
      /\ \A j \in 1..m : rb[j].taken \in 1..(m + 1 - j) /\ rb[j].by \in Seq(X)
  BY DEF Edits, Sound
<1>2. Edits(rt, n + m, X)
  <2> SUFFICES ASSUME NEW i \in 1..(n + m) PROVE Sound(rt[i], i, n + m, X)
    BY <1>0 DEF Edits
  <2>1. CASE i <= n
    <3>1. i \in 1..n /\ rt[i] = ra[i]
      BY <1>0, <2>1
    <3> QED BY <1>1, <3>1 DEF Sound
  <2>2. CASE ~(i <= n)
    <3>1. i - n \in 1..m /\ n + (i - n) = i
      BY <2>2
    <3>2. rt[i] = rb[i - n]
      BY <1>0, <3>1
    <3> QED BY <1>1, <3>1, <3>2 DEF Sound
  <2> QED BY <2>1, <2>2
<1>3. PICK fa : From1(fa, ra, n, X)
  BY RewriteSteps
<1>4. PICK fb : From1(fb, rb, m, X)
  BY RewriteSteps
<1>5. PICK ft : From1(ft, rt, n + m, X)
  BY <1>2, RewriteSteps
<1>6. \A j \in 1..(m + 1) : ft[n + j] = fb[j]
  <2>1. RestOf(fb, rb, m, ft, rt, n, X)
    BY <1>0, <1>4, <1>5 DEF RestOf
  <2> QED BY <2>1, SameRest
<1>7. ft[n + 1] = fb[1] /\ fb[1] \in Seq(X) /\ fb[1] = Rewrite(rb)
  <2>1. 1 \in 1..(m + 1)
    OBVIOUS
  <2> QED BY <1>4, <1>6, <2>1 DEF From1
<1>8. ft[1] = fa[1] \o ft[n + 1]
  <2> DEFINE l == n + m
  <2>1. l \in Nat /\ n <= l
    OBVIOUS
  <2>2. StartOf(fa, ra, n, ft, rt, l, X)
    BY <1>0, <1>3, <1>5, <2>1 DEF StartOf
  <2> HIDE DEF l
  <2>3. Continues(ft, fa, n)
    BY <2>2, SameStart
  <2> QED BY <2>3 DEF Continues
<1>9. fa[1] \in Seq(X) /\ fa[1] = Rewrite(ra) /\ ft[1] = Rewrite(rt)
  <2>1. 1 \in 1..(n + 1)
    OBVIOUS
  <2> QED BY <1>3, <1>5, <2>1 DEF From1
<1> QED BY <1>2, <1>7, <1>8, <1>9

\* A rule that is sound at every position of a text makes a text of it.
LEMMA Pass ==
    ASSUME NEW X, NEW Y, NEW t \in Seq(X), NEW rule, rule = [i \in DOMAIN t |-> rule[i]],
           \A i \in 1..Len(t) : Sound(rule[i], i, Len(t), Y)
    PROVE  Edits(rule, Len(t), Y) /\ Rewrite(rule) \in Seq(Y)
<1> DEFINE n == Len(t)
           Z == {rule[i] : i \in 1..n}
<1>1. n \in Nat /\ DOMAIN t = 1..n
  OBVIOUS
<1> HIDE DEF n
<1>2. rule \in [1..n -> Z]
  BY <1>1
<1> HIDE DEF Z
<1>3. rule \in Seq(Z)
  BY <1>1, <1>2, SeqDef
<1>4. Len(rule) = n
  <2>1. DOMAIN rule = 1..Len(rule) /\ Len(rule) \in Nat
    BY <1>3, LenProperties
  <2> QED BY <1>1, <1>2, <2>1
<1>5. DOMAIN rule = 1..n
  BY <1>2
<1>6. Edits(rule, n, Y)
  BY <1>4, <1>5 DEF Edits, n
<1> QED BY <1>1, <1>6, RewriteSteps DEF n

Concats(f, seqs, N) == f[1] = seqs[1] /\ \A i \in 2..N : f[i] = f[i - 1] \o seqs[i]

LEMMA FlattenSteps ==
    ASSUME NEW X, NEW seqs \in Seq(Seq(X)), seqs # <<>>
    PROVE  \E f : FlattenSeq(seqs) = f[Len(seqs)] /\ Concats(f, seqs, Len(seqs))
<1> DEFINE N == Len(seqs)
           P(n) == \E f : f = [i \in 1..n |-> IF i = 1 THEN seqs[i] ELSE f[i - 1] \o seqs[i]]
           T == {n \in Nat : P(n)}
<1>1. N \in Nat \ {0} /\ \A i \in 1..N : seqs[i] \in Seq(X)
  OBVIOUS
<1>2. \A n \in Nat : n \in T <=> P(n)
  OBVIOUS
<1>3. P(0)
  <2> DEFINE f == [i \in {} |-> {}]
  <2>1. 1..0 = {}
    OBVIOUS
  <2>2. f = [i \in 1..0 |-> IF i = 1 THEN seqs[i] ELSE f[i - 1] \o seqs[i]]
    BY <2>1
  <2> QED BY <2>2
<1>4. ASSUME NEW n \in Nat, P(n) PROVE P(n + 1)
  <2>1. PICK f : f = [i \in 1..n |-> IF i = 1 THEN seqs[i] ELSE f[i - 1] \o seqs[i]]
    BY <1>4
  <2>2. \A i \in 1..n : f[i] = IF i = 1 THEN seqs[i] ELSE f[i - 1] \o seqs[i]
    BY <2>1
  <2> DEFINE g == [i \in 1..(n + 1) |->
                     IF i = n + 1 THEN IF i = 1 THEN seqs[i] ELSE f[i - 1] \o seqs[i]
                                  ELSE f[i]]
  <2>3. \A i \in 1..n : g[i] = f[i]
    OBVIOUS
  <2>4. ASSUME NEW i \in 1..(n + 1)
        PROVE  g[i] = IF i = 1 THEN seqs[i] ELSE g[i - 1] \o seqs[i]
    <3>1. i # 1 => i - 1 \in 1..n
      OBVIOUS
    <3>2. CASE i = n + 1
      BY <2>3, <3>1, <3>2
    <3>3. CASE i \in 1..n
      BY <2>2, <2>3, <3>1, <3>3
    <3> QED BY <3>2, <3>3
  <2>5. g = [i \in 1..(n + 1) |-> IF i = 1 THEN seqs[i] ELSE g[i - 1] \o seqs[i]]
    BY <2>4
  <2> HIDE DEF g
  <2> QED BY <2>5
<1> HIDE DEF P, T
<1>5. P(N)
  <2>1. 0 \in T
    BY <1>2, <1>3
  <2>2. \A n \in Nat : n \in T => n + 1 \in T
    BY <1>2, <1>4
  <2>3. N \in T
    BY <1>1, <2>1, <2>2, CountingUp
  <2> QED BY <1>1, <1>2, <2>3
<1> DEFINE F == CHOOSE f : f = [i \in 1..N |-> IF i = 1 THEN seqs[i] ELSE f[i - 1] \o seqs[i]]
<1>6. F = [i \in 1..N |-> IF i = 1 THEN seqs[i] ELSE F[i - 1] \o seqs[i]]
  BY <1>5, Zenon DEF P
<1>7. FlattenSeq(seqs) = F[N]
  BY <1>1 DEF FlattenSeq
<1> HIDE DEF F, N
<1>8. F[1] = seqs[1] /\ \A i \in 2..N : F[i] = F[i - 1] \o seqs[i]
  <2>1. 1 \in 1..N /\ \A i \in 2..N : i \in 1..N /\ i # 1
    BY <1>1
  <2>2. \A i \in 1..N : F[i] = IF i = 1 THEN seqs[i] ELSE F[i - 1] \o seqs[i]
    BY <1>6
  <2> QED BY <2>1, <2>2
<1>9. FlattenSeq(seqs) = F[N] /\ Concats(F, seqs, N)
  BY <1>7, <1>8 DEF Concats
<1> QED BY <1>9 DEF N

LEMMA Flattened ==
    ASSUME NEW X, NEW seqs \in Seq(Seq(X)), seqs # <<>>
    PROVE  FlattenSeq(seqs) \in Seq(X) /\ (seqs[1] # <<>> => FlattenSeq(seqs) # <<>>)
<1> DEFINE N == Len(seqs)
<1>1. N \in Nat \ {0} /\ \A i \in 1..N : seqs[i] \in Seq(X)
  OBVIOUS
<1>2. PICK F : FlattenSeq(seqs) = F[N] /\ Concats(F, seqs, N)
  BY FlattenSteps
<1> HIDE DEF N
<1>3. FlattenSeq(seqs) = F[N]
  BY <1>2
<1>4. F[1] = seqs[1] /\ \A i \in 2..N : F[i] = F[i - 1] \o seqs[i]
  BY <1>2 DEF Concats
<1> DEFINE G(s) == s \in Seq(X) /\ (seqs[1] # <<>> => s # <<>>)
           U == {n \in Nat : n + 1 <= N => G(F[n + 1])}
<1>5. \A n \in Nat : n \in U <=> (n + 1 <= N => G(F[n + 1]))
  OBVIOUS
<1> HIDE DEF U
<1>6. 0 \in U
  BY <1>1, <1>4, <1>5
<1>7. ASSUME NEW n \in Nat, n \in U PROVE n + 1 \in U
  <2> SUFFICES ASSUME (n + 1) + 1 <= N PROVE G(F[(n + 1) + 1])
    BY <1>5
  <2>1. (n + 1) + 1 \in 2..N /\ (n + 1) + 1 \in 1..N /\ ((n + 1) + 1) - 1 = n + 1
    BY <1>1
  <2>2. G(F[n + 1])
    BY <1>1, <1>5, <1>7
  <2>3. F[(n + 1) + 1] = F[n + 1] \o seqs[(n + 1) + 1] /\ seqs[(n + 1) + 1] \in Seq(X)
    BY <1>1, <1>4, <2>1
  <2> QED BY <2>2, <2>3, ConcatProperties, ConcatEqualIffEmpty
<1>8. G(F[N])
  <2>1. Nat \subseteq U
    BY <1>6, <1>7, CountingUp
  <2>2. N - 1 \in Nat /\ (N - 1) + 1 = N
    BY <1>1
  <2>3. N - 1 \in U
    BY <2>1, <2>2
  <2> HIDE DEF G
  <2> QED BY <1>5, <2>2, <2>3
<1> QED BY <1>3, <1>8

LEMMA SpacedType ==
    ASSUME NEW X, Space \in X, NEW ws \in Seq(X), ws # <<>>
    PROVE  Spaced(ws) \in Seq(X)
<1> DEFINE n == Len(ws)
           s == [k \in 1..n |-> <<Space, ws[k]>>]
<1>1. n \in Nat \ {0} /\ \A k \in 1..n : <<Space, ws[k]>> \in Seq(X) /\ <<Space, ws[k]>> # <<>>
  OBVIOUS
<1>2. s \in Seq(Seq(X)) /\ Len(s) = n
  BY <1>1
<1>3. s # <<>> /\ s[1] # <<>>
  <2>1. 1 \in 1..n
    BY <1>1
  <2>2. s[1] = <<Space, ws[1]>>
    BY <2>1
  <2>3. s # <<>>
    <3> HIDE DEF s
    <3> QED BY <1>1, <1>2
  <2> QED BY <2>2, <2>3
<1>4. Spaced(ws) = Tail(FlattenSeq(s))
  BY DEF Spaced
<1> HIDE DEF s
<1>5. FlattenSeq(s) \in Seq(X) /\ FlattenSeq(s) # <<>>
  BY <1>2, <1>3, Flattened
<1> QED BY <1>4, <1>5, HeadTailProperties

\* Digits read as a number.
LEMMA ValueType ==
    ASSUME NEW ds \in Seq(0..9)
    PROVE  Value(ds) \in Nat
<1> DEFINE N == Len(ds)
           step == [p \in Nat \X (1..N) |-> 10 * p[1] + ds[p[2]]]
           F == CHOOSE it : it = [s \in SUBSET DOMAIN ds |->
                  IF s = {} THEN 0 ELSE 10 * it[s \ {Max(s)}] + ds[Max(s)]]
<1>1. N = Len(ds) /\ N \in Nat /\ DOMAIN ds = 1..N /\ \A k \in 1..N : ds[k] \in 0..9
  OBVIOUS
<1>2. 0 \in Nat
  OBVIOUS
<1>3. step \in [Nat \X (1..N) -> Nat]
  BY <1>1, SMTT(30)
<1>4. Value(ds) = F[DOMAIN ds]
  BY Zenon DEF Value, FoldLeft, MapThenFoldSet
<1>5. \A p \in Nat, k \in 1..N : step[<<p, k>>] = 10 * p + ds[k]
  OBVIOUS
<1> HIDE DEF step, N
<1>6. F = [s \in SUBSET DOMAIN ds |->
             IF s = {} THEN 0 ELSE 10 * F[s \ {Max(s)}] + ds[Max(s)]]
  <2>0. PICK it : IsFold(it, Nat, 0, N, step)
    BY <1>1, <1>2, <1>3, FoldExists
  <2>1. /\ it \in [SUBSET (1..N) -> Nat]
        /\ \A s \in SUBSET (1..N) :
             it[s] = IF s = {} THEN 0 ELSE step[<<it[s \ {Max(s)}], Max(s)>>]
    BY <2>0 DEF IsFold
  <2>2. \A s \in SUBSET (1..N) :
           it[s] = IF s = {} THEN 0 ELSE 10 * it[s \ {Max(s)}] + ds[Max(s)]
    BY <1>1, <1>5, <2>1, Largest
  <2>3. it = [s \in SUBSET DOMAIN ds |->
                IF s = {} THEN 0 ELSE 10 * it[s \ {Max(s)}] + ds[Max(s)]]
    BY <1>1, <2>1, <2>2
  <2> QED BY <2>3, Zenon
<1> HIDE DEF F
<1>7. Folds(F, Nat, 0, N, step)
  <2>1. F[{}] = 0
    BY <1>6
  <2>2. ASSUME NEW s \in SUBSET (1..N), s # {}, F[s \ {Max(s)}] \in Nat
        PROVE  F[s] = step[<<F[s \ {Max(s)}], Max(s)>>]
    <3>1. s \in SUBSET DOMAIN ds /\ Max(s) \in 1..N
      BY <1>1, <2>2, Largest
    <3>2. F[s] = 10 * F[s \ {Max(s)}] + ds[Max(s)]
      BY <1>6, <2>2, <3>1
    <3> QED BY <1>5, <2>2, <3>1, <3>2
  <2> QED BY <2>1, <2>2 DEF Folds
<1>8. PICK f : InSteps(f, Nat, 0, N, step, F[1..N])
  BY <1>1, <1>2, <1>3, <1>7, FoldSteps
<1>9. f \in [0..N -> Nat] /\ f[N] = F[1..N]
  BY <1>8 DEF InSteps
<1> QED BY <1>1, <1>4, <1>9

\* The group of digits and commas from i on ends at j.
InGroup(x) == IsDigits(x) \/ x = Mark(",")
GroupTo(t, i, j) ==
    /\ j \in i..Len(t)
    /\ \A k \in i..j : InGroup(t[k])
    /\ ~(j < Len(t) /\ InGroup(t[j + 1]))

LEMMA GroupEndType ==
    ASSUME NEW t \in Seq(Parts), NEW i \in 1..Len(t), IsDigits(t[i])
    PROVE  GroupEnd(t, i) \in i..Len(t) /\ GroupTo(t, i, GroupEnd(t, i))
<1> DEFINE n == Len(t)
           Q(k) == IsDigits(t[k]) \/ t[k] = Mark(",")
           S == {j \in i..n : \A k \in i..j : Q(k)}
<1>1. n \in Nat /\ i \in 1..n
  OBVIOUS
<1> HIDE DEF n
<1>2. S \in SUBSET (1..n) /\ i \in S
  <2>1. Q(i) /\ \A k \in i..i : k = i
    BY <1>1
  <2> HIDE DEF Q
  <2> QED BY <1>1, <2>1
<1>3. PICK j \in S : \A l \in S : j >= l
  BY <1>1, <1>2, Extremes
<1>4. ~(j < n /\ Q(j + 1))
  <2> SUFFICES ASSUME j < n, Q(j + 1) PROVE FALSE
    OBVIOUS
  <2> HIDE DEF Q
  <2>0. j \in i..n /\ \A k \in i..j : Q(k)
    BY <1>3
  <2>1. j + 1 \in i..n /\ \A k \in i..(j + 1) : k = j + 1 \/ k \in i..j
    BY <1>1, <2>0
  <2>2. j + 1 \in S
    BY <2>0, <2>1
  <2>3. j >= j + 1
    BY <1>3, <2>2
  <2> QED BY <2>0, <2>3
<1>5. \E l \in i..n : /\ \A k \in i..l : Q(k)
                      /\ ~(l < n /\ Q(l + 1))
  BY <1>3, <1>4
<1>6. /\ GroupEnd(t, i) \in i..n
      /\ \A k \in i..GroupEnd(t, i) : Q(k)
      /\ ~(GroupEnd(t, i) < n /\ Q(GroupEnd(t, i) + 1))
  BY <1>5 DEF GroupEnd, n
<1> QED BY <1>6 DEF GroupTo, InGroup, n

LEMMA GroupDigitsType ==
    ASSUME NEW t \in Seq(Parts), NEW i \in 1..Len(t), NEW j \in i..Len(t)
    PROVE  GroupDigits(t, i, j) \in Seq(0..9)
<1> DEFINE n == j - i + 1
           E(k) == IF IsDigits(t[i + k - 1]) THEN t[i + k - 1].digits ELSE <<>>
           s == [k \in 1..n |-> E(k)]
<1>1. n \in Nat \ {0} /\ \A k \in 1..n : i + k - 1 \in 1..Len(t)
  OBVIOUS
<1>2. \A k \in 1..n : E(k) \in Seq(0..9)
  <2> SUFFICES ASSUME NEW k \in 1..n PROVE E(k) \in Seq(0..9)
    OBVIOUS
  <2>1. t[i + k - 1] \in Parts
    BY <1>1
  <2> HIDE DEF n
  <2>2. IsDigits(t[i + k - 1]) => t[i + k - 1].digits \in Seq(0..9)
    BY <2>1, Kinds DEF Numeral
  <2> QED BY <2>2
<1>3. GroupDigits(t, i, j) = FlattenSeq(s)
  BY DEF GroupDigits
<1> HIDE DEF E, n
<1>4. s \in Seq(Seq(0..9)) /\ Len(s) = n
  BY <1>1, <1>2
<1>5. s # <<>>
  BY <1>1, <1>4
<1> HIDE DEF s
<1> QED BY <1>3, <1>4, <1>5, Flattened

LEMMA YearType ==
    ASSUME NEW y \in Nat
    PROVE  Year(y) \in Seq(Sounds) /\ Year(y) # <<>>
<1> DEFINE a == y \div 100
           b == y % 100
<1>1. a \in Nat /\ b \in Nat
  OBVIOUS
<1> HIDE DEF a, b
<1>2. Cardinal(a) \in Sounds /\ Cardinal(b) \in Sounds /\ Cardinal(y) \in Sounds
  BY <1>1, Kinds
<1>3. Word("hundred") \in Sounds
  BY SpellingsSound DEF Spellings
<1> QED BY <1>2, <1>3 DEF Year, a, b

LEMMA IntegerType ==
    ASSUME NEW ds \in Seq(0..9)
    PROVE  /\ EachDigit(ds) \in Seq(Sounds) /\ Len(EachDigit(ds)) = Len(ds)
           /\ Integer(ds) \in Seq(Sounds) /\ Integer(ds) # <<>>
<1>1. \A k \in 1..Len(ds) : Cardinal(ds[k]) \in Sounds
  BY Kinds
<1>2. EachDigit(ds) \in Seq(Sounds) /\ Len(EachDigit(ds)) = Len(ds)
  BY <1>1 DEF EachDigit
<1>3. Value(ds) \in Nat /\ Cardinal(Value(ds)) \in Sounds
  BY ValueType, Kinds
<1>4. Year(Value(ds)) \in Seq(Sounds) /\ Year(Value(ds)) # <<>>
  BY <1>3, YearType
<1>5. Len(ds) > 1 => EachDigit(ds) # <<>>
  BY <1>2
<1> QED BY <1>2, <1>3, <1>4, <1>5 DEF Integer

LEMMA EditKeep ==
    ASSUME NEW X, NEW t \in Seq(X), NEW i \in 1..Len(t)
    PROVE  Sound(Keep(t, i), i, Len(t), X)
BY DEF Keep, Replace, Sound

LEMMA EditReplace ==
    ASSUME NEW X, NEW n \in Nat, NEW i \in 1..n, NEW k \in 1..(n + 1 - i), NEW s \in Seq(X)
    PROVE  Sound(Replace(k, s), i, n, X)
BY DEF Replace, Sound

LEMMA SoundsAreParts == Seq(Sounds) \subseteq Seq(Parts)
BY Kinds, SeqMonotonic

\* What a test of a position tells of it.
LEMMA TestsTell ==
    ASSUME NEW t \in Seq(Parts), NEW i \in Int
    PROVE  /\ \A c : MarkAt(t, i, c) => i \in 1..Len(t)
           /\ \A lens : DigitsAt(t, i, lens) =>
                /\ i \in 1..Len(t) /\ IsDigits(t[i])
                /\ t[i].digits \in Numeral /\ t[i].digits \in Seq(0..9) /\ Len(t[i].digits) \in lens
           /\ \A ws : WordAt(t, i, ws) => i \in 1..Len(t) /\ t[i].word \in ws
           /\ SpeechAt(t, i) => i \in 1..Len(t)
           /\ OptSpace(t, i) = i \/ (OptSpace(t, i) = i + 1 /\ i \in 1..Len(t))
<1>1. \A lens : DigitsAt(t, i, lens) =>
        /\ i \in 1..Len(t) /\ IsDigits(t[i])
        /\ t[i].digits \in Numeral /\ t[i].digits \in Seq(0..9) /\ Len(t[i].digits) \in lens
  <2> SUFFICES ASSUME NEW lens, DigitsAt(t, i, lens)
               PROVE  /\ i \in 1..Len(t) /\ IsDigits(t[i])
                      /\ t[i].digits \in Numeral /\ t[i].digits \in Seq(0..9)
                      /\ Len(t[i].digits) \in lens
    OBVIOUS
  <2>1. i \in 1..Len(t) /\ IsDigits(t[i]) /\ Len(t[i].digits) \in lens
    BY DEF DigitsAt
  <2>2. t[i] \in Parts
    BY <2>1
  <2>3. t[i].digits \in Numeral
    BY <2>1, <2>2, Kinds
  <2> QED BY <2>1, <2>3 DEF Numeral
<1>2. \A ws : WordAt(t, i, ws) => i \in 1..Len(t) /\ t[i].word \in ws
  BY DEF WordAt, Word
<1> QED BY <1>1, <1>2 DEF MarkAt, SpeechAt, OptSpace

LEMMA CountedType ==
    ASSUME NEW n \in Nat, NEW a \in Spellings, NEW b \in Spellings
    PROVE  Counted(n, a, b) \in Seq(Sounds) /\ Counted(n, a, b) # <<>>
<1>1. Cardinal(n) \in Sounds /\ Word(IF n = 1 THEN a ELSE b) \in Sounds
  BY Kinds, SpellingsSound
<1> QED BY <1>1 DEF Counted

LEMMA CentsType ==
    ASSUME NEW ds \in Numeral
    PROVE  Cents(ds) \in Nat
<1>1. ds \in Seq(0..9) /\ Len(ds) \in Nat \ {0}
  BY DEF Numeral
<1>2. CASE Len(ds) = 1
  <2>1. ds[1] \in 0..9
    BY <1>1
  <2> QED BY <1>2, <2>1 DEF Cents
<1>3. CASE Len(ds) # 1
  <2> DEFINE n == Len(ds)
  <2>0. n \in Nat /\ n >= 2
    <3>1. n \in Nat /\ n # 0
      BY <1>1
    <3>2. n # 1
      BY <1>3
    <3> HIDE DEF n
    <3> QED BY <3>1, <3>2
  <2> HIDE DEF n
  <2>1. 1 \in 1..(Len(ds) + 1) /\ 2 \in 1..Len(ds)
    BY <2>0 DEF n
  <2>2. \A k \in 1..2 : ds[k] \in 0..9
    BY <1>1, <2>1
  <2>3. SubSeq(ds, 1, 2) = [k \in 1..2 |-> ds[k]]
    BY <1>1, <2>1, SubSeqProperties
  <2>4. SubSeq(ds, 1, 2) \in Seq(0..9)
    BY <2>2, <2>3, SeqDef
  <2> QED BY <1>3, <2>4, ValueType DEF Cents
<1> QED BY <1>2, <1>3

LEMMA AbbreviationPass ==
    ASSUME NEW t \in Seq(Parts)
    PROVE  Edits(AbbreviationRule(t), Len(t), Parts) /\ Rewrite(AbbreviationRule(t)) \in Seq(Parts)
<1> DEFINE rule == AbbreviationRule(t)
<1>1. ASSUME NEW i \in 1..Len(t) PROVE Sound(rule[i], i, Len(t), Parts)
  <2>1. i \in Int /\ i + 1 \in Int /\ Len(t) \in Nat
    OBVIOUS
  <2>2. CASE WordAt(t, i, DOMAIN Abbreviations) /\ Boundary(t, i) /\ MarkAt(t, i + 1, ".")
    <3>1. rule[i] = Replace(2, <<Word(Abbreviations[t[i].word])>>)
      BY <2>2 DEF AbbreviationRule
    <3>2. t[i].word \in DOMAIN Abbreviations /\ i + 1 \in 1..Len(t)
      BY <2>1, <2>2, TestsTell
    <3>3. Abbreviations[t[i].word] \in {"Doctor", "minutes"}
      BY <3>2 DEF Abbreviations
    <3>4. <<Word(Abbreviations[t[i].word])>> \in Seq(Parts)
      BY <3>3, Kinds, SpellingsSound DEF Spellings
    <3>5. 2 \in 1..(Len(t) + 1 - i)
      BY <3>2
    <3> QED BY <2>1, <3>1, <3>4, <3>5, EditReplace
  <2>3. CASE /\ ~(WordAt(t, i, DOMAIN Abbreviations) /\ Boundary(t, i) /\ MarkAt(t, i + 1, "."))
             /\ WordAt(t, i, {"vs"}) /\ Boundary(t, i) /\ Boundary(t, i + 1)
    <3> DEFINE k == IF MarkAt(t, i + 1, ".") /\ i + 2 <= Len(t) /\ ~IsMark(t[i + 2]) THEN 2 ELSE 1
    <3>1. rule[i] = Replace(k, <<Word("versus")>>)
      BY <2>3 DEF AbbreviationRule
    <3>2. k \in 1..(Len(t) + 1 - i)
      BY <2>1
    <3>3. <<Word("versus")>> \in Seq(Parts)
      BY Kinds, SpellingsSound DEF Spellings
    <3> HIDE DEF k
    <3> QED BY <2>1, <3>1, <3>2, <3>3, EditReplace
  <2>4. CASE /\ ~(WordAt(t, i, DOMAIN Abbreviations) /\ Boundary(t, i) /\ MarkAt(t, i + 1, "."))
             /\ ~(WordAt(t, i, {"vs"}) /\ Boundary(t, i) /\ Boundary(t, i + 1))
    <3>1. rule[i] = Keep(t, i)
      BY <2>4 DEF AbbreviationRule
    <3> QED BY <3>1, EditKeep
  <2> QED BY <2>2, <2>3, <2>4
<1>2. rule = [i \in DOMAIN t |-> rule[i]]
  BY DEF AbbreviationRule
<1> HIDE DEF rule
<1> QED BY <1>1, <1>2, Pass DEF rule

LEMMA CurrencyPass ==
    ASSUME NEW t \in Seq(Parts)
    PROVE  Edits(CurrencyRule(t), Len(t), Parts) /\ Rewrite(CurrencyRule(t)) \in Seq(Parts)
<1> DEFINE rule == CurrencyRule(t)
<1>1. ASSUME NEW i \in 1..Len(t) PROVE Sound(rule[i], i, Len(t), Parts)
  <2> DEFINE from == OptSpace(t, i + 1)
             j == GroupEnd(t, from)
             dollars == Counted(Value(GroupDigits(t, from, j)), "dollar", "dollars")
             frac == t[j + 2].digits
             cents == IF Cents(frac) = 0 THEN <<>>
                      ELSE <<Word("and")>> \o Counted(Cents(frac), "cent", "cents")
             rest == SubSeq(frac, 3, Len(frac))
             more == IF rest = <<>> THEN <<>> ELSE <<Digits(rest)>>
             HasFrac == MarkAt(t, j + 1, ".") /\ DigitsAt(t, j + 2, AnyLength)
             IsAmount == MarkAt(t, i, "$") /\ DigitsAt(t, from, AnyLength)
  <2>1. Len(t) \in Nat /\ i + 1 \in Int
    OBVIOUS
  <2>2. rule[i] = IF ~IsAmount THEN Keep(t, i)
                  ELSE IF ~HasFrac THEN Replace(j + 1 - i, Spaced(dollars))
                  ELSE Replace(j + 3 - i, Spaced(dollars \o cents) \o more)
    BY DEF CurrencyRule
  <2>3. CASE ~IsAmount
    BY <2>2, <2>3, EditKeep
  <2>4. CASE IsAmount
    <3>1. from \in Int /\ from > i
      BY <2>1, TestsTell
    <3>2. from \in 1..Len(t) /\ IsDigits(t[from])
      BY <2>4, <3>1, TestsTell
    <3>3. j \in from..Len(t)
      BY <3>2, GroupEndType
    <3>4. dollars \in Seq(Sounds) /\ dollars # <<>>
      <4>1. GroupDigits(t, from, j) \in Seq(0..9)
        BY <3>2, <3>3, GroupDigitsType
      <4> QED BY <4>1, ValueType, CountedType DEF Spellings
    <3> HIDE DEF j, from, dollars
    <3>5. CASE ~HasFrac
      <4>1. Spaced(dollars) \in Seq(Parts)
        BY <3>4, SpacedType, Kinds, SoundsAreParts
      <4>2. j + 1 - i \in 1..(Len(t) + 1 - i)
        BY <3>1, <3>2, <3>3
      <4>3. rule[i] = Replace(j + 1 - i, Spaced(dollars))
        BY <2>2, <2>4, <3>5
      <4> QED BY <2>1, <4>1, <4>2, <4>3, EditReplace
    <3>6. CASE HasFrac
      <4>1. j + 2 \in Int
        BY <3>2, <3>3
      <4>2. j + 2 \in 1..Len(t) /\ frac \in Numeral /\ frac \in Seq(0..9)
        BY <3>6, <4>1, TestsTell
      <4> HIDE DEF frac
      <4>3. cents \in Seq(Sounds)
        <5>1. <<Word("and")>> \in Seq(Sounds)
          BY SpellingsSound DEF Spellings
        <5>2. Counted(Cents(frac), "cent", "cents") \in Seq(Sounds)
          BY <4>2, CentsType, CountedType DEF Spellings
        <5> QED BY <5>1, <5>2, ConcatProperties
      <4>4. more \in Seq(Parts)
        <5>1. rest \in Seq(0..9)
          BY <4>2, SubSeqProperties
        <5> HIDE DEF rest
        <5>2. rest # <<>> => Digits(rest) \in Parts
          BY <5>1, Kinds DEF Numeral
        <5> QED BY <5>2
      <4> HIDE DEF cents, more
      <4>5. dollars \o cents \in Seq(Sounds) /\ dollars \o cents # <<>>
        BY <3>4, <4>3, ConcatProperties, ConcatEqualIffEmpty
      <4>6. Spaced(dollars \o cents) \in Seq(Parts)
        BY <4>5, SpacedType, Kinds, SoundsAreParts
      <4>7. Spaced(dollars \o cents) \o more \in Seq(Parts)
        BY <4>4, <4>6, ConcatProperties
      <4>8. j + 3 - i \in 1..(Len(t) + 1 - i)
        BY <3>1, <3>2, <3>3, <4>2
      <4>9. rule[i] = Replace(j + 3 - i, Spaced(dollars \o cents) \o more)
        BY <2>2, <2>4, <3>6
      <4> QED BY <2>1, <4>7, <4>8, <4>9, EditReplace
    <3> QED BY <3>5, <3>6
  <2> QED BY <2>3, <2>4
<1>2. rule = [i \in DOMAIN t |-> rule[i]]
  BY DEF CurrencyRule
<1> HIDE DEF rule
<1> QED BY <1>1, <1>2, Pass DEF rule
LEMMA PieceType ==
    ASSUME NEW X, NEW t \in Seq(X), NEW i \in 1..Len(t), NEW j \in i..Len(t)
    PROVE  SubSeq(t, i, j) \in Seq(X)
BY SubSeqProperties

LEMMA DatePass ==
    ASSUME NEW t \in Seq(Parts)
    PROVE  Edits(DateRule(t), Len(t), Parts) /\ Rewrite(DateRule(t)) \in Seq(Parts)
<1> DEFINE rule == DateRule(t)
<1>1. ASSUME NEW i \in 1..Len(t) PROVE Sound(rule[i], i, Len(t), Parts)
  <2> DEFINE IsDate == /\ DigitsAt(t, i, {1, 2}) /\ Boundary(t, i)
                       /\ MarkAt(t, i + 1, "/") /\ DigitsAt(t, i + 2, {1, 2})
             HasYear == MarkAt(t, i + 3, "/") /\ DigitsAt(t, i + 4, 2..4) /\ Boundary(t, i + 5)
             n == IF HasYear THEN 5 ELSE 3
             m == Value(t[i].digits)
             d == Value(t[i + 2].digits)
             year == t[i + 4].digits
             which == IF ~HasYear THEN <<>>
                      ELSE Year(IF Len(year) = 4 THEN Value(year) ELSE 2000 + Value(year))
             Holds == IsDate /\ (HasYear \/ Boundary(t, i + 3))
             Exists == m \in 1..12 /\ d \in 1..31
  <2>1. Len(t) \in Nat /\ i + 2 \in Int /\ i + 4 \in Int
    OBVIOUS
  <2>2. rule[i] = IF ~Holds THEN Keep(t, i)
                  ELSE IF ~Exists THEN Replace(n, SubSeq(t, i, i + n - 1))
                  ELSE Replace(n, Spaced(<<Word("month"), Ordinal(d)>> \o which))
    BY DEF DateRule
  <2>3. CASE ~Holds
    BY <2>2, <2>3, EditKeep
  <2>4. CASE Holds
    <3>1. i + 2 \in 1..Len(t)
      BY <2>1, <2>4, TestsTell
    <3>2. HasYear => i + 4 \in 1..Len(t) /\ year \in Seq(0..9)
      BY <2>1, TestsTell
    <3> HIDE DEF m, d, year
    <3>3. n \in 1..(Len(t) + 1 - i) /\ i + n - 1 \in i..Len(t)
      BY <3>1, <3>2
    <3>4. which \in Seq(Parts) /\ which \in Seq(Sounds)
      <4>1. CASE ~HasYear
        BY <4>1
      <4>2. CASE HasYear
        <5> DEFINE y == IF Len(year) = 4 THEN Value(year) ELSE 2000 + Value(year)
        <5>1. y \in Nat
          BY <3>2, <4>2, ValueType
        <5> HIDE DEF y
        <5>2. which = Year(y)
          BY <4>2 DEF y
        <5> QED BY <5>1, <5>2, YearType, SoundsAreParts
      <4> QED BY <4>1, <4>2
    <3> HIDE DEF n, which, HasYear
    <3>5. CASE ~Exists
      <4>1. SubSeq(t, i, i + n - 1) \in Seq(Parts)
        BY <3>3, PieceType
      <4>2. rule[i] = Replace(n, SubSeq(t, i, i + n - 1))
        BY <2>2, <2>4, <3>5
      <4> QED BY <2>1, <3>3, <4>1, <4>2, EditReplace
    <3>6. CASE Exists
      <4>1. <<Word("month"), Ordinal(d)>> \in Seq(Sounds)
        <5>1. Word("month") \in Sounds
          BY SpellingsSound DEF Spellings
        <5>2. d \in Nat
          BY <3>6
        <5>3. Ordinal(d) \in Sounds
          BY <5>2, Kinds
        <5> QED BY <5>1, <5>3
      <4> DEFINE head == <<Word("month"), Ordinal(d)>>
      <4>2. head # <<>>
        OBVIOUS
      <4> HIDE DEF head
      <4>3. head \o which \in Seq(Sounds) /\ head \o which # <<>>
        BY <3>4, <4>1, <4>2, ConcatProperties, ConcatEqualIffEmpty DEF head
      <4>4. Spaced(head \o which) \in Seq(Parts)
        BY <4>3, SpacedType, Kinds, SoundsAreParts
      <4>5. rule[i] = Replace(n, Spaced(head \o which))
        BY <2>2, <2>4, <3>6 DEF head
      <4> QED BY <2>1, <3>3, <4>4, <4>5, EditReplace
    <3> QED BY <3>5, <3>6
  <2> QED BY <2>3, <2>4
<1>2. rule = [i \in DOMAIN t |-> rule[i]]
  BY DEF DateRule
<1> HIDE DEF rule
<1> QED BY <1>1, <1>2, Pass DEF rule

LEMMA TimePass ==
    ASSUME NEW t \in Seq(Parts)
    PROVE  Edits(TimeRule(t), Len(t), Parts) /\ Rewrite(TimeRule(t)) \in Seq(Parts)
<1> DEFINE rule == TimeRule(t)
<1>1. ASSUME NEW i \in 1..Len(t) PROVE Sound(rule[i], i, Len(t), Parts)
  <2> DEFINE IsTime == /\ DigitsAt(t, i, {1, 2}) /\ Boundary(t, i) /\ MarkAt(t, i + 1, ":")
                       /\ DigitsAt(t, i + 2, {2}) /\ Boundary(t, i + 3)
             h == Value(t[i].digits)
             m == Value(t[i + 2].digits)
             minutes == IF m = 0 THEN <<Word("o'clock")>>
                        ELSE IF m < 10 THEN <<Word("oh"), Cardinal(m)>>
                        ELSE <<Cardinal(m)>>
             Exists == h \in 0..23 /\ m \in 0..59
  <2>1. Len(t) \in Nat /\ i + 2 \in Int
    OBVIOUS
  <2>i. i \in DOMAIN t
    OBVIOUS
  <2>2. rule[i] = IF ~IsTime THEN Keep(t, i)
                  ELSE IF ~Exists THEN Replace(3, SubSeq(t, i, i + 2))
                  ELSE Replace(3, Spaced(<<Cardinal(h)>> \o minutes))
    BY <2>i, Zenon DEF TimeRule
  <2>3. CASE ~IsTime
    BY <2>2, <2>3, EditKeep
  <2>4. CASE IsTime
    <3>1. i + 2 \in 1..Len(t)
      BY <2>1, <2>4, TestsTell
    <3> HIDE DEF h, m
    <3>2. 3 \in 1..(Len(t) + 1 - i) /\ i + 2 \in i..Len(t)
      BY <3>1
    <3>3. CASE ~Exists
      <4>1. SubSeq(t, i, i + 2) \in Seq(Parts)
        BY <3>2, PieceType
      <4>2. rule[i] = Replace(3, SubSeq(t, i, i + 2))
        BY <2>2, <2>4, <3>3
      <4> QED BY <2>1, <3>2, <4>1, <4>2, EditReplace
    <3>4. CASE Exists
      <4>1. h \in Nat /\ m \in Nat
        BY <3>4
      <4>2. Cardinal(h) \in Sounds /\ Cardinal(m) \in Sounds
        BY <4>1, Kinds
      <4>3. Word("o'clock") \in Sounds /\ Word("oh") \in Sounds
        BY SpellingsSound DEF Spellings
      <4>4. minutes \in Seq(Sounds)
        BY <4>2, <4>3
      <4> DEFINE head == <<Cardinal(h)>>
      <4>5. head \in Seq(Sounds) /\ head # <<>>
        BY <4>2
      <4> HIDE DEF minutes, head
      <4>6. head \o minutes \in Seq(Sounds) /\ head \o minutes # <<>>
        BY <4>4, <4>5, ConcatProperties, ConcatEqualIffEmpty
      <4>7. Spaced(head \o minutes) \in Seq(Parts)
        BY <4>6, SpacedType, Kinds, SoundsAreParts
      <4>8. rule[i] = Replace(3, Spaced(head \o minutes))
        BY <2>2, <2>4, <3>4 DEF head
      <4> QED BY <2>1, <3>2, <4>7, <4>8, EditReplace
    <3> QED BY <3>3, <3>4
  <2> QED BY <2>3, <2>4
<1>2. rule = [i \in DOMAIN t |-> rule[i]]
  BY DEF TimeRule
<1> HIDE DEF rule
<1> QED BY <1>1, <1>2, Pass DEF rule

LEMMA UnitPass ==
    ASSUME NEW t \in Seq(Parts)
    PROVE  Edits(UnitRule(t), Len(t), Parts) /\ Rewrite(UnitRule(t)) \in Seq(Parts)
<1> DEFINE rule == UnitRule(t)
<1>1. ASSUME NEW i \in 1..Len(t) PROVE Sound(rule[i], i, Len(t), Parts)
  <2> DEFINE HasFrac == MarkAt(t, i + 1, ".") /\ DigitsAt(t, i + 2, AnyLength)
             last == IF HasFrac THEN i + 2 ELSE i
             unit == OptSpace(t, last + 1)
             Says(u) == Replace(unit + 1 - i, SubSeq(t, i, last) \o <<Space, Word(u)>>)
             IsNumber == DigitsAt(t, i, AnyLength) /\ Boundary(t, i)
             IsUnit == WordAt(t, unit, DOMAIN Units) /\ Boundary(t, unit + 1)
  <2>1. Len(t) \in Nat /\ i \in Int /\ i + 2 \in Int
    OBVIOUS
  <2>2. rule[i] = IF ~IsNumber THEN Keep(t, i)
                  ELSE IF IsUnit THEN Says(Units[t[unit].word])
                  ELSE IF MarkAt(t, unit, "%") THEN Says("percent")
                  ELSE Keep(t, i)
    BY DEF UnitRule
  <2>3. last \in i..Len(t)
    <3>1. HasFrac => i + 2 \in 1..Len(t)
      BY <2>1, TestsTell
    <3> HIDE DEF HasFrac
    <3> QED BY <2>1, <3>1
  <2> HIDE DEF last
  <2>4. unit \in Int /\ unit > last
    BY <2>1, <2>3, TestsTell
  <2> HIDE DEF unit
  <2>5. ASSUME NEW u \in Spellings, unit \in 1..Len(t), rule[i] = Says(u)
        PROVE  Sound(rule[i], i, Len(t), Parts)
    <3>1. SubSeq(t, i, last) \in Seq(Parts)
      BY <2>3, PieceType
    <3>2. <<Space, Word(u)>> \in Seq(Parts)
      BY Kinds, SpellingsSound
    <3>3. SubSeq(t, i, last) \o <<Space, Word(u)>> \in Seq(Parts)
      BY <3>1, <3>2, ConcatProperties
    <3>4. unit + 1 - i \in 1..(Len(t) + 1 - i)
      BY <2>1, <2>3, <2>4, <2>5
    <3> QED BY <2>1, <2>5, <3>3, <3>4, EditReplace
  <2>6. CASE IsNumber /\ IsUnit
    <3>1. unit \in 1..Len(t) /\ t[unit].word \in DOMAIN Units
      BY <2>4, <2>6, TestsTell
    <3>2. Units[t[unit].word] \in Spellings
      BY <3>1 DEF Units, Spellings
    <3>3. rule[i] = Says(Units[t[unit].word])
      BY <2>2, <2>6
    <3> HIDE DEF Says
    <3> QED BY <2>5, <3>1, <3>2, <3>3
  <2>7. CASE IsNumber /\ ~IsUnit /\ MarkAt(t, unit, "%")
    <3>1. unit \in 1..Len(t)
      BY <2>4, <2>7, TestsTell
    <3>2. "percent" \in Spellings
      BY DEF Spellings
    <3>3. rule[i] = Says("percent")
      BY <2>2, <2>7
    <3> HIDE DEF Says
    <3> QED BY <2>5, <3>1, <3>2, <3>3
  <2>8. CASE ~IsNumber \/ (~IsUnit /\ ~MarkAt(t, unit, "%"))
    <3>1. rule[i] = Keep(t, i)
      BY <2>2, <2>8
    <3> QED BY <3>1, EditKeep
  <2> QED BY <2>6, <2>7, <2>8
<1>2. rule = [i \in DOMAIN t |-> rule[i]]
  BY DEF UnitRule
<1> HIDE DEF rule
<1> QED BY <1>1, <1>2, Pass DEF rule

LEMMA OrdinalPass ==
    ASSUME NEW t \in Seq(Parts)
    PROVE  Edits(OrdinalRule(t), Len(t), Parts) /\ Rewrite(OrdinalRule(t)) \in Seq(Parts)
<1> DEFINE rule == OrdinalRule(t)
<1>1. ASSUME NEW i \in 1..Len(t) PROVE Sound(rule[i], i, Len(t), Parts)
  <2> DEFINE Holds == /\ DigitsAt(t, i, AnyLength) /\ Boundary(t, i)
                      /\ WordAt(t, i + 1, {"st", "nd", "rd", "th"}) /\ Boundary(t, i + 2)
  <2>1. Len(t) \in Nat /\ i \in Int /\ i + 1 \in Int
    OBVIOUS
  <2>2. CASE Holds
    <3>1. i + 1 \in 1..Len(t) /\ t[i].digits \in Seq(0..9)
      BY <2>1, <2>2, TestsTell
    <3>2. Value(t[i].digits) \in Nat
      BY <3>1, ValueType
    <3>3. <<Ordinal(Value(t[i].digits))>> \in Seq(Parts)
      BY <3>2, Kinds
    <3>4. 2 \in 1..(Len(t) + 1 - i)
      BY <3>1
    <3>5. rule[i] = Replace(2, <<Ordinal(Value(t[i].digits))>>)
      BY <2>2 DEF OrdinalRule
    <3> QED BY <2>1, <3>3, <3>4, <3>5, EditReplace
  <2>3. CASE ~Holds
    <3>1. rule[i] = Keep(t, i)
      BY <2>3 DEF OrdinalRule
    <3> QED BY <3>1, EditKeep
  <2> QED BY <2>2, <2>3
<1>2. rule = [i \in DOMAIN t |-> rule[i]]
  BY DEF OrdinalRule
<1> HIDE DEF rule
<1> QED BY <1>1, <1>2, Pass DEF rule
LEMMA SymbolPass ==
    ASSUME NEW t \in Seq(Parts)
    PROVE  Edits(SymbolRule(t), Len(t), Parts) /\ Rewrite(SymbolRule(t)) \in Seq(Parts)
<1> DEFINE rule == SymbolRule(t)
<1>1. ASSUME NEW i \in 1..Len(t) PROVE Sound(rule[i], i, Len(t), Parts)
  <2> DEFINE at == OptSpace(t, i)
             n == OptSpace(t, at + 1) - i
             IsSymbol == \E c \in DOMAIN Symbols : MarkAt(t, at, c)
             IsRange == /\ MarkAt(t, at, "-") /\ DigitsAt(t, i - 1, AnyLength)
                        /\ DigitsAt(t, i + n, AnyLength)
  <2>1. Len(t) \in Nat /\ i \in Int
    OBVIOUS
  <2>2. rule[i] = IF IsSymbol THEN Replace(n, <<Space, Word(Symbols[t[at].mark]), Space>>)
                  ELSE IF IsRange THEN Replace(n, <<Space, Word("to"), Space>>)
                  ELSE Keep(t, i)
    BY DEF SymbolRule
  <2>3. at \in Int /\ at >= i
    BY <2>1, TestsTell
  <2> HIDE DEF at
  <2>4. at + 1 \in Int
    BY <2>3
  <2> DEFINE next == OptSpace(t, at + 1)
  <2>5. next = at + 1 \/ (next = at + 2 /\ at + 1 \in 1..Len(t))
    BY <2>3, <2>4, TestsTell
  <2>6. n = next - i
    OBVIOUS
  <2> HIDE DEF n, next
  <2>7. ASSUME NEW w \in Spellings, at \in 1..Len(t), rule[i] = Replace(n, <<Space, Word(w), Space>>)
        PROVE  Sound(rule[i], i, Len(t), Parts)
    <3>1. <<Space, Word(w), Space>> \in Seq(Parts)
      BY Kinds, SpellingsSound
    <3>2. n \in 1..(Len(t) + 1 - i)
      BY <2>1, <2>3, <2>5, <2>6, <2>7
    <3> QED BY <2>1, <2>7, <3>1, <3>2, EditReplace
  <2>8. CASE IsSymbol
    <3>1. PICK c \in {"&", "+", "="} : MarkAt(t, at, c)
      BY <2>8 DEF Symbols
    <3>2. at \in 1..Len(t) /\ t[at].mark = c
      BY <3>1 DEF MarkAt, Mark
    <3>3. Symbols[c] \in Spellings
      <4>1. Symbols[c] \in {"and", "plus", "equals"}
        BY DEF Symbols
      <4> QED BY <4>1 DEF Spellings
    <3>4. rule[i] = Replace(n, <<Space, Word(Symbols[c]), Space>>)
      BY <2>2, <2>8, <3>2
    <3> QED BY <2>7, <3>2, <3>3, <3>4
  <2>9. CASE ~IsSymbol /\ IsRange
    <3>1. at \in 1..Len(t)
      BY <2>9 DEF MarkAt
    <3>2. "to" \in Spellings
      BY DEF Spellings
    <3>3. rule[i] = Replace(n, <<Space, Word("to"), Space>>)
      BY <2>2, <2>9
    <3> QED BY <2>7, <3>1, <3>2, <3>3
  <2>10. CASE ~IsSymbol /\ ~IsRange
    <3>1. rule[i] = Keep(t, i)
      BY <2>2, <2>10
    <3> QED BY <3>1, EditKeep
  <2> QED BY <2>8, <2>9, <2>10
<1>2. rule = [i \in DOMAIN t |-> rule[i]]
  BY DEF SymbolRule
<1> HIDE DEF rule
<1> QED BY <1>1, <1>2, Pass DEF rule

LEMMA SplitPass ==
    ASSUME NEW t \in Seq(Parts)
    PROVE  Edits(SplitRule(t), Len(t), Parts) /\ Rewrite(SplitRule(t)) \in Seq(Parts)
<1> DEFINE rule == SplitRule(t)
<1>1. ASSUME NEW i \in 1..Len(t) PROVE Sound(rule[i], i, Len(t), Parts)
  <2>1. Len(t) \in Nat /\ 1 \in 1..(Len(t) + 1 - i)
    OBVIOUS
  <2>2. <<t[i], Space>> \in Seq(Parts)
    BY Kinds
  <2>3. Sound(Replace(1, <<t[i], Space>>), i, Len(t), Parts)
    BY <2>1, <2>2, EditReplace
  <2>4. Sound(Keep(t, i), i, Len(t), Parts)
    BY EditKeep
  <2>5. rule[i] = Replace(1, <<t[i], Space>>) \/ rule[i] = Keep(t, i)
    BY SMTT(30) DEF SplitRule
  <2> QED BY <2>3, <2>4, <2>5
<1>2. rule = [i \in DOMAIN t |-> rule[i]]
  BY DEF SplitRule
<1> HIDE DEF rule
<1> QED BY <1>1, <1>2, Pass DEF rule

\* The pass that leaves no digits.
LEMMA NumberPass ==
    ASSUME NEW t \in Seq(Parts)
    PROVE  Edits(NumberRule(t), Len(t), Sounds) /\ Rewrite(NumberRule(t)) \in Seq(Sounds)
<1> DEFINE rule == NumberRule(t)
<1>1. ASSUME NEW i \in 1..Len(t) PROVE Sound(rule[i], i, Len(t), Sounds)
  <2> DEFINE j == GroupEnd(t, i)
             ds == GroupDigits(t, i, j)
             HasFrac == MarkAt(t, j + 1, ".") /\ DigitsAt(t, j + 2, AnyLength)
             head == <<Cardinal(Value(ds)), Word("point")>>
             tail == EachDigit(t[j + 2].digits)
  <2>1. Len(t) \in Nat /\ i \in Int
    OBVIOUS
  <2>2. rule[i] = IF ~DigitsAt(t, i, AnyLength) THEN Keep(t, i)
                  ELSE IF HasFrac THEN Replace(j + 3 - i, Spaced(head \o tail))
                  ELSE Replace(j + 1 - i, Spaced(Integer(ds)))
    BY DEF NumberRule
  <2>3. CASE ~DigitsAt(t, i, AnyLength)
    <3>1. ~IsDigits(t[i])
      <4>1. t[i] \in Parts
        OBVIOUS
      <4>2. ASSUME IsDigits(t[i]) PROVE FALSE
        <5>1. t[i].digits \in Numeral
          BY <4>1, <4>2, Kinds
        <5>2. Len(t[i].digits) \in AnyLength
          BY <5>1 DEF Numeral, AnyLength
        <5> QED BY <2>3, <4>2, <5>2 DEF DigitsAt
      <4> QED BY <4>2
    <3>2. <<t[i]>> \in Seq(Sounds)
      BY <3>1, Kinds
    <3>3. rule[i] = Replace(1, <<t[i]>>)
      BY <2>2, <2>3 DEF Keep
    <3>4. 1 \in 1..(Len(t) + 1 - i)
      BY <2>1
    <3> QED BY <2>1, <3>2, <3>3, <3>4, EditReplace
  <2>4. CASE DigitsAt(t, i, AnyLength)
    <3>1. IsDigits(t[i])
      BY <2>4 DEF DigitsAt
    <3>2. j \in i..Len(t)
      BY <3>1, GroupEndType
    <3>3. ds \in Seq(0..9)
      BY <3>2, GroupDigitsType
    <3> HIDE DEF j, ds
    <3>4. CASE ~HasFrac
      <4>1. Spaced(Integer(ds)) \in Seq(Sounds)
        BY <3>3, IntegerType, SpacedType, Kinds
      <4>2. j + 1 - i \in 1..(Len(t) + 1 - i)
        BY <2>1, <3>2
      <4>3. rule[i] = Replace(j + 1 - i, Spaced(Integer(ds)))
        BY <2>2, <2>4, <3>4
      <4> QED BY <2>1, <4>1, <4>2, <4>3, EditReplace
    <3>5. CASE HasFrac
      <4>1. j + 2 \in Int
        BY <3>2
      <4>2. j + 2 \in 1..Len(t) /\ t[j + 2].digits \in Seq(0..9)
        BY <3>5, <4>1, TestsTell
      <4>3. tail \in Seq(Sounds)
        BY <4>2, IntegerType
      <4>4. head \in Seq(Sounds) /\ head # <<>>
        <5>1. Cardinal(Value(ds)) \in Sounds
          BY <3>3, ValueType, Kinds
        <5>2. Word("point") \in Sounds
          BY SpellingsSound DEF Spellings
        <5> QED BY <5>1, <5>2
      <4> HIDE DEF head, tail
      <4>5. head \o tail \in Seq(Sounds) /\ head \o tail # <<>>
        BY <4>3, <4>4, ConcatProperties, ConcatEqualIffEmpty
      <4>6. Spaced(head \o tail) \in Seq(Sounds)
        BY <4>5, SpacedType, Kinds
      <4>7. j + 3 - i \in 1..(Len(t) + 1 - i)
        BY <2>1, <3>2, <4>2
      <4>8. rule[i] = Replace(j + 3 - i, Spaced(head \o tail))
        BY <2>2, <2>4, <3>5
      <4> QED BY <2>1, <4>6, <4>7, <4>8, EditReplace
    <3> QED BY <3>4, <3>5
  <2> QED BY <2>3, <2>4
<1>2. rule = [i \in DOMAIN t |-> rule[i]]
  BY DEF NumberRule
<1> HIDE DEF rule
<1> QED BY <1>1, <1>2, Pass DEF rule

LEMMA CompoundPass ==
    ASSUME NEW t \in Seq(Sounds)
    PROVE  Edits(CompoundRule(t), Len(t), Sounds) /\ Rewrite(CompoundRule(t)) \in Seq(Sounds)
<1> DEFINE rule == CompoundRule(t)
<1>1. ASSUME NEW i \in 1..Len(t) PROVE Sound(rule[i], i, Len(t), Sounds)
  <2>1. Len(t) \in Nat /\ 1 \in 1..(Len(t) + 1 - i)
    OBVIOUS
  <2>2. <<Space>> \in Seq(Sounds)
    BY Kinds
  <2>3. Sound(Replace(1, <<Space>>), i, Len(t), Sounds)
    BY <2>1, <2>2, EditReplace
  <2>4. Sound(Keep(t, i), i, Len(t), Sounds)
    BY EditKeep
  <2>5. rule[i] = Replace(1, <<Space>>) \/ rule[i] = Keep(t, i)
    BY DEF CompoundRule
  <2> QED BY <2>3, <2>4, <2>5
<1>2. rule = [i \in DOMAIN t |-> rule[i]]
  BY DEF CompoundRule
<1> HIDE DEF rule
<1> QED BY <1>1, <1>2, Pass DEF rule

LEMMA SpacePass ==
    ASSUME NEW t \in Seq(Sounds)
    PROVE  Edits(SpaceRule(t), Len(t), Sounds) /\ Rewrite(SpaceRule(t)) \in Seq(Sounds)
<1> DEFINE rule == SpaceRule(t)
<1>1. ASSUME NEW i \in 1..Len(t) PROVE Sound(rule[i], i, Len(t), Sounds)
  <2>1. Len(t) \in Nat /\ 1 \in 1..(Len(t) + 1 - i) /\ <<>> \in Seq(Sounds)
    OBVIOUS
  <2>2. Sound(Replace(1, <<>>), i, Len(t), Sounds)
    BY <2>1, EditReplace
  <2>3. Sound(Keep(t, i), i, Len(t), Sounds)
    BY EditKeep
  <2>4. rule[i] = Replace(1, <<>>) \/ rule[i] = Keep(t, i)
    <3>1. i \in DOMAIN t
      OBVIOUS
    <3> QED BY <3>1, Zenon DEF SpaceRule
  <2> QED BY <2>2, <2>3, <2>4
<1>2. rule = [i \in DOMAIN t |-> rule[i]]
  BY DEF SpaceRule
<1> HIDE DEF rule
<1> QED BY <1>1, <1>2, Pass DEF rule

\* Whatever the client says, no digits are left for the tokenizer, which has no
\* words for them.
LEMMA NormalizeLeavesNoDigits ==
    ASSUME NEW t \in Texts
    PROVE  Normalize(t) \in Seq(Sounds)
<1>1. t \in Seq(Parts)
  BY Kinds, SeqMonotonic DEF Texts
<1>2. Words(t) \in Seq(Parts)
  BY <1>1, StripKeeps, AbbreviationPass DEF Words
<1>3. ASSUME NEW u \in Seq(Parts) PROVE Amounts(u) \in Seq(Parts)
  BY CurrencyPass, DatePass, TimePass DEF Amounts
<1>4. ASSUME NEW u \in Seq(Parts) PROVE Quantities(u) \in Seq(Parts)
  BY UnitPass, OrdinalPass DEF Quantities
<1>5. ASSUME NEW u \in Seq(Parts) PROVE Numbers(u) \in Seq(Sounds)
  BY SymbolPass, SplitPass, NumberPass DEF Numbers
<1>6. ASSUME NEW u \in Seq(Sounds) PROVE Tidied(u) \in Seq(Sounds)
  BY CompoundPass, SpacePass, StripKeeps DEF Tidied
<1> QED BY <1>2, <1>3, <1>4, <1>5, <1>6 DEF Normalize

\* Whatever text is pushed, in whatever fragments, and whether it is synthesized
\* or comes from the cache: what is heard has no digits in it.
THEOREM NoDigitsAreHeard == Spec => []NoDigitsHeard
<1>1. IndInv => NoDigitsHeard
  <2> SUFFICES ASSUME IndInv, NEW k \in 1..Len(heard), NEW x \in ToSet(heard[k].latents)
               PROVE  ~IsDigits(x)
    BY DEF NoDigitsHeard
  <2>1. heard[k] \in Results
    BY DEF IndInv, Types
  <2>2. heard[k].latents \in Seq(Sounds)
    BY <2>1, HeardType, NormalizeLeavesNoDigits
  <2>3. x \in Sounds
    BY <2>2 DEF ToSet
  <2> QED BY <2>3, Kinds
<1> QED BY <1>1, IndInvInvariant, PTL

------------------------------------------------------------------------------
(* What is said of a text, whatever its spaces. *)

Quiets(t) == [i \in DOMAIN t |-> IF t[i] = Space THEN Replace(1, <<>>) ELSE Keep(t, i)]

LEMMA EditFields ==
    /\ \A k, by : Replace(k, by).taken = k /\ Replace(k, by).by = by
    /\ \A t, i : Keep(t, i).taken = 1 /\ Keep(t, i).by = <<t[i]>>
BY DEF Keep, Replace

LEMMA RuleShape ==
    ASSUME NEW X, NEW t \in Seq(X), NEW rule, rule = [i \in DOMAIN t |-> rule[i]]
    PROVE  Len(rule) = Len(t) /\ DOMAIN rule = 1..Len(t) /\ Len(t) \in Nat
<1> DEFINE n == Len(t)
           Z == {rule[i] : i \in 1..n}
<1>1. n \in Nat /\ DOMAIN t = 1..n
  OBVIOUS
<1> HIDE DEF n
<1>2. rule \in [1..n -> Z]
  BY <1>1
<1> HIDE DEF Z
<1>3. rule \in Seq(Z)
  BY <1>1, <1>2, SeqDef
<1>4. DOMAIN rule = 1..Len(rule) /\ Len(rule) \in Nat
  BY <1>3, LenProperties
<1>5. Len(rule) = n
  BY <1>1, <1>2, <1>4
<1> QED BY <1>1, <1>2, <1>5 DEF n

LEMMA QuietsEdits ==
    ASSUME NEW X, NEW t \in Seq(X)
    PROVE  Edits(Quiets(t), Len(t), X) /\ Spoken(t) = Rewrite(Quiets(t))
<1> DEFINE r == Quiets(t)
<1>1. \A i \in 1..Len(t) : r[i] = IF t[i] = Space THEN Replace(1, <<>>) ELSE Keep(t, i)
  BY DEF Quiets
<1>2. r = [i \in DOMAIN t |-> r[i]]
  BY DEF Quiets
<1>3. Spoken(t) = Rewrite(r)
  BY DEF Spoken, Quiets
<1> HIDE DEF r
<1>4. ASSUME NEW i \in 1..Len(t) PROVE Sound(r[i], i, Len(t), X)
  <2>1. Sound(Keep(t, i), i, Len(t), X)
    BY EditKeep
  <2>2. Len(t) \in Nat /\ 1 \in 1..(Len(t) + 1 - i) /\ <<>> \in Seq(X)
    OBVIOUS
  <2>3. Sound(Replace(1, <<>>), i, Len(t), X)
    BY <2>2, EditReplace
  <2> QED BY <1>1, <2>1, <2>3
<1>5. Len(r) = Len(t) /\ DOMAIN r = 1..Len(t)
  BY <1>2, RuleShape
<1> QED BY <1>3, <1>4, <1>5 DEF Edits, r

\* Positions of two texts put together.
LEMMA Positions ==
    ASSUME NEW X, NEW s \in Seq(X), NEW t \in Seq(X)
    PROVE  /\ s \o t \in Seq(X) /\ Len(s) \in Nat /\ Len(t) \in Nat
           /\ Len(s \o t) = Len(s) + Len(t)
           /\ DOMAIN (s \o t) = 1..(Len(s) + Len(t))
           /\ \A i \in 1..Len(s) : (s \o t)[i] = s[i]
           /\ \A j \in 1..Len(t) : (s \o t)[Len(s) + j] = t[j]
<1>1. /\ s \o t \in Seq(X) /\ Len(s) \in Nat /\ Len(t) \in Nat /\ Len(s \o t) = Len(s) + Len(t)
      /\ \A i \in 1..(Len(s) + Len(t)) :
           (s \o t)[i] = IF i <= Len(s) THEN s[i] ELSE t[i - Len(s)]
  BY ConcatProperties, LenProperties
<1>2. DOMAIN (s \o t) = 1..(Len(s) + Len(t))
  BY <1>1, LenProperties
<1>3. \A i \in 1..Len(s) : i \in 1..(Len(s) + Len(t)) /\ i <= Len(s)
  BY <1>1
<1>4. \A j \in 1..Len(t) : Len(s) + j \in 1..(Len(s) + Len(t)) /\ ~(Len(s) + j <= Len(s))
                           /\ (Len(s) + j) - Len(s) = j
  BY <1>1
<1> QED BY <1>1, <1>2, <1>3, <1>4

Joins(u, s, n, t, m) ==
    /\ Len(u) = n + m /\ DOMAIN u = 1..(n + m)
    /\ \A i \in 1..n : u[i] = s[i]
    /\ \A j \in 1..m : u[n + j] = t[j]

LEMMA Joined ==
    ASSUME NEW X, NEW s \in Seq(X), NEW t \in Seq(X)
    PROVE  s \o t \in Seq(X) /\ Joins(s \o t, s, Len(s), t, Len(t))
BY Positions DEF Joins

LEMMA SpokenApart ==
    ASSUME NEW X, NEW s \in Seq(X), NEW t \in Seq(X)
    PROVE  /\ Spoken(s) \in Seq(X) /\ Spoken(t) \in Seq(X)
           /\ Spoken(s \o t) = Spoken(s) \o Spoken(t)
<1> DEFINE u == s \o t
           n == Len(s)
           m == Len(t)
<1>1. /\ u \in Seq(X) /\ n \in Nat /\ m \in Nat /\ DOMAIN u = 1..(n + m) /\ Len(u) = n + m
      /\ DOMAIN s = 1..n /\ DOMAIN t = 1..m
      /\ (\A i \in 1..n : u[i] = s[i]) /\ (\A j \in 1..m : u[n + j] = t[j])
  BY Positions
<1>2. /\ Edits(Quiets(s), n, X) /\ Edits(Quiets(t), m, X) /\ Edits(Quiets(u), n + m, X)
      /\ Spoken(s) = Rewrite(Quiets(s)) /\ Spoken(t) = Rewrite(Quiets(t))
      /\ Spoken(u) = Rewrite(Quiets(u))
  BY <1>1, QuietsEdits
<1> HIDE DEF u, n, m
<1>3. \A i \in 1..n : Quiets(u)[i] = Quiets(s)[i]
  <2>1. \A i \in 1..n : i \in DOMAIN u /\ i \in DOMAIN s
    BY <1>1
  <2> QED BY <1>1, <2>1 DEF Quiets, Keep
<1>4. \A j \in 1..m : Quiets(u)[n + j] = Quiets(t)[j]
  <2>1. \A j \in 1..m : n + j \in DOMAIN u /\ j \in DOMAIN t
    BY <1>1
  <2> QED BY <1>1, <2>1 DEF Quiets, Keep
<1>5. Len(Quiets(u)) = n + m /\ DOMAIN Quiets(u) = 1..(n + m)
  BY <1>2 DEF Edits
<1>6. /\ Rewrite(Quiets(s)) \in Seq(X) /\ Rewrite(Quiets(t)) \in Seq(X)
      /\ Rewrite(Quiets(u)) = Rewrite(Quiets(s)) \o Rewrite(Quiets(t))
  <2> DEFINE a == Quiets(s)
             b == Quiets(t)
             c == Quiets(u)
  <2>1. /\ Edits(a, n, X) /\ Edits(b, m, X) /\ n \in Nat /\ m \in Nat /\ Apart(c, a, n, b, m)
    BY <1>1, <1>2, <1>3, <1>4, <1>5 DEF Apart
  <2> HIDE DEF a, b, c
  <2>2. Rewrite(a) \in Seq(X) /\ Rewrite(b) \in Seq(X) /\ Rewrite(c) = Rewrite(a) \o Rewrite(b)
    BY <2>1, RewriteApart
  <2> QED BY <2>2 DEF a, b, c
<1> QED BY <1>2, <1>6 DEF u

LEMMA SpokenOne ==
    ASSUME NEW X, NEW x \in X
    PROVE  Spoken(<<>>) = <<>> /\ Spoken(<<x>>) = IF x = Space THEN <<>> ELSE <<x>>
<1>1. Spoken(<<>>) = <<>>
  <2> DEFINE t == <<>>
  <2>1. t \in Seq(X) /\ Len(t) = 0
    OBVIOUS
  <2>2. Edits(Quiets(t), 0, X) /\ Spoken(t) = Rewrite(Quiets(t))
    BY <2>1, QuietsEdits
  <2>3. PICK f : From1(f, Quiets(t), 0, X)
    BY <2>2, RewriteSteps
  <2> QED BY <2>2, <2>3 DEF From1
<1>2. Spoken(<<x>>) = IF x = Space THEN <<>> ELSE <<x>>
  <2> DEFINE t == <<x>>
             e == IF x = Space THEN <<>> ELSE <<x>>
  <2>1. t \in Seq(X) /\ Len(t) = 1 /\ t[1] = x /\ DOMAIN t = {1} /\ e \in Seq(X)
    OBVIOUS
  <2> HIDE DEF t
  <2>2. Edits(Quiets(t), 1, X) /\ Spoken(t) = Rewrite(Quiets(t))
    BY <2>1, QuietsEdits
  <2>3. PICK f : From1(f, Quiets(t), 1, X)
    BY <2>2, RewriteSteps
  <2>4. Quiets(t)[1].by = e /\ Quiets(t)[1].taken = 1
    BY <2>1 DEF Quiets, Keep, Replace
  <2>5. f[1] = Quiets(t)[1].by \o f[1 + Quiets(t)[1].taken] /\ f[2] = <<>> /\ Rewrite(Quiets(t)) = f[1]
    <3>1. 1 \in 1..1 /\ 1 + 1 = 2
      OBVIOUS
    <3> QED BY <2>3, <3>1 DEF From1
  <2> HIDE DEF e
  <2>6. f[1] = e
    BY <2>1, <2>4, <2>5, ConcatEmptySeq
  <2> QED BY <2>2, <2>5, <2>6 DEF t, e
<1> QED BY <1>1, <1>2

LEMMA SpokenSpaces ==
    ASSUME NEW X, NEW t \in Seq(X), \A i \in 1..Len(t) : t[i] = Space
    PROVE  Spoken(t) = <<>>
<1> DEFINE T == {s \in Seq(X) : (\A i \in 1..Len(s) : s[i] = Space) => Spoken(s) = <<>>}
<1>1. <<>> \in T
  <2>1. <<>> \in Seq(X)
    OBVIOUS
  <2>2. Spoken(<<>>) = <<>>
    BY SpokenOne
  <2> QED BY <2>1, <2>2
<1>2. ASSUME NEW s \in Seq(X), NEW x \in X, s \in T PROVE Append(s, x) \in T
  <2>1. Append(s, x) \in Seq(X)
    BY AppendProperties
  <2> SUFFICES ASSUME \A i \in 1..Len(Append(s, x)) : Append(s, x)[i] = Space
               PROVE  Spoken(Append(s, x)) = <<>>
    BY <2>1
  <2>2. /\ Len(Append(s, x)) = Len(s) + 1 /\ Len(s) \in Nat /\ Append(s, x)[Len(s) + 1] = x
        /\ \A i \in 1..Len(s) : Append(s, x)[i] = s[i]
    BY AppendProperties
  <2>3. x = Space /\ \A i \in 1..Len(s) : s[i] = Space
    BY <2>2
  <2>4. Spoken(s) = <<>> /\ Spoken(<<x>>) = <<>>
    BY <1>2, <2>3, SpokenOne
  <2>5. Append(s, x) = s \o <<x>> /\ <<x>> \in Seq(X)
    BY AppendIsConcat
  <2>6. Spoken(s \o <<x>>) = Spoken(s) \o Spoken(<<x>>)
    BY <2>5, SpokenApart
  <2>7. <<>> \o <<>> = <<>>
    OBVIOUS
  <2> QED BY <2>4, <2>5, <2>6, <2>7
<1>3. Seq(X) \subseteq T
  <2> HIDE DEF T
  <2> QED BY <1>1, <1>2, OneByOne
<1> QED BY <1>3

\* Dropping a space changes nothing that is said.
LEMMA SpokenTidy ==
    ASSUME NEW X, NEW t \in Seq(X)
    PROVE  Rewrite(SpaceRule(t)) \in Seq(X) /\ Spoken(Rewrite(SpaceRule(t))) = Spoken(t)
<1> DEFINE r == SpaceRule(t)
           q == Quiets(t)
           n == Len(t)
<1>1. n \in Nat /\ DOMAIN t = 1..n
  OBVIOUS
<1>2. \A i \in 1..n : (r[i] = Replace(1, <<>>) /\ t[i] = Space) \/ r[i] = Keep(t, i)
  BY <1>1 DEF SpaceRule
<1>3. r = [i \in DOMAIN t |-> r[i]]
  BY DEF SpaceRule
<1> HIDE DEF r
<1>4. Edits(r, n, X)
  <2>1. ASSUME NEW i \in 1..n PROVE Sound(r[i], i, n, X)
    <3>1. Sound(Keep(t, i), i, n, X)
      BY EditKeep
    <3>2. n \in Nat /\ 1 \in 1..(n + 1 - i) /\ <<>> \in Seq(X)
      BY <1>1
    <3>3. Sound(Replace(1, <<>>), i, n, X)
      BY <3>2, EditReplace
    <3> QED BY <1>2, <3>1, <3>3
  <2>2. Len(r) = n /\ DOMAIN r = 1..n
    BY <1>3, RuleShape
  <2> QED BY <2>1, <2>2 DEF Edits
<1>5. Edits(q, n, X) /\ Spoken(t) = Rewrite(q)
  BY QuietsEdits
<1>6. \A i \in 1..n : q[i] = IF t[i] = Space THEN Replace(1, <<>>) ELSE Keep(t, i)
  BY <1>1 DEF Quiets
<1> HIDE DEF q, n
<1>7. PICK f : From1(f, r, n, X)
  BY <1>1, <1>4, RewriteSteps
<1>8. PICK g : From1(g, q, n, X)
  BY <1>1, <1>5, RewriteSteps
<1> DEFINE T == {i \in 1..(n + 1) : Spoken(f[i]) = g[i]}
<1>9. \A i : i \in T <=> i \in 1..(n + 1) /\ Spoken(f[i]) = g[i]
  OBVIOUS
<1> HIDE DEF T
<1>10. n + 1 \in T
  <2>1. n + 1 \in 1..(n + 1) /\ f[n + 1] = <<>> /\ g[n + 1] = <<>>
    BY <1>1, <1>7, <1>8 DEF From1
  <2>2. Spoken(<<>>) = <<>>
    BY SpokenOne
  <2> QED BY <1>9, <2>1, <2>2
<1>11. ASSUME NEW i \in 1..n, \A j \in (i + 1)..(n + 1) : j \in T PROVE i \in T
  <2>1. i + 1 \in (i + 1)..(n + 1) /\ i \in 1..(n + 1) /\ i + 1 \in 1..(n + 1)
    BY <1>1
  <2> DEFINE y == f[i + 1]
             z == g[i + 1]
             x == t[i]
  <2>2. y \in Seq(X) /\ Spoken(y) = z /\ z \in Seq(X) /\ x \in X
    BY <1>1, <1>7, <1>8, <1>9, <1>11, <2>1 DEF From1, n
  <2>3. f[i] = r[i].by \o f[i + r[i].taken] /\ g[i] = q[i].by \o g[i + q[i].taken]
    BY <1>7, <1>8 DEF From1
  <2>4. r[i].taken = 1 /\ q[i].taken = 1
    BY <1>2, <1>6, EditFields
  <2>5. f[i] = r[i].by \o y /\ g[i] = q[i].by \o z
    BY <2>3, <2>4
  <2>6. \/ r[i].by = <<>> /\ x = Space
        \/ r[i].by = <<x>>
    BY <1>2, EditFields
  <2>7. q[i].by = IF x = Space THEN <<>> ELSE <<x>>
    BY <1>6, EditFields
  <2> HIDE DEF x, y, z
  <2>8. <<>> \o y = y /\ <<>> \o z = z
    BY <2>2, ConcatEmptySeq
  <2>9. Spoken(<<x>> \o y) = (IF x = Space THEN <<>> ELSE <<x>>) \o z
    <3>1. <<x>> \in Seq(X)
      BY <2>2
    <3>2. Spoken(<<x>> \o y) = Spoken(<<x>>) \o Spoken(y)
      BY <2>2, <3>1, SpokenApart
    <3> QED BY <2>2, <3>2, SpokenOne
  <2>10. Spoken(f[i]) = g[i]
    <3>1. CASE r[i].by = <<>> /\ x = Space
      BY <2>2, <2>5, <2>7, <2>8, <3>1
    <3>2. CASE r[i].by = <<x>>
      BY <2>5, <2>7, <2>9, <3>2
    <3> QED BY <2>6, <3>1, <3>2
  <2> QED BY <1>9, <2>1, <2>10
<1>12. 1..(n + 1) \subseteq T
  BY <1>1, <1>10, <1>11, CountingDown
<1>13. Spoken(f[1]) = g[1] /\ f[1] \in Seq(X) /\ f[1] = Rewrite(r) /\ g[1] = Rewrite(q)
  <2>1. 1 \in 1..(n + 1)
    BY <1>1
  <2> QED BY <1>7, <1>8, <1>9, <1>12, <2>1 DEF From1
<1> QED BY <1>5, <1>13 DEF r

\* Nor does stripping.
LEMMA SpokenStrip ==
    ASSUME NEW X, NEW t \in Seq(X)
    PROVE  Spoken(Strip(t)) = Spoken(t)
<1> DEFINE S == {i \in 1..Len(t) : t[i] # Space}
           n == Len(t)
<1>1. CASE S = {}
  <2>1. Strip(t) = <<>> /\ \A i \in 1..Len(t) : t[i] = Space
    BY <1>1 DEF Strip
  <2> QED BY <2>1, SpokenSpaces, SpokenOne
<1>2. CASE S # {}
  <2> DEFINE a == CHOOSE i \in S : \A j \in S : i <= j
             b == CHOOSE i \in S : \A j \in S : i >= j
  <2>1. n \in Nat /\ S \in SUBSET (1..n)
    OBVIOUS
  <2>2. /\ \E i \in S : \A j \in S : i <= j
        /\ \E i \in S : \A j \in S : i >= j
    BY <1>2, <2>1, Extremes
  <2>3. a \in S /\ b \in S /\ (\A i \in S : a <= i) /\ (\A i \in S : b >= i)
    BY <2>2
  <2>4. Strip(t) = SubSeq(t, a, b)
    BY <1>2 DEF Strip
  <2> HIDE DEF a, b
  <2>5. /\ a \in 1..n /\ b \in a..n
        /\ \A i \in 1..n : i < a \/ i > b => t[i] = Space
    BY <2>1, <2>3
  <2> HIDE DEF S
  <2> DEFINE p == SubSeq(t, 1, a - 1)
             w == SubSeq(t, a, b)
             e == SubSeq(t, b + 1, n)
  <2>6. /\ p \in Seq(X) /\ Len(p) = a - 1 /\ \A i \in 1..(a - 1) : p[i] = t[i]
    BY <2>1, <2>5, SubSeqProperties
  <2>7. /\ w \in Seq(X) /\ Len(w) = b - a + 1 /\ \A i \in 1..(b - a + 1) : w[i] = t[a + i - 1]
    BY <2>1, <2>5, SubSeqProperties
  <2>8. /\ e \in Seq(X) /\ Len(e) = n - b /\ \A i \in 1..(n - b) : e[i] = t[b + i]
    <3> DEFINE c == b + 1
    <3>1. c \in 1..(n + 1) /\ n - c + 1 = n - b /\ \A i \in 1..(n - b) : c + i - 1 = b + i
      BY <2>1, <2>5
    <3> HIDE DEF c
    <3>2. /\ SubSeq(t, c, n) \in Seq(X) /\ Len(SubSeq(t, c, n)) = n - c + 1
          /\ \A i \in 1..(n - c + 1) : SubSeq(t, c, n)[i] = t[c + i - 1]
      BY <2>1, <3>1, SubSeqProperties
    <3> QED BY <3>1, <3>2 DEF c
  <2>9. Spoken(p) = <<>> /\ Spoken(e) = <<>>
    <3>1. \A i \in 1..Len(p) : p[i] = Space
      BY <2>1, <2>5, <2>6
    <3>2. \A i \in 1..Len(e) : e[i] = Space
      BY <2>1, <2>5, <2>8
    <3> HIDE DEF p, e
    <3> QED BY <2>6, <2>8, <3>1, <3>2, SpokenSpaces
  <2> HIDE DEF p, w, e
  <2>10. t = p \o (w \o e)
    <3> DEFINE v == w \o e
    <3>1. /\ v \in Seq(X) /\ Len(v) = (b - a + 1) + (n - b)
          /\ (\A i \in 1..(b - a + 1) : v[i] = w[i])
          /\ (\A j \in 1..(n - b) : v[(b - a + 1) + j] = e[j])
      <4>1. v \in Seq(X) /\ Joins(v, w, Len(w), e, Len(e))
        BY <2>7, <2>8, Joined
      <4> HIDE DEF v
      <4> QED BY <2>7, <2>8, <4>1 DEF Joins
    <3> HIDE DEF v
    <3>2. /\ p \o v \in Seq(X) /\ Len(p \o v) = (a - 1) + Len(v)
          /\ (\A i \in 1..(a - 1) : (p \o v)[i] = p[i])
          /\ (\A j \in 1..Len(v) : (p \o v)[(a - 1) + j] = v[j])
      <4> DEFINE u == p \o v
      <4>1. u \in Seq(X) /\ Joins(u, p, Len(p), v, Len(v))
        BY <2>6, <3>1, Joined
      <4> HIDE DEF u
      <4>2. /\ u \in Seq(X) /\ Len(u) = (a - 1) + Len(v)
            /\ (\A i \in 1..(a - 1) : u[i] = p[i])
            /\ (\A j \in 1..Len(v) : u[(a - 1) + j] = v[j])
        BY <2>6, <4>1 DEF Joins
      <4> QED BY <4>2 DEF u
    <3>3. Len(v) = n - a + 1 /\ Len(p \o v) = n
      BY <2>1, <2>5, <3>1, <3>2
    <3>4. ASSUME NEW i \in 1..n PROVE (p \o v)[i] = t[i]
      <4>1. CASE i < a
        BY <2>5, <2>6, <3>2, <4>1
      <4>2. CASE i \in a..b
        <5>1. i - a + 1 \in 1..(b - a + 1) /\ i - a + 1 \in 1..Len(v)
              /\ (a - 1) + (i - a + 1) = i /\ a + (i - a + 1) - 1 = i
          BY <2>1, <2>5, <3>3, <4>2
        <5>2. (p \o v)[i] = v[i - a + 1] /\ v[i - a + 1] = w[i - a + 1] /\ w[i - a + 1] = t[i]
          BY <2>7, <3>1, <3>2, <5>1
        <5> QED BY <5>2
      <4>3. CASE i > b
        <5>1. i - b \in 1..(n - b) /\ (b - a + 1) + (i - b) \in 1..Len(v)
              /\ (a - 1) + ((b - a + 1) + (i - b)) = i /\ b + (i - b) = i
          BY <2>1, <2>5, <3>3, <4>3
        <5>2. /\ (p \o v)[i] = v[(b - a + 1) + (i - b)]
              /\ v[(b - a + 1) + (i - b)] = e[i - b] /\ e[i - b] = t[i]
          BY <2>8, <3>1, <3>2, <5>1
        <5> QED BY <5>2
      <4>4. i < a \/ i \in a..b \/ i > b
        BY <2>1, <2>5
      <4> QED BY <4>1, <4>2, <4>3, <4>4
    <3>5. p \o v = t
      <4> DEFINE u == p \o v
      <4>1. u \in Seq(X) /\ Len(u) = Len(t) /\ \A i \in 1..Len(t) : u[i] = t[i]
        BY <3>2, <3>3, <3>4
      <4> HIDE DEF u
      <4> QED BY <4>1, SeqEqual DEF u
    <3> QED BY <3>5 DEF v
  <2>11. Spoken(t) = Spoken(w)
    <3> DEFINE v == w \o e
    <3>1. v \in Seq(X) /\ Spoken(v) = Spoken(w) \o Spoken(e) /\ Spoken(w) \in Seq(X)
      BY <2>7, <2>8, SpokenApart, ConcatProperties
    <3> HIDE DEF v
    <3>2. Spoken(p \o v) = Spoken(p) \o Spoken(v) /\ Spoken(v) \in Seq(X)
      BY <2>6, <3>1, SpokenApart
    <3>3. Spoken(v) = Spoken(w)
      BY <2>9, <3>1, ConcatEmptySeq
    <3>4. Spoken(p \o v) = Spoken(v)
      BY <2>9, <3>2, ConcatEmptySeq
    <3> QED BY <2>10, <3>3, <3>4 DEF v
  <2> QED BY <2>4, <2>11 DEF w
<1> QED BY <1>1, <1>2

------------------------------------------------------------------------------
(* A space after the end of a sentence, or before its beginning, is all that a rule
   sees of what is beyond. *)

\* What can be the last of a sentence to be read out: a terminator, or speech.
Closing(x) == ~IsDigits(x) /\ (IsMark(x) => \E c \in Terminators : x = Mark(c))

\* u stands in t after position d, between spaces or the ends of t.
Window(t, u, d) ==
    /\ t \in Seq(Parts) /\ u \in Seq(Parts) /\ d \in Nat /\ d + Len(u) <= Len(t)
    /\ \A i \in 1..Len(u) : t[d + i] = u[i]
    /\ d = 0 \/ t[d] = Space
    /\ \/ d + Len(u) = Len(t)
       \/ t[d + Len(u) + 1] = Space /\ (u = <<>> \/ Closing(u[Len(u)]))

LEMMA Beyond ==
    ASSUME NEW t, NEW j, j \notin 1..Len(t) \/ t[j] = Space
    PROVE  /\ \A lens : ~DigitsAt(t, j, lens)
           /\ \A ws : ~WordAt(t, j, ws)
           /\ ~SpeechAt(t, j)
           /\ \A c : c # " " => ~MarkAt(t, j, c)
<1>1. IsMark(Space) /\ ~IsDigits(Space) /\ ~IsSpeech(Space) /\ DOMAIN Space = {"mark"}
  BY DEF Space, Mark, IsMark, IsDigits, IsSpeech
<1>2. \A w : Space # Word(w)
  <2>1. \A w : DOMAIN Word(w) = {"word"}
    BY DEF Word
  <2> QED BY <1>1, <2>1
<1>3. \A c : Space = Mark(c) => c = " "
  <2>1. \A c : Mark(c).mark = c
    BY DEF Mark
  <2> SUFFICES ASSUME NEW c, Space = Mark(c) PROVE c = " "
    OBVIOUS
  <2>2. Space.mark = c
    BY <2>1
  <2>3. Space.mark = " "
    BY <2>1 DEF Space
  <2> QED BY <2>2, <2>3
<1> QED BY <1>1, <1>2, <1>3 DEF DigitsAt, WordAt, SpeechAt, MarkAt

LEMMA NotClosing ==
    /\ \A c : Closing(Mark(c)) => c \in Terminators
    /\ ~Closing(Space)
    /\ \A x : IsDigits(x) => ~Closing(x)
    /\ \A w : Closing(Word(w)) /\ Closing(Ordinal(w))
<1>1. \A c : Mark(c).mark = c /\ IsMark(Mark(c))
  BY DEF Mark, IsMark
<1>2. \A c : Closing(Mark(c)) => c \in Terminators
  BY <1>1 DEF Closing
<1>3. " " \notin Terminators
  BY DEF Terminators
<1>4. \A w : /\ ~IsMark(Word(w)) /\ ~IsMark(Ordinal(w))
             /\ ~IsDigits(Word(w)) /\ ~IsDigits(Ordinal(w))
  BY DEF Word, Ordinal, IsMark, IsDigits
<1> QED BY <1>2, <1>3, <1>4 DEF Closing, Space

\* Inside the window, and next to it, the tests are those of u.
LEMMA SameTests ==
    ASSUME NEW t, NEW u, NEW d, Window(t, u, d), NEW i \in 0..(Len(u) + 1)
    PROVE  /\ \A lens : DigitsAt(t, d + i, lens) <=> DigitsAt(u, i, lens)
           /\ \A ws : WordAt(t, d + i, ws) <=> WordAt(u, i, ws)
           /\ SpeechAt(t, d + i) <=> SpeechAt(u, i)
           /\ \A c : c # " " => (MarkAt(t, d + i, c) <=> MarkAt(u, i, c))
<1>1. /\ d \in Nat /\ Len(u) \in Nat /\ Len(t) \in Nat /\ d + Len(u) <= Len(t)
      /\ \A k \in 1..Len(u) : t[d + k] = u[k]
      /\ d = 0 \/ t[d] = Space
      /\ d + Len(u) = Len(t) \/ t[d + Len(u) + 1] = Space
  BY DEF Window
<1>2. CASE i \in 1..Len(u)
  <2>1. t[d + i] = u[i] /\ d + i \in 1..Len(t)
    BY <1>1, <1>2
  <2> QED BY <1>2, <2>1 DEF DigitsAt, WordAt, SpeechAt, MarkAt
<1>3. CASE i \notin 1..Len(u)
  <2>1. d + i \notin 1..Len(t) \/ t[d + i] = Space
    <3>1. i = 0 \/ i = Len(u) + 1
      BY <1>1, <1>3
    <3>2. CASE i = 0
      BY <1>1, <3>2
    <3>3. CASE i = Len(u) + 1
      <4>1. d + i = d + Len(u) + 1
        BY <1>1, <3>3
      <4>2. d + Len(u) = Len(t) => d + i \notin 1..Len(t)
        BY <1>1, <4>1
      <4> QED BY <1>1, <4>1, <4>2
    <3> QED BY <3>1, <3>2, <3>3
  <2>2. /\ \A lens : ~DigitsAt(t, d + i, lens)
        /\ \A ws : ~WordAt(t, d + i, ws)
        /\ ~SpeechAt(t, d + i)
        /\ \A c : c # " " => ~MarkAt(t, d + i, c)
    BY <2>1, Beyond
  <2>3. /\ \A lens : ~DigitsAt(u, i, lens)
        /\ \A ws : ~WordAt(u, i, ws)
        /\ ~SpeechAt(u, i)
        /\ \A c : c # " " => ~MarkAt(u, i, c)
    BY <1>3, Beyond
  <2> QED BY <2>2, <2>3
<1> QED BY <1>2, <1>3

LEMMA SameBoundary ==
    ASSUME NEW t, NEW u, NEW d, Window(t, u, d), NEW i \in 1..(Len(u) + 1)
    PROVE  Boundary(t, d + i) <=> Boundary(u, i)
<1>1. /\ d \in Nat /\ Len(u) \in Nat /\ Len(t) \in Nat /\ d + Len(u) <= Len(t)
      /\ \A k \in 1..Len(u) : t[d + k] = u[k]
      /\ d = 0 \/ t[d] = Space
      /\ d + Len(u) = Len(t) \/ t[d + Len(u) + 1] = Space
  BY DEF Window
<1>2. IsMark(Space)
  BY DEF Space, Mark, IsMark
<1>3. CASE i = 1
  <2>1. Boundary(u, i)
    BY <1>3 DEF Boundary
  <2>2. (d + i) - 1 = d
    BY <1>1, <1>3
  <2>3. Boundary(t, d + i)
    <3>1. CASE d = 0
      BY <1>3, <3>1 DEF Boundary
    <3>2. CASE d # 0
      BY <1>1, <1>2, <2>2, <3>2 DEF Boundary
    <3> QED BY <3>1, <3>2
  <2> QED BY <2>1, <2>3
<1>4. CASE i = Len(u) + 1
  <2>1. Boundary(u, i)
    BY <1>1, <1>4 DEF Boundary
  <2>2. d + i = d + Len(u) + 1
    BY <1>1, <1>4
  <2>3. Boundary(t, d + i)
    <3>1. CASE d + Len(u) = Len(t)
      BY <1>1, <2>2, <3>1 DEF Boundary
    <3>2. CASE d + Len(u) # Len(t)
      BY <1>1, <1>2, <2>2, <3>2 DEF Boundary
    <3> QED BY <3>1, <3>2
  <2> QED BY <2>1, <2>3
<1>5. CASE i \in 2..Len(u)
  <2>1. t[d + i] = u[i] /\ d + i > 1 /\ d + i <= Len(t) /\ i > 1 /\ i <= Len(u)
    BY <1>1, <1>5
  <2>2. t[(d + i) - 1] = u[i - 1]
    <3>1. (d + i) - 1 = d + (i - 1) /\ i - 1 \in 1..Len(u)
      BY <1>1, <1>5
    <3> QED BY <1>1, <3>1
  <2> QED BY <2>1, <2>2 DEF Boundary
<1>6. i = 1 \/ i = Len(u) + 1 \/ i \in 2..Len(u)
  BY <1>1
<1> QED BY <1>3, <1>4, <1>5, <1>6

\* An optional space is the same too, unless it may be the one after the window.
LEMMA SameSpace ==
    ASSUME NEW t, NEW u, NEW d, Window(t, u, d), NEW i \in 1..(Len(u) + 1),
           i = Len(u) + 1 => u # <<>> /\ ~Closing(u[Len(u)])
    PROVE  OptSpace(t, d + i) = d + OptSpace(u, i) /\ OptSpace(u, i) \in i..(i + 1)
           /\ OptSpace(u, i) <= Len(u) + 1
<1>1. /\ d \in Nat /\ Len(u) \in Nat /\ Len(t) \in Nat /\ d + Len(u) <= Len(t)
      /\ \A k \in 1..Len(u) : t[d + k] = u[k]
      /\ d + Len(u) = Len(t) \/ (t[d + Len(u) + 1] = Space /\ (u = <<>> \/ Closing(u[Len(u)])))
  BY DEF Window
<1>2. CASE i \in 1..Len(u)
  <2>1. t[d + i] = u[i] /\ d + i \in 1..Len(t)
    BY <1>1, <1>2
  <2>2. MarkAt(t, d + i, " ") <=> MarkAt(u, i, " ")
    BY <1>2, <2>1 DEF MarkAt
  <2>3. \/ OptSpace(t, d + i) = (d + i) + 1 /\ OptSpace(u, i) = i + 1
        \/ OptSpace(t, d + i) = d + i /\ OptSpace(u, i) = i
    BY <2>2, Zenon DEF OptSpace
  <2>4. i \in 1..Len(u) /\ Len(u) \in Nat /\ d \in Nat
    BY <1>1, <1>2
  <2> DEFINE o == OptSpace(t, d + i)
             p == OptSpace(u, i)
             n == Len(u)
  <2>5. (o = (d + i) + 1 /\ p = i + 1) \/ (o = d + i /\ p = i)
    BY <2>3
  <2>6. i \in 1..n /\ n \in Nat /\ d \in Nat
    BY <2>4
  <2> HIDE DEF o, p, n
  <2>7. o = d + p /\ p \in i..(i + 1) /\ p <= n + 1
    BY ONLY <2>5, <2>6
  <2> QED BY <2>7 DEF o, p, n
<1>3. CASE i = Len(u) + 1
  <2>1. d + i \notin 1..Len(t) /\ i \notin 1..Len(u)
    BY <1>1, <1>3
  <2>2. ~MarkAt(t, d + i, " ") /\ ~MarkAt(u, i, " ")
    BY <2>1 DEF MarkAt
  <2>3. OptSpace(t, d + i) = d + i /\ OptSpace(u, i) = i
    BY <2>2, Zenon DEF OptSpace
  <2> QED BY <1>1, <1>3, <2>3
<1> QED BY <1>1, <1>2, <1>3

LEMMA GroupEndIs ==
    ASSUME NEW t \in Seq(Parts), NEW i \in 1..Len(t), IsDigits(t[i]), NEW j, GroupTo(t, i, j)
    PROVE  GroupEnd(t, i) = j
<1> DEFINE e == GroupEnd(t, i)
<1>1. GroupTo(t, i, e)
  BY GroupEndType
<1> HIDE DEF e
<1>2. /\ i \in Nat /\ Len(t) \in Nat /\ j \in i..Len(t) /\ e \in i..Len(t)
      /\ (\A k \in i..j : InGroup(t[k])) /\ (\A k \in i..e : InGroup(t[k]))
      /\ ~(j < Len(t) /\ InGroup(t[j + 1])) /\ ~(e < Len(t) /\ InGroup(t[e + 1]))
  BY <1>1 DEF GroupTo
<1>3. ~(j < e)
  <2> SUFFICES ASSUME j < e PROVE FALSE
    OBVIOUS
  <2>1. j + 1 \in i..e /\ j < Len(t)
    BY <1>2
  <2> QED BY <1>2, <2>1
<1>4. ~(e < j)
  <2> SUFFICES ASSUME e < j PROVE FALSE
    OBVIOUS
  <2>1. e + 1 \in i..j /\ e < Len(t)
    BY <1>2
  <2> QED BY <1>2, <2>1
<1> QED BY <1>2, <1>3, <1>4 DEF e

LEMMA SpaceNotInGroup == ~InGroup(Space)
<1>1. ~IsDigits(Space) /\ Space # Mark(",")
  <2>1. \A c : Mark(c).mark = c
    BY DEF Mark
  <2>2. Mark(" ").mark = " " /\ Mark(",").mark = ","
    BY <2>1
  <2>3. " " # ","
    OBVIOUS
  <2>4. Space # Mark(",")
    BY <2>2, <2>3 DEF Space
  <2> QED BY <2>4 DEF Space, IsDigits, Mark
<1> QED BY <1>1 DEF InGroup

\* A group of digits ends in the window at the same place, with the same digits.
LEMMA SameGroup ==
    ASSUME NEW t, NEW u, NEW d, Window(t, u, d), NEW i \in 1..Len(u), IsDigits(u[i])
    PROVE  /\ GroupEnd(t, d + i) = d + GroupEnd(u, i)
           /\ GroupEnd(u, i) \in i..Len(u) /\ InGroup(u[GroupEnd(u, i)])
           /\ \A j \in i..Len(u) : GroupDigits(t, d + i, d + j) = GroupDigits(u, i, j)
<1>1. /\ d \in Nat /\ Len(u) \in Nat /\ Len(t) \in Nat /\ d + Len(u) <= Len(t)
      /\ u \in Seq(Parts) /\ t \in Seq(Parts)
      /\ \A k \in 1..Len(u) : t[d + k] = u[k]
      /\ d + Len(u) = Len(t) \/ t[d + Len(u) + 1] = Space
  BY DEF Window
<1> DEFINE e == GroupEnd(u, i)
<1>2. GroupTo(u, i, e)
  BY <1>1, GroupEndType
<1> HIDE DEF e
<1>3. /\ e \in i..Len(u)
      /\ (\A k \in i..e : InGroup(u[k]))
      /\ ~(e < Len(u) /\ InGroup(u[e + 1]))
  BY <1>2 DEF GroupTo
<1>4. GroupTo(t, d + i, d + e)
  <2>1. d + e \in (d + i)..Len(t)
    BY <1>1, <1>3
  <2>2. ASSUME NEW k \in (d + i)..(d + e) PROVE InGroup(t[k])
    <3>1. k - d \in i..e /\ k - d \in 1..Len(u) /\ d + (k - d) = k
      BY <1>1, <1>3
    <3>2. t[k] = u[k - d] /\ InGroup(u[k - d])
      BY <1>1, <1>3, <3>1
    <3> QED BY <3>2
  <2>3. ASSUME d + e < Len(t) PROVE ~InGroup(t[(d + e) + 1])
    <3>1. CASE e < Len(u)
      <4>1. (d + e) + 1 = d + (e + 1) /\ e + 1 \in 1..Len(u)
        BY <1>1, <1>3, <3>1
      <4>2. t[(d + e) + 1] = u[e + 1]
        BY <1>1, <4>1
      <4> QED BY <1>3, <3>1, <4>2
    <3>2. CASE ~(e < Len(u))
      <4>1. e = Len(u) /\ d + Len(u) # Len(t)
        BY <1>1, <1>3, <2>3, <3>2
      <4>2. t[(d + e) + 1] = Space
        BY <1>1, <4>1
      <4> QED BY <4>2, SpaceNotInGroup
    <3> QED BY <3>1, <3>2
  <2> QED BY <2>1, <2>2, <2>3 DEF GroupTo
<1>5. d + i \in 1..Len(t) /\ t[d + i] = u[i]
  BY <1>1
<1>6. GroupEnd(t, d + i) = d + e
  BY <1>1, <1>4, <1>5, GroupEndIs
<1>7. ASSUME NEW j \in i..Len(u) PROVE GroupDigits(t, d + i, d + j) = GroupDigits(u, i, j)
  <2>1. (d + j) - (d + i) + 1 = j - i + 1 /\ j - i + 1 \in Nat
    BY <1>1
  <2>2. ASSUME NEW k \in 1..(j - i + 1)
        PROVE  t[(d + i) + k - 1] = u[i + k - 1]
    <3>1. (d + i) + k - 1 = d + (i + k - 1) /\ i + k - 1 \in 1..Len(u)
      BY <1>1
    <3> QED BY <1>1, <3>1
  <2> DEFINE f == [k \in 1..((d + j) - (d + i) + 1) |->
                     IF IsDigits(t[(d + i) + k - 1]) THEN t[(d + i) + k - 1].digits ELSE <<>>]
             g == [k \in 1..(j - i + 1) |->
                     IF IsDigits(u[i + k - 1]) THEN u[i + k - 1].digits ELSE <<>>]
  <2>3. f = g
    BY <2>1, <2>2
  <2>4. GroupDigits(t, d + i, d + j) = FlattenSeq(f) /\ GroupDigits(u, i, j) = FlattenSeq(g)
    BY DEF GroupDigits
  <2> HIDE DEF f, g
  <2> QED BY <2>3, <2>4
<1>8. InGroup(u[e])
  BY <1>1, <1>3
<1> QED BY <1>3, <1>6, <1>7, <1>8 DEF e

Part(t, i, j) == SubSeq(t, i, j)

LEMMA SamePart ==
    ASSUME NEW t, NEW u, NEW d, Window(t, u, d), NEW i \in 1..Len(u), NEW j \in i..Len(u)
    PROVE  Part(t, d + i, d + j) = Part(u, i, j) /\ Keep(t, d + i) = Keep(u, i)
<1>1. /\ d \in Nat /\ Len(u) \in Nat /\ Len(t) \in Nat /\ d + Len(u) <= Len(t)
      /\ u \in Seq(Parts) /\ t \in Seq(Parts)
      /\ \A k \in 1..Len(u) : t[d + k] = u[k]
  BY DEF Window
<1>2. Keep(t, d + i) = Keep(u, i)
  BY <1>1 DEF Keep
<1> DEFINE a == d + i
           b == d + j
           v == SubSeq(t, a, b)
           w == SubSeq(u, i, j)
<1>3. a \in 1..(Len(t) + 1) /\ b \in (a - 1)..Len(t) /\ b - a + 1 = j - i + 1
  BY <1>1
<1>4. v \in Seq(Parts) /\ Len(v) = b - a + 1 /\ \A k \in 1..(b - a + 1) : v[k] = t[a + k - 1]
  <2> HIDE DEF a, b
  <2> QED BY <1>1, <1>3, SubSeqProperties
<1>5. w \in Seq(Parts) /\ Len(w) = j - i + 1 /\ \A k \in 1..(j - i + 1) : w[k] = u[i + k - 1]
  <2>1. i \in 1..(Len(u) + 1) /\ j \in (i - 1)..Len(u)
    BY <1>1
  <2> QED BY <1>1, <2>1, SubSeqProperties
<1>6. ASSUME NEW k \in 1..(j - i + 1) PROVE v[k] = w[k]
  <2>1. a + k - 1 = d + (i + k - 1) /\ i + k - 1 \in 1..Len(u) /\ k \in 1..(b - a + 1)
    BY <1>1, <1>3
  <2> HIDE DEF a, b
  <2> QED BY <1>1, <1>4, <1>5, <2>1
<1> HIDE DEF v, w
<1>7. v = w
  BY <1>3, <1>4, <1>5, <1>6, SeqEqual
<1>8. Part(t, a, b) = v /\ Part(u, i, j) = w
  BY Zenon DEF Part, v, w
<1> HIDE DEF a, b
<1> QED BY <1>2, <1>7, <1>8 DEF a, b

------------------------------------------------------------------------------
(* Every rule does in a window what it does to the window alone, and keeps the end of
   a sentence one. *)

LastEdit(e, i, u) ==
    i + e.taken = Len(u) + 1 /\ Closing(u[Len(u)]) => e.by # <<>> /\ Closing(Last(e.by))

LEMMA InWindow ==
    ASSUME NEW t, NEW u, NEW d, Window(t, u, d), NEW i \in 1..Len(u)
    PROVE  /\ t \in Seq(Parts) /\ u \in Seq(Parts) /\ d \in Nat /\ i \in Nat
           /\ Len(u) \in Nat /\ Len(t) \in Nat /\ d + Len(u) <= Len(t)
           /\ d + i \in DOMAIN t /\ i \in DOMAIN u /\ d + i \in 1..Len(t)
           /\ t[d + i] = u[i]
           /\ (d + i) + 1 = d + (i + 1) /\ (d + i) - 1 = d + (i - 1)
           /\ i \in 0..(Len(u) + 1) /\ i - 1 \in 0..(Len(u) + 1) /\ i + 1 \in 0..(Len(u) + 1)
           /\ i \in 1..(Len(u) + 1) /\ i + 1 \in 1..(Len(u) + 1)
<1>1. t \in Seq(Parts) /\ u \in Seq(Parts) /\ d \in Nat /\ d + Len(u) <= Len(t) /\ t[d + i] = u[i]
  BY DEF Window
<1>2. Len(u) \in Nat /\ Len(t) \in Nat /\ DOMAIN t = 1..Len(t) /\ DOMAIN u = 1..Len(u)
  BY <1>1
<1> QED BY <1>1, <1>2

LEMMA LastOfOne == \A x : Last(<<x>>) = x /\ <<x>> # <<>>
BY DEF Last

LEMMA KeepLast ==
    ASSUME NEW u, NEW i \in 1..Len(u), Len(u) \in Nat
    PROVE  LastEdit(Keep(u, i), i, u)
<1>1. Keep(u, i).taken = 1 /\ Keep(u, i).by = <<u[i]>>
  BY EditFields
<1>2. i + 1 = Len(u) + 1 => i = Len(u)
  OBVIOUS
<1> QED BY <1>1, <1>2, LastOfOne DEF LastEdit

\* An edit that does not reach the end, and one that ends it in speech.
LEMMA InnerEdit ==
    ASSUME NEW u, NEW i \in 1..Len(u), Len(u) \in Nat, NEW k \in Nat, NEW by,
           i + k # Len(u) + 1 \/ ~Closing(u[Len(u)])
    PROVE  LastEdit(Replace(k, by), i, u)
BY EditFields DEF LastEdit

LEMMA SpeechEdit ==
    ASSUME NEW u, NEW i, NEW k, NEW x, Closing(x)
    PROVE  LastEdit(Replace(k, <<x>>), i, u)
BY EditFields, LastOfOne DEF LastEdit

LEMMA AbbreviationLocal ==
    ASSUME NEW t, NEW u, NEW d, Window(t, u, d), NEW i \in 1..Len(u)
    PROVE  /\ AbbreviationRule(t)[d + i] = AbbreviationRule(u)[i]
           /\ LastEdit(AbbreviationRule(u)[i], i, u)
<1> DEFINE A(x, k) == WordAt(x, k, DOMAIN Abbreviations) /\ Boundary(x, k) /\ MarkAt(x, k + 1, ".")
           V(x, k) == WordAt(x, k, {"vs"}) /\ Boundary(x, k) /\ Boundary(x, k + 1)
           M(x, k) == MarkAt(x, k + 1, ".") /\ k + 2 <= Len(x) /\ ~IsMark(x[k + 2])
           E(x, k) == IF A(x, k) THEN Replace(2, <<Word(Abbreviations[x[k].word])>>)
                      ELSE IF V(x, k) THEN Replace(IF M(x, k) THEN 2 ELSE 1, <<Word("versus")>>)
                      ELSE Keep(x, k)
<1>1. /\ d \in Nat /\ i \in Nat /\ Len(u) \in Nat /\ Len(t) \in Nat /\ d + Len(u) <= Len(t)
      /\ d + i \in DOMAIN t /\ i \in DOMAIN u /\ t[d + i] = u[i]
      /\ (d + i) + 1 = d + (i + 1)
      /\ i \in 0..(Len(u) + 1) /\ i + 1 \in 0..(Len(u) + 1)
      /\ i \in 1..(Len(u) + 1) /\ i + 1 \in 1..(Len(u) + 1)
  BY InWindow
<1>2. AbbreviationRule(t)[d + i] = E(t, d + i) /\ AbbreviationRule(u)[i] = E(u, i)
  BY <1>1, Zenon DEF AbbreviationRule
<1>3. A(t, d + i) <=> A(u, i)
  <2>1. WordAt(t, d + i, DOMAIN Abbreviations) <=> WordAt(u, i, DOMAIN Abbreviations)
    BY <1>1, SameTests
  <2>2. Boundary(t, d + i) <=> Boundary(u, i)
    BY <1>1, SameBoundary
  <2>3. MarkAt(t, d + (i + 1), ".") <=> MarkAt(u, i + 1, ".")
    BY <1>1, SameTests
  <2> QED BY <1>1, <2>1, <2>2, <2>3
<1>4. V(t, d + i) <=> V(u, i)
  <2>1. WordAt(t, d + i, {"vs"}) <=> WordAt(u, i, {"vs"})
    BY <1>1, SameTests
  <2>2. Boundary(t, d + i) <=> Boundary(u, i)
    BY <1>1, SameBoundary
  <2>3. Boundary(t, d + (i + 1)) <=> Boundary(u, i + 1)
    BY <1>1, SameBoundary
  <2> QED BY <1>1, <2>1, <2>2, <2>3
<1>5. M(t, d + i) <=> M(u, i)
  <2>1. MarkAt(t, d + (i + 1), ".") <=> MarkAt(u, i + 1, ".")
    BY <1>1, SameTests
  <2>2. (d + i) + 2 = d + (i + 2)
    BY <1>1
  <2>3. MarkAt(u, i + 1, ".") => i + 1 <= Len(u)
    BY DEF MarkAt
  <2>4. CASE i + 2 <= Len(u)
    <3>1. t[d + (i + 2)] = u[i + 2] /\ d + (i + 2) <= Len(t)
      BY <1>1, <2>4 DEF Window
    <3> QED BY <1>1, <2>1, <2>2, <2>4, <3>1
  <2>5. CASE i + 2 = Len(u) + 1
    <3>1. ~(i + 2 <= Len(u)) /\ (d + (i + 2) <= Len(t) => t[d + (i + 2)] = Space)
      <4>1. d + (i + 2) = d + Len(u) + 1
        BY <1>1, <2>5
      <4> QED BY <1>1, <2>5, <4>1 DEF Window
    <3>2. IsMark(Space)
      BY DEF Space, Mark, IsMark
    <3> QED BY <2>2, <3>1, <3>2
  <2>6. CASE i + 2 > Len(u) + 1
    <3>1. ~(i + 1 <= Len(u))
      BY <1>1, <2>6
    <3> QED BY <1>1, <2>1, <2>3, <3>1
  <2> QED BY <1>1, <2>4, <2>5, <2>6
<1>6. Keep(t, d + i) = Keep(u, i)
  BY <1>1 DEF Keep
<1>7. E(t, d + i) = E(u, i)
  <2> HIDE DEF A, V, M
  <2> QED BY <1>1, <1>3, <1>4, <1>5, <1>6, Zenon
<1>8. LastEdit(E(u, i), i, u)
  <2>1. /\ \A k, w : LastEdit(Replace(k, <<Word(w)>>), i, u)
        /\ LastEdit(Keep(u, i), i, u)
    BY <1>1, NotClosing, SpeechEdit, KeepLast
  <2> HIDE DEF A, V, M
  <2> QED BY <2>1, Zenon
<1> HIDE DEF E
<1> QED BY <1>2, <1>7, <1>8

LEMMA OrdinalLocal ==
    ASSUME NEW t, NEW u, NEW d, Window(t, u, d), NEW i \in 1..Len(u)
    PROVE  /\ OrdinalRule(t)[d + i] = OrdinalRule(u)[i]
           /\ LastEdit(OrdinalRule(u)[i], i, u)
<1> DEFINE S == {"st", "nd", "rd", "th"}
           A(x, k) == /\ DigitsAt(x, k, AnyLength) /\ Boundary(x, k)
                      /\ WordAt(x, k + 1, S) /\ Boundary(x, k + 2)
           E(x, k) == IF A(x, k) THEN Replace(2, <<Ordinal(Value(x[k].digits))>>) ELSE Keep(x, k)
<1>1. /\ d \in Nat /\ i \in Nat /\ Len(u) \in Nat
      /\ d + i \in DOMAIN t /\ i \in DOMAIN u /\ t[d + i] = u[i]
      /\ (d + i) + 1 = d + (i + 1)
      /\ i \in 0..(Len(u) + 1) /\ i + 1 \in 0..(Len(u) + 1)
      /\ i \in 1..(Len(u) + 1)
  BY InWindow
<1>2. OrdinalRule(t)[d + i] = E(t, d + i) /\ OrdinalRule(u)[i] = E(u, i)
  BY <1>1, Zenon DEF OrdinalRule
<1>3. A(t, d + i) <=> A(u, i)
  <2>1. DigitsAt(t, d + i, AnyLength) <=> DigitsAt(u, i, AnyLength)
    BY <1>1, SameTests
  <2>2. Boundary(t, d + i) <=> Boundary(u, i)
    BY <1>1, SameBoundary
  <2>3. WordAt(t, d + (i + 1), S) <=> WordAt(u, i + 1, S)
    <3> HIDE DEF S
    <3> QED BY <1>1, SameTests
  <2>4. CASE WordAt(u, i + 1, S)
    <3>1. i + 1 \in 1..Len(u)
      BY <2>4 DEF WordAt
    <3>2. i + 2 \in 1..(Len(u) + 1) /\ (d + i) + 2 = d + (i + 2)
      BY <1>1, <3>1
    <3>3. Boundary(t, d + (i + 2)) <=> Boundary(u, i + 2)
      BY <3>2, SameBoundary
    <3> QED BY <1>1, <2>1, <2>2, <2>3, <3>2, <3>3
  <2> QED BY <1>1, <2>3, <2>4
<1>4. Keep(t, d + i) = Keep(u, i)
  BY <1>1 DEF Keep
<1>5. E(t, d + i) = E(u, i)
  <2> HIDE DEF A
  <2> QED BY <1>1, <1>3, <1>4, Zenon
<1>6. LastEdit(E(u, i), i, u)
  <2>1. /\ \A k, w : LastEdit(Replace(k, <<Ordinal(w)>>), i, u)
        /\ LastEdit(Keep(u, i), i, u)
    BY <1>1, NotClosing, SpeechEdit, KeepLast
  <2> HIDE DEF A
  <2> QED BY <2>1, Zenon
<1> HIDE DEF E
<1> QED BY <1>2, <1>5, <1>6

LEMMA SplitLocal ==
    ASSUME NEW t, NEW u, NEW d, Window(t, u, d), NEW i \in 1..Len(u)
    PROVE  /\ SplitRule(t)[d + i] = SplitRule(u)[i]
           /\ LastEdit(SplitRule(u)[i], i, u)
<1> DEFINE A(x, k) == k < Len(x) /\ \/ IsDigits(x[k]) /\ IsSpeech(x[k + 1])
                                    \/ IsSpeech(x[k]) /\ IsDigits(x[k + 1])
           E(x, k) == IF A(x, k) THEN Replace(1, <<x[k], Space>>) ELSE Keep(x, k)
<1>1. /\ d \in Nat /\ i \in Nat /\ Len(u) \in Nat /\ Len(t) \in Nat /\ d + Len(u) <= Len(t)
      /\ d + i \in DOMAIN t /\ i \in DOMAIN u /\ t[d + i] = u[i]
      /\ (d + i) + 1 = d + (i + 1)
  BY InWindow
<1>2. SplitRule(t)[d + i] = E(t, d + i) /\ SplitRule(u)[i] = E(u, i)
  BY <1>1, Zenon DEF SplitRule
<1>3. A(t, d + i) <=> A(u, i)
  <2>1. CASE i < Len(u)
    <3>1. i + 1 \in 1..Len(u) /\ d + i < Len(t)
      BY <1>1, <2>1
    <3>2. t[(d + i) + 1] = u[i + 1]
      BY <1>1, <3>1 DEF Window
    <3> QED BY <1>1, <2>1, <3>1, <3>2
  <2>2. CASE ~(i < Len(u))
    <3>1. i = Len(u) /\ (d + i) + 1 = d + Len(u) + 1
      BY <1>1, <2>2
    <3>2. d + i < Len(t) => t[(d + i) + 1] = Space
      BY <1>1, <3>1 DEF Window
    <3>3. ~IsDigits(Space) /\ ~IsSpeech(Space)
      BY DEF Space, Mark, IsMark, IsDigits, IsSpeech
    <3> QED BY <2>2, <3>2, <3>3
  <2> QED BY <2>1, <2>2
<1>4. Keep(t, d + i) = Keep(u, i)
  BY <1>1 DEF Keep
<1>5. E(t, d + i) = E(u, i)
  <2> HIDE DEF A
  <2> QED BY <1>1, <1>3, <1>4, Zenon
<1>6. LastEdit(E(u, i), i, u)
  <2>1. CASE A(u, i)
    <3>1. i + 1 # Len(u) + 1
      BY <1>1, <2>1
    <3> HIDE DEF A
    <3> QED BY <1>1, <2>1, <3>1, InnerEdit
  <2>2. CASE ~A(u, i)
    <3> HIDE DEF A
    <3> QED BY <1>1, <2>2, KeepLast
  <2> QED BY <2>1, <2>2
<1> HIDE DEF E
<1> QED BY <1>2, <1>5, <1>6

LEMMA CompoundLocal ==
    ASSUME NEW t, NEW u, NEW d, Window(t, u, d), NEW i \in 1..Len(u)
    PROVE  /\ CompoundRule(t)[d + i] = CompoundRule(u)[i]
           /\ LastEdit(CompoundRule(u)[i], i, u)
<1> DEFINE A(x, k) == MarkAt(x, k, "-") /\ SpeechAt(x, k - 1) /\ SpeechAt(x, k + 1)
           E(x, k) == IF A(x, k) THEN Replace(1, <<Space>>) ELSE Keep(x, k)
<1>1. /\ i \in Nat /\ Len(u) \in Nat /\ d + i \in DOMAIN t /\ i \in DOMAIN u /\ t[d + i] = u[i]
      /\ (d + i) + 1 = d + (i + 1) /\ (d + i) - 1 = d + (i - 1)
      /\ i \in 0..(Len(u) + 1) /\ i - 1 \in 0..(Len(u) + 1) /\ i + 1 \in 0..(Len(u) + 1)
  BY InWindow
<1>2. CompoundRule(t)[d + i] = E(t, d + i) /\ CompoundRule(u)[i] = E(u, i)
  BY <1>1, Zenon DEF CompoundRule
<1>3. A(t, d + i) <=> A(u, i)
  <2>1. "-" # " "
    OBVIOUS
  <2>2. MarkAt(t, d + i, "-") <=> MarkAt(u, i, "-")
    BY <1>1, <2>1, SameTests
  <2>3. SpeechAt(t, d + (i - 1)) <=> SpeechAt(u, i - 1)
    BY <1>1, SameTests
  <2>4. SpeechAt(t, d + (i + 1)) <=> SpeechAt(u, i + 1)
    BY <1>1, SameTests
  <2> QED BY <1>1, <2>2, <2>3, <2>4
<1>4. Keep(t, d + i) = Keep(u, i)
  BY <1>1 DEF Keep
<1>5. E(t, d + i) = E(u, i)
  <2> HIDE DEF A
  <2> QED BY <1>3, <1>4, Zenon
<1>6. LastEdit(E(u, i), i, u)
  <2>1. CASE A(u, i)
    <3>1. i + 1 # Len(u) + 1
      BY <1>1, <2>1 DEF SpeechAt
    <3>2. E(u, i) = Replace(1, <<Space>>)
      BY <2>1
    <3> HIDE DEF A, E
    <3> QED BY <1>1, <3>1, <3>2, InnerEdit
  <2>2. CASE ~A(u, i)
    <3> HIDE DEF A
    <3> QED BY <1>1, <2>2, KeepLast
  <2> QED BY <2>1, <2>2
<1> HIDE DEF E
<1> QED BY <1>2, <1>5, <1>6

LEMMA DateLocal ==
    ASSUME NEW t, NEW u, NEW d, Window(t, u, d), NEW i \in 1..Len(u)
    PROVE  /\ DateRule(t)[d + i] = DateRule(u)[i]
           /\ LastEdit(DateRule(u)[i], i, u)
<1> DEFINE D(x, k) == /\ DigitsAt(x, k, {1, 2}) /\ Boundary(x, k)
                      /\ MarkAt(x, k + 1, "/") /\ DigitsAt(x, k + 2, {1, 2})
           Y(x, k) == MarkAt(x, k + 3, "/") /\ DigitsAt(x, k + 4, 2..4) /\ Boundary(x, k + 5)
           n(x, k) == IF Y(x, k) THEN 5 ELSE 3
           A(x, k) == D(x, k) /\ (Y(x, k) \/ Boundary(x, k + 3))
           B(x, k) == Value(x[k].digits) \in 1..12 /\ Value(x[k + 2].digits) \in 1..31
           S(x, k) == Part(x, k, k + n(x, k) - 1)
           W(x, k) == Spaced(<<Word("month"), Ordinal(Value(x[k + 2].digits))>>
                        \o IF ~Y(x, k) THEN <<>>
                           ELSE Year(IF Len(x[k + 4].digits) = 4 THEN Value(x[k + 4].digits)
                                     ELSE 2000 + Value(x[k + 4].digits)))
           E(x, k) == IF ~A(x, k) THEN Keep(x, k)
                      ELSE IF ~B(x, k) THEN Replace(n(x, k), S(x, k))
                      ELSE Replace(n(x, k), W(x, k))
<1>1. /\ d \in Nat /\ i \in Nat /\ Len(u) \in Nat /\ i <= Len(u)
      /\ d + i \in DOMAIN t /\ i \in DOMAIN u /\ t[d + i] = u[i]
      /\ (d + i) + 1 = d + (i + 1)
      /\ i \in 0..(Len(u) + 1) /\ i + 1 \in 0..(Len(u) + 1)
      /\ i \in 1..(Len(u) + 1)
  BY InWindow
<1>2. DateRule(t)[d + i] = E(t, d + i) /\ DateRule(u)[i] = E(u, i)
  BY <1>1, Zenon DEF DateRule, Part
<1>3. /\ (d + i) + 2 = d + (i + 2) /\ (d + i) + 3 = d + (i + 3)
      /\ (d + i) + 4 = d + (i + 4) /\ (d + i) + 5 = d + (i + 5)
  BY <1>1
<1>4. D(t, d + i) <=> D(u, i)
  <2>0. "/" # " "
    OBVIOUS
  <2>1. \A lens : DigitsAt(t, d + i, lens) <=> DigitsAt(u, i, lens)
    BY <1>1, SameTests
  <2>2. Boundary(t, d + i) <=> Boundary(u, i)
    BY <1>1, SameBoundary
  <2>3. MarkAt(t, d + (i + 1), "/") <=> MarkAt(u, i + 1, "/")
    BY <1>1, <2>0, SameTests
  <2>4. CASE MarkAt(u, i + 1, "/")
    <3>1. i + 2 \in 0..(Len(u) + 1)
      BY <1>1, <2>4 DEF MarkAt
    <3>2. \A lens : DigitsAt(t, d + (i + 2), lens) <=> DigitsAt(u, i + 2, lens)
      <4> DEFINE k == i + 2
      <4>1. k \in 0..(Len(u) + 1)
        BY <3>1
      <4> HIDE DEF k
      <4>2. \A lens : DigitsAt(t, d + k, lens) <=> DigitsAt(u, k, lens)
        BY <4>1, SameTests
      <4> QED BY <4>2 DEF k
    <3> QED BY <1>1, <1>3, <2>1, <2>2, <2>3, <3>2
  <2>5. CASE ~MarkAt(u, i + 1, "/")
    BY <1>1, <2>3, <2>5
  <2> QED BY <2>4, <2>5
<1>5. ASSUME D(u, i)
      PROVE  /\ Y(t, d + i) <=> Y(u, i)
             /\ Boundary(t, (d + i) + 3) <=> Boundary(u, i + 3)
             /\ i + n(u, i) - 1 \in i..Len(u) /\ IsDigits(u[i + n(u, i) - 1])
             /\ t[(d + i) + 2] = u[i + 2] /\ (Y(u, i) => t[(d + i) + 4] = u[i + 4])
  <2>0. "/" # " "
    OBVIOUS
  <2>1. i + 2 \in 1..Len(u) /\ IsDigits(u[i + 2])
    BY <1>5 DEF DigitsAt
  <2>2. i + 3 \in 0..(Len(u) + 1) /\ i + 3 \in 1..(Len(u) + 1)
    BY <1>1, <2>1
  <2>3. Boundary(t, (d + i) + 3) <=> Boundary(u, i + 3)
    BY <1>3, <2>2, SameBoundary
  <2>4. MarkAt(t, d + (i + 3), "/") <=> MarkAt(u, i + 3, "/")
    <3> DEFINE k == i + 3
    <3>1. k \in 0..(Len(u) + 1)
      BY <2>2
    <3> HIDE DEF k
    <3>2. MarkAt(t, d + k, "/") <=> MarkAt(u, k, "/")
      BY <2>0, <3>1, SameTests
    <3> QED BY <3>2 DEF k
  <2>5. Y(t, d + i) <=> Y(u, i)
    <3>1. CASE MarkAt(u, i + 3, "/")
      <4>0. i + 3 \in 1..Len(u)
        BY <3>1 DEF MarkAt
      <4>1. i + 4 \in 0..(Len(u) + 1)
        BY <1>1, <4>0
      <4>2. \A lens : DigitsAt(t, d + (i + 4), lens) <=> DigitsAt(u, i + 4, lens)
        <5> DEFINE k == i + 4
        <5>1. k \in 0..(Len(u) + 1)
          BY <4>1
        <5> HIDE DEF k
        <5>2. \A lens : DigitsAt(t, d + k, lens) <=> DigitsAt(u, k, lens)
          BY <5>1, SameTests
        <5> QED BY <5>2 DEF k
      <4>3. DigitsAt(u, i + 4, 2..4) => (Boundary(t, d + (i + 5)) <=> Boundary(u, i + 5))
        <5>1. DigitsAt(u, i + 4, 2..4) => i + 5 \in 1..(Len(u) + 1)
          BY <1>1 DEF DigitsAt
        <5> QED BY <5>1, SameBoundary
      <4> QED BY <1>3, <2>4, <4>2, <4>3
    <3>2. CASE ~MarkAt(u, i + 3, "/")
      BY <1>3, <2>4, <3>2
    <3> QED BY <3>1, <3>2
  <2>6. Y(u, i) => i + 4 \in 1..Len(u) /\ IsDigits(u[i + 4])
    BY DEF DigitsAt
  <2>7. i + n(u, i) - 1 \in i..Len(u) /\ IsDigits(u[i + n(u, i) - 1])
    <3>1. CASE Y(u, i)
      <4>1. i + n(u, i) - 1 = i + 4
        BY <1>1, <3>1
      <4> HIDE DEF Y, n
      <4> QED BY <1>1, <2>6, <3>1, <4>1
    <3>2. CASE ~Y(u, i)
      <4>1. i + n(u, i) - 1 = i + 2
        BY <1>1, <3>2
      <4> HIDE DEF Y, n
      <4> QED BY <1>1, <2>1, <4>1
    <3> QED BY <3>1, <3>2
  <2>8. t[(d + i) + 2] = u[i + 2] /\ (Y(u, i) => t[(d + i) + 4] = u[i + 4])
    <3> HIDE DEF Y
    <3> QED BY <1>3, <2>1, <2>6 DEF Window
  <2> QED BY <2>3, <2>5, <2>7, <2>8
<1>6. Keep(t, d + i) = Keep(u, i)
  BY <1>1 DEF Keep
<1>7. CASE D(u, i)
  <2>1. n(t, d + i) = n(u, i) /\ (A(t, d + i) <=> A(u, i))
    <3> HIDE DEF D, Y
    <3> QED BY <1>4, <1>5, <1>7, Zenon
  <2>2. B(t, d + i) <=> B(u, i)
    BY <1>1, <1>5, <1>7, Zenon
  <2>3. S(t, d + i) = S(u, i)
    <3> DEFINE k == n(u, i)
    <3>1. i + k - 1 \in i..Len(u) /\ (d + i) + k - 1 = d + (i + k - 1)
      <4>1. k \in Nat
        BY DEF n
      <4> HIDE DEF k, n
      <4>2. i + k - 1 \in i..Len(u)
        BY <1>5, <1>7 DEF k
      <4> QED BY <1>1, <4>1, <4>2
    <3> HIDE DEF n
    <3> DEFINE j == i + k - 1
    <3>2. j \in i..Len(u)
      BY <3>1
    <3> HIDE DEF j
    <3>3. Part(t, d + i, d + j) = Part(u, i, j)
      BY <3>2, SamePart
    <3>4. (d + i) + k - 1 = d + j
      BY <3>1 DEF j
    <3>5. S(t, d + i) = Part(t, d + i, (d + i) + k - 1) /\ S(u, i) = Part(u, i, j)
      BY <2>1 DEF j
    <3> HIDE DEF S
    <3> QED BY <3>3, <3>4, <3>5
  <2>4. W(t, d + i) = W(u, i)
    <3>1. CASE Y(u, i)
      <4>1. Y(t, d + i) /\ t[(d + i) + 2] = u[i + 2] /\ t[(d + i) + 4] = u[i + 4]
        <5> HIDE DEF Y, D
        <5> QED BY <1>5, <1>7, <3>1
      <4> HIDE DEF Y
      <4>2. (IF ~Y(t, d + i) THEN <<>> ELSE Year(IF Len(t[(d + i) + 4].digits) = 4 THEN Value(t[(d + i) + 4].digits) ELSE 2000 + Value(t[(d + i) + 4].digits)))
            = (IF ~Y(u, i) THEN <<>> ELSE Year(IF Len(u[i + 4].digits) = 4 THEN Value(u[i + 4].digits) ELSE 2000 + Value(u[i + 4].digits)))
        BY <3>1, <4>1
      <4> QED BY <4>1, <4>2
    <3>2. CASE ~Y(u, i)
      <4>1. ~Y(t, d + i) /\ t[(d + i) + 2] = u[i + 2]
        <5> HIDE DEF Y, D
        <5> QED BY <1>5, <1>7, <3>2
      <4> HIDE DEF Y
      <4> QED BY <3>2, <4>1, Zenon
    <3> QED BY <3>1, <3>2
  <2>5. E(t, d + i) = E(u, i)
    <3> HIDE DEF A, B, S, W, n
    <3> QED BY <1>6, <2>1, <2>2, <2>3, <2>4, Zenon
  <2>6. LastEdit(E(u, i), i, u)
    <3> DEFINE k == n(u, i)
    <3>1. k \in Nat /\ IsDigits(u[i + k - 1])
      <4> HIDE DEF D, Y
      <4> QED BY <1>5, <1>7
    <3> HIDE DEF n, k, D, Y
    <3>2. i + k # Len(u) + 1 \/ ~Closing(u[Len(u)])
      <4>0. i \in Nat /\ k \in Nat /\ Len(u) \in Nat
        BY <1>1, <3>1
      <4>1. i + k = Len(u) + 1 => i + k - 1 = Len(u)
        BY ONLY <4>0
      <4> QED BY <3>1, <4>1, NotClosing
    <3>3. \A by : LastEdit(Replace(k, by), i, u)
      BY <1>1, <3>1, <3>2, InnerEdit
    <3>4. LastEdit(Keep(u, i), i, u)
      BY <1>1, KeepLast
    <3> HIDE DEF A, B, S, W
    <3> QED BY <3>3, <3>4, Zenon DEF k
  <2> HIDE DEF E
  <2> QED BY <1>2, <2>5, <2>6
<1>8. CASE ~D(u, i)
  <2>1. E(t, d + i) = Keep(t, d + i) /\ E(u, i) = Keep(u, i)
    <3> HIDE DEF D
    <3> QED BY <1>4, <1>8
  <2> HIDE DEF E
  <2> QED BY <1>1, <1>2, <1>6, <2>1, KeepLast
<1> QED BY <1>7, <1>8

LEMMA TimeLocal ==
    ASSUME NEW t, NEW u, NEW d, Window(t, u, d), NEW i \in 1..Len(u)
    PROVE  /\ TimeRule(t)[d + i] = TimeRule(u)[i]
           /\ LastEdit(TimeRule(u)[i], i, u)
<1> DEFINE A(x, k) == /\ DigitsAt(x, k, {1, 2}) /\ Boundary(x, k) /\ MarkAt(x, k + 1, ":")
                      /\ DigitsAt(x, k + 2, {2}) /\ Boundary(x, k + 3)
           H(x, k) == Value(x[k].digits)
           M(x, k) == Value(x[k + 2].digits)
           W(h, m) == Spaced(<<Cardinal(h)>> \o
                        IF m = 0 THEN <<Word("o'clock")>>
                        ELSE IF m < 10 THEN <<Word("oh"), Cardinal(m)>>
                        ELSE <<Cardinal(m)>>)
           E(x, k) == IF ~A(x, k) THEN Keep(x, k)
                      ELSE IF ~(H(x, k) \in 0..23 /\ M(x, k) \in 0..59)
                             THEN Replace(3, Part(x, k, k + 2))
                      ELSE Replace(3, W(H(x, k), M(x, k)))
<1>1. /\ d \in Nat /\ i \in Nat /\ Len(u) \in Nat /\ i <= Len(u)
      /\ d + i \in DOMAIN t /\ i \in DOMAIN u /\ t[d + i] = u[i]
      /\ (d + i) + 1 = d + (i + 1)
      /\ i \in 0..(Len(u) + 1) /\ i + 1 \in 0..(Len(u) + 1)
      /\ i \in 1..(Len(u) + 1)
  BY InWindow
<1>2. TimeRule(t)[d + i] = E(t, d + i) /\ TimeRule(u)[i] = E(u, i)
  BY <1>1, Zenon DEF TimeRule, Part
<1>3. (d + i) + 2 = d + (i + 2) /\ (d + i) + 3 = d + (i + 3)
  BY <1>1
<1>4. A(t, d + i) <=> A(u, i)
  <2>0. ":" # " "
    OBVIOUS
  <2>1. \A lens : DigitsAt(t, d + i, lens) <=> DigitsAt(u, i, lens)
    BY <1>1, SameTests
  <2>2. Boundary(t, d + i) <=> Boundary(u, i)
    BY <1>1, SameBoundary
  <2>3. MarkAt(t, d + (i + 1), ":") <=> MarkAt(u, i + 1, ":")
    BY <1>1, <2>0, SameTests
  <2>4. CASE MarkAt(u, i + 1, ":")
    <3>1. i + 2 \in 0..(Len(u) + 1)
      BY <1>1, <2>4 DEF MarkAt
    <3>2. \A lens : DigitsAt(t, d + (i + 2), lens) <=> DigitsAt(u, i + 2, lens)
      <4> DEFINE k == i + 2
      <4>1. k \in 0..(Len(u) + 1)
        BY <3>1
      <4> HIDE DEF k
      <4>2. \A lens : DigitsAt(t, d + k, lens) <=> DigitsAt(u, k, lens)
        BY <4>1, SameTests
      <4> QED BY <4>2 DEF k
    <3>3. DigitsAt(u, i + 2, {2}) => (Boundary(t, d + (i + 3)) <=> Boundary(u, i + 3))
      <4>1. DigitsAt(u, i + 2, {2}) => i + 3 \in 1..(Len(u) + 1)
        BY <1>1 DEF DigitsAt
      <4> QED BY <4>1, SameBoundary
    <3> QED BY <1>1, <1>3, <2>1, <2>2, <2>3, <3>2, <3>3
  <2>5. CASE ~MarkAt(u, i + 1, ":")
    BY <1>1, <2>3, <2>5
  <2> QED BY <2>4, <2>5
<1>5. Keep(t, d + i) = Keep(u, i)
  BY <1>1 DEF Keep
<1>6. CASE A(u, i)
  <2>1. i + 2 \in i..Len(u) /\ i + 2 \in 1..Len(u) /\ IsDigits(u[i + 2])
    BY <1>1, <1>6 DEF DigitsAt
  <2>2. t[(d + i) + 2] = u[i + 2] /\ Part(t, d + i, (d + i) + 2) = Part(u, i, i + 2)
    <3>1. t[(d + i) + 2] = u[i + 2]
      BY <1>3, <2>1 DEF Window
    <3> DEFINE j == i + 2
    <3>2. j \in i..Len(u)
      BY <2>1
    <3> HIDE DEF j
    <3>3. Part(t, d + i, d + j) = Part(u, i, j)
      BY <3>2, SamePart
    <3>4. (d + i) + 2 = d + j
      BY <1>3 DEF j
    <3> QED BY <3>1, <3>3, <3>4 DEF j
  <2>3. E(t, d + i) = E(u, i)
    <3> HIDE DEF A, W
    <3> QED BY <1>1, <1>4, <1>5, <2>2, Zenon
  <2>4. LastEdit(E(u, i), i, u)
    <3>1. i + 3 # Len(u) + 1 \/ ~Closing(u[Len(u)])
      <4>1. i + 3 = Len(u) + 1 => i + 2 = Len(u)
        BY <1>1
      <4> QED BY <2>1, <4>1, NotClosing
    <3>2. \A by : LastEdit(Replace(3, by), i, u)
      BY <1>1, <3>1, InnerEdit
    <3> HIDE DEF A, W, H, M
    <3> QED BY <1>6, <3>2, Zenon
  <2> HIDE DEF E
  <2> QED BY <1>2, <2>3, <2>4
<1>7. CASE ~A(u, i)
  <2>1. E(t, d + i) = Keep(t, d + i) /\ E(u, i) = Keep(u, i)
    <3> HIDE DEF A
    <3> QED BY <1>4, <1>7
  <2> HIDE DEF E
  <2> QED BY <1>1, <1>2, <1>5, <2>1, KeepLast
<1> QED BY <1>6, <1>7

LEMMA GroupNotClosing ==
    /\ \A x : InGroup(x) => ~Closing(x)
    /\ \A c : c \notin Terminators => ~Closing(Mark(c))
<1>1. \A x : IsDigits(x) => ~Closing(x)
  BY NotClosing
<1>2. \A c : c \notin Terminators => ~Closing(Mark(c))
  BY NotClosing
<1>3. "," \notin Terminators
  BY DEF Terminators
<1> QED BY <1>1, <1>2, <1>3 DEF InGroup

\* What follows a number: a point and more digits.
Fraction(t, j) == MarkAt(t, j + 1, ".") /\ DigitsAt(t, j + 2, AnyLength)

LEMMA SameFraction ==
    ASSUME NEW t, NEW u, NEW d, Window(t, u, d), NEW j \in 0..Len(u)
    PROVE  /\ Fraction(t, d + j) <=> Fraction(u, j)
           /\ Fraction(u, j) => /\ j + 2 \in 1..Len(u) /\ IsDigits(u[j + 2])
                                /\ t[(d + j) + 2] = u[j + 2]
<1>1. d \in Nat /\ Len(u) \in Nat /\ j \in Nat /\ \A k \in 1..Len(u) : t[d + k] = u[k]
  BY DEF Window
<1>2. /\ (d + j) + 1 = d + (j + 1) /\ (d + j) + 2 = d + (j + 2)
      /\ j + 1 \in 0..(Len(u) + 1)
  BY <1>1
<1>3. MarkAt(t, d + (j + 1), ".") <=> MarkAt(u, j + 1, ".")
  <2> DEFINE k == j + 1
  <2>1. k \in 0..(Len(u) + 1) /\ "." # " "
    BY <1>2
  <2> HIDE DEF k
  <2>2. MarkAt(t, d + k, ".") <=> MarkAt(u, k, ".")
    BY <2>1, SameTests
  <2> QED BY <2>2 DEF k
<1>4. CASE MarkAt(u, j + 1, ".")
  <2> DEFINE k == j + 2
  <2>1. k \in 0..(Len(u) + 1)
    BY <1>1, <1>4 DEF MarkAt
  <2> HIDE DEF k
  <2>2. DigitsAt(t, d + k, AnyLength) <=> DigitsAt(u, k, AnyLength)
    BY <2>1, SameTests
  <2>3. DigitsAt(u, k, AnyLength) => k \in 1..Len(u) /\ IsDigits(u[k]) /\ t[d + k] = u[k]
    BY <1>1 DEF DigitsAt
  <2> QED BY <1>2, <1>3, <1>4, <2>2, <2>3 DEF k, Fraction
<1>5. CASE ~MarkAt(u, j + 1, ".")
  BY <1>2, <1>3, <1>5 DEF Fraction
<1> QED BY <1>4, <1>5

LEMMA NumberLocal ==
    ASSUME NEW t, NEW u, NEW d, Window(t, u, d), NEW i \in 1..Len(u)
    PROVE  /\ NumberRule(t)[d + i] = NumberRule(u)[i]
           /\ LastEdit(NumberRule(u)[i], i, u)
<1> DEFINE P(ds, frac) == Spaced(<<Cardinal(Value(ds)), Word("point")>> \o EachDigit(frac))
           N(x, k, j, ds) == IF Fraction(x, j) THEN Replace(j + 3 - k, P(ds, x[j + 2].digits))
                             ELSE Replace(j + 1 - k, Spaced(Integer(ds)))
           E(x, k) == IF ~DigitsAt(x, k, AnyLength) THEN Keep(x, k)
                      ELSE N(x, k, GroupEnd(x, k), GroupDigits(x, k, GroupEnd(x, k)))
<1>1. /\ d \in Nat /\ i \in Nat /\ Len(u) \in Nat
      /\ d + i \in DOMAIN t /\ i \in DOMAIN u /\ t[d + i] = u[i]
      /\ i \in 0..(Len(u) + 1)
  BY InWindow
<1>2. NumberRule(t)[d + i] = E(t, d + i) /\ NumberRule(u)[i] = E(u, i)
  BY <1>1, Zenon DEF NumberRule, Fraction
<1>3. DigitsAt(t, d + i, AnyLength) <=> DigitsAt(u, i, AnyLength)
  BY <1>1, SameTests
<1>4. Keep(t, d + i) = Keep(u, i)
  BY <1>1 DEF Keep
<1>5. CASE ~DigitsAt(u, i, AnyLength)
  <2>1. E(t, d + i) = Keep(t, d + i) /\ E(u, i) = Keep(u, i)
    <3> HIDE DEF N
    <3> QED BY <1>3, <1>5
  <2> HIDE DEF E
  <2> QED BY <1>1, <1>2, <1>4, <2>1, KeepLast
<1>6. CASE DigitsAt(u, i, AnyLength)
  <2> DEFINE e == GroupEnd(u, i)
             ds == GroupDigits(u, i, e)
  <2>1. IsDigits(u[i])
    BY <1>6 DEF DigitsAt
  <2>2. GroupEnd(t, d + i) = d + e /\ e \in i..Len(u) /\ InGroup(u[e])
    BY <2>1, SameGroup
  <2>3. GroupDigits(t, d + i, d + e) = ds
    <3> HIDE DEF e
    <3> QED BY <2>1, <2>2, SameGroup
  <2>4. E(t, d + i) = N(t, d + i, d + e, ds) /\ E(u, i) = N(u, i, e, ds)
    <3> HIDE DEF N
    <3> QED BY <1>3, <1>6, <2>2, <2>3, Zenon
  <2> HIDE DEF e, ds
  <2>5. e \in Nat /\ e \in 0..Len(u)
    BY <1>1, <2>2
  <2>6. /\ Fraction(t, d + e) <=> Fraction(u, e)
        /\ Fraction(u, e) => /\ e + 2 \in 1..Len(u) /\ IsDigits(u[e + 2])
                             /\ t[(d + e) + 2] = u[e + 2]
    BY <2>5, SameFraction
  <2>7. (d + e) + 3 - (d + i) = e + 3 - i /\ (d + e) + 1 - (d + i) = e + 1 - i
    BY <1>1, <2>5
  <2>8. N(t, d + i, d + e, ds) = N(u, i, e, ds)
    <3> HIDE DEF P
    <3> QED BY <2>6, <2>7, Zenon
  <2>9. LastEdit(N(u, i, e, ds), i, u)
    <3>1. e + 3 - i \in Nat /\ e + 1 - i \in Nat /\ i + (e + 3 - i) = e + 3 /\ i + (e + 1 - i) = e + 1
      BY <1>1, <2>2, <2>5
    <3>2. ASSUME Fraction(u, e) PROVE e + 3 # Len(u) + 1 \/ ~Closing(u[Len(u)])
      <4>1. e + 3 = Len(u) + 1 => e + 2 = Len(u)
        BY <1>1, <2>5
      <4> QED BY <2>6, <3>2, <4>1, NotClosing
    <3>3. e + 1 # Len(u) + 1 \/ ~Closing(u[Len(u)])
      <4>1. e + 1 = Len(u) + 1 => e = Len(u)
        BY <1>1, <2>5
      <4> QED BY <2>2, <4>1, GroupNotClosing
    <3> DEFINE k == e + 3 - i
               l == e + 1 - i
    <3>4. k \in Nat /\ l \in Nat /\ i + k = e + 3 /\ i + l = e + 1
      BY <3>1
    <3> HIDE DEF k, l
    <3>5. Fraction(u, e) => \A by : LastEdit(Replace(k, by), i, u)
      BY <1>1, <3>2, <3>4, InnerEdit
    <3>6. \A by : LastEdit(Replace(l, by), i, u)
      BY <1>1, <3>3, <3>4, InnerEdit
    <3>7. N(u, i, e, ds) = IF Fraction(u, e) THEN Replace(k, P(ds, u[e + 2].digits))
                           ELSE Replace(l, Spaced(Integer(ds)))
      BY Zenon DEF k, l
    <3> HIDE DEF N, P
    <3> QED BY <3>5, <3>6, <3>7, Zenon
  <2> HIDE DEF E, N
  <2> QED BY <1>2, <2>4, <2>8, <2>9
<1> QED BY <1>5, <1>6

LEMMA CurrencyLocal ==
    ASSUME NEW t, NEW u, NEW d, Window(t, u, d), NEW i \in 1..Len(u)
    PROVE  /\ CurrencyRule(t)[d + i] = CurrencyRule(u)[i]
           /\ LastEdit(CurrencyRule(u)[i], i, u)
<1> DEFINE Q(ds) == Counted(Value(ds), "dollar", "dollars")
           R(ds, frac) == Spaced(Q(ds) \o IF Cents(frac) = 0 THEN <<>>
                                          ELSE <<Word("and")>>
                                                 \o Counted(Cents(frac), "cent", "cents"))
                            \o (IF SubSeq(frac, 3, Len(frac)) = <<>> THEN <<>>
                                ELSE <<Digits(SubSeq(frac, 3, Len(frac)))>>)
           N(x, k, j, ds) == IF ~Fraction(x, j) THEN Replace(j + 1 - k, Spaced(Q(ds)))
                             ELSE Replace(j + 3 - k, R(ds, x[j + 2].digits))
           A(x, k, f) == MarkAt(x, k, "$") /\ DigitsAt(x, f, AnyLength)
           F(x, k, f) == IF ~A(x, k, f) THEN Keep(x, k)
                         ELSE N(x, k, GroupEnd(x, f), GroupDigits(x, f, GroupEnd(x, f)))
           E(x, k) == F(x, k, OptSpace(x, k + 1))
<1>1. /\ d \in Nat /\ i \in Nat /\ Len(u) \in Nat /\ i \in 1..Len(u)
      /\ d + i \in DOMAIN t /\ i \in DOMAIN u /\ t[d + i] = u[i]
      /\ (d + i) + 1 = d + (i + 1)
      /\ i \in 0..(Len(u) + 1) /\ i + 1 \in 1..(Len(u) + 1)
  BY InWindow
<1>2. CurrencyRule(t)[d + i] = E(t, d + i) /\ CurrencyRule(u)[i] = E(u, i)
  BY <1>1, Zenon DEF CurrencyRule, Fraction
<1>3. MarkAt(t, d + i, "$") <=> MarkAt(u, i, "$")
  <2>1. "$" # " "
    OBVIOUS
  <2> QED BY <1>1, <2>1, SameTests
<1>4. Keep(t, d + i) = Keep(u, i)
  BY <1>1 DEF Keep
<1>5. CASE ~MarkAt(u, i, "$")
  <2>1. E(t, d + i) = Keep(t, d + i) /\ E(u, i) = Keep(u, i)
    <3> HIDE DEF N
    <3> QED BY <1>3, <1>5
  <2> HIDE DEF E
  <2> QED BY <1>1, <1>2, <1>4, <2>1, KeepLast
<1>6. CASE MarkAt(u, i, "$")
  <2> DEFINE f == OptSpace(u, i + 1)
  <2>1. OptSpace(t, d + (i + 1)) = d + f /\ f \in (i + 1)..(i + 2) /\ f <= Len(u) + 1
    <3> DEFINE k == i + 1
    <3>1. k \in 1..(Len(u) + 1)
      BY <1>1
    <3>2. k = Len(u) + 1 => u # <<>> /\ ~Closing(u[Len(u)])
      <4>1. k = Len(u) + 1 => i = Len(u)
        BY <1>1
      <4>2. u[i] = Mark("$") /\ u # <<>>
        BY <1>6 DEF MarkAt
      <4>3. ~Closing(Mark("$"))
        BY GroupNotClosing DEF Terminators
      <4> QED BY <4>1, <4>2, <4>3
    <3> HIDE DEF k
    <3>3. OptSpace(t, d + k) = d + OptSpace(u, k) /\ OptSpace(u, k) \in k..(k + 1)
          /\ OptSpace(u, k) <= Len(u) + 1
      BY <3>1, <3>2, SameSpace
    <3>4. k + 1 = i + 2
      BY <1>1 DEF k
    <3> QED BY <3>3, <3>4 DEF k
  <2>2. E(t, d + i) = F(t, d + i, d + f) /\ E(u, i) = F(u, i, f)
    <3> HIDE DEF F
    <3> QED BY <1>1, <2>1, Zenon
  <2> HIDE DEF f
  <2>3. f \in Nat /\ f \in 0..(Len(u) + 1) /\ f > i
    BY <1>1, <2>1
  <2>4. DigitsAt(t, d + f, AnyLength) <=> DigitsAt(u, f, AnyLength)
    BY <2>3, SameTests
  <2>5. CASE ~DigitsAt(u, f, AnyLength)
    <3>1. F(t, d + i, d + f) = Keep(t, d + i) /\ F(u, i, f) = Keep(u, i)
      <4> HIDE DEF N
      <4> QED BY <2>4, <2>5
    <3> HIDE DEF E, F
    <3> QED BY <1>1, <1>2, <1>4, <2>2, <3>1, KeepLast
  <2>6. CASE DigitsAt(u, f, AnyLength)
    <3> DEFINE e == GroupEnd(u, f)
               ds == GroupDigits(u, f, e)
    <3>1. IsDigits(u[f]) /\ f \in 1..Len(u)
      BY <2>6 DEF DigitsAt
    <3>2. GroupEnd(t, d + f) = d + e /\ e \in f..Len(u) /\ InGroup(u[e])
      BY <3>1, SameGroup
    <3>3. GroupDigits(t, d + f, d + e) = ds
      <4> HIDE DEF e
      <4> QED BY <3>1, <3>2, SameGroup
    <3>4. F(t, d + i, d + f) = N(t, d + i, d + e, ds) /\ F(u, i, f) = N(u, i, e, ds)
      <4> HIDE DEF N
      <4> QED BY <1>3, <1>6, <2>4, <2>6, <3>2, <3>3, Zenon
    <3> HIDE DEF e, ds
    <3>5. e \in Nat /\ e \in 0..Len(u) /\ e > i
      BY <1>1, <2>3, <3>2
    <3>6. /\ Fraction(t, d + e) <=> Fraction(u, e)
          /\ Fraction(u, e) => /\ e + 2 \in 1..Len(u) /\ IsDigits(u[e + 2])
                               /\ t[(d + e) + 2] = u[e + 2]
      BY <3>5, SameFraction
    <3>7. (d + e) + 3 - (d + i) = e + 3 - i /\ (d + e) + 1 - (d + i) = e + 1 - i
      BY <1>1, <3>5
    <3>8. N(t, d + i, d + e, ds) = N(u, i, e, ds)
      <4> HIDE DEF R, Q
      <4> QED BY <3>6, <3>7, Zenon
    <3>9. LastEdit(N(u, i, e, ds), i, u)
      <4>1. e + 3 - i \in Nat /\ e + 1 - i \in Nat /\ i + (e + 3 - i) = e + 3 /\ i + (e + 1 - i) = e + 1
        BY <1>1, <3>5
      <4>2. ASSUME Fraction(u, e) PROVE e + 3 # Len(u) + 1 \/ ~Closing(u[Len(u)])
        <5>1. e + 3 = Len(u) + 1 => e + 2 = Len(u)
          BY <1>1, <3>5
        <5> QED BY <3>6, <4>2, <5>1, NotClosing
      <4>3. e + 1 # Len(u) + 1 \/ ~Closing(u[Len(u)])
        <5>1. e + 1 = Len(u) + 1 => e = Len(u)
          BY <1>1, <3>5
        <5> QED BY <3>2, <5>1, GroupNotClosing
      <4> DEFINE k == e + 3 - i
                 l == e + 1 - i
      <4>4. k \in Nat /\ l \in Nat /\ i + k = e + 3 /\ i + l = e + 1
        BY <4>1
      <4> HIDE DEF k, l
      <4>5. Fraction(u, e) => \A by : LastEdit(Replace(k, by), i, u)
        BY <1>1, <4>2, <4>4, InnerEdit
      <4>6. \A by : LastEdit(Replace(l, by), i, u)
        BY <1>1, <4>3, <4>4, InnerEdit
      <4>7. N(u, i, e, ds) = IF ~Fraction(u, e) THEN Replace(l, Spaced(Q(ds)))
                             ELSE Replace(k, R(ds, u[e + 2].digits))
        BY Zenon DEF k, l
      <4> HIDE DEF N, R, Q
      <4> QED BY <4>5, <4>6, <4>7, Zenon
    <3> HIDE DEF E, F, N
    <3> QED BY <1>2, <2>2, <3>4, <3>8, <3>9
  <2> QED BY <2>5, <2>6
<1> QED BY <1>5, <1>6

LEMMA LastOfTwo == \A X : \A s \in Seq(X), x, y \in X :
                     s \o <<x, y>> # <<>> /\ Last(s \o <<x, y>>) = y
<1> SUFFICES ASSUME NEW X, NEW s \in Seq(X), NEW x \in X, NEW y \in X
             PROVE  s \o <<x, y>> # <<>> /\ Last(s \o <<x, y>>) = y
  OBVIOUS
<1> DEFINE p == <<x, y>>
           r == s \o p
<1>1. p \in Seq(X) /\ Len(p) = 2 /\ p[2] = y
  OBVIOUS
<1> HIDE DEF p
<1>2. Len(r) = Len(s) + 2 /\ r[Len(s) + 2] = y /\ r \in Seq(X) /\ Len(s) \in Nat
  <2>1. r \in Seq(X) /\ Joins(r, s, Len(s), p, Len(p))
    BY <1>1, Joined
  <2> HIDE DEF r
  <2>2. 2 \in 1..2 /\ Len(s) \in Nat
    BY LenProperties
  <2> QED BY <1>1, <2>1, <2>2 DEF Joins
<1> HIDE DEF r
<1>3. r # <<>> /\ r[Len(r)] = y
  BY <1>2
<1> QED BY <1>3 DEF Last, r, p

LEMMA UnitLocal ==
    ASSUME NEW t, NEW u, NEW d, Window(t, u, d), NEW i \in 1..Len(u)
    PROVE  /\ UnitRule(t)[d + i] = UnitRule(u)[i]
           /\ LastEdit(UnitRule(u)[i], i, u)
<1> DEFINE L(x, k) == IF Fraction(x, k) THEN k + 2 ELSE k
           S(x, k, l, n, w) == Replace(n + 1 - k, Part(x, k, l) \o <<Space, Word(w)>>)
           A(x, n) == WordAt(x, n, DOMAIN Units) /\ Boundary(x, n + 1)
           N(x, k, l, n) == IF A(x, n) THEN S(x, k, l, n, Units[x[n].word])
                            ELSE IF MarkAt(x, n, "%") THEN S(x, k, l, n, "percent")
                            ELSE Keep(x, k)
           B(x, k) == DigitsAt(x, k, AnyLength) /\ Boundary(x, k)
           F(x, k, l) == N(x, k, l, OptSpace(x, l + 1))
           E(x, k) == IF ~B(x, k) THEN Keep(x, k) ELSE F(x, k, L(x, k))
<1>1. /\ d \in Nat /\ i \in Nat /\ Len(u) \in Nat /\ i \in 1..Len(u) /\ i <= Len(u)
      /\ d + i \in DOMAIN t /\ i \in DOMAIN u /\ t[d + i] = u[i] /\ u \in Seq(Parts)
      /\ i \in 0..(Len(u) + 1) /\ i \in 0..Len(u) /\ i \in 1..(Len(u) + 1)
  BY InWindow
<1>2. UnitRule(t)[d + i] = E(t, d + i) /\ UnitRule(u)[i] = E(u, i)
  BY <1>1, Zenon DEF UnitRule, Fraction, Part
<1>3. B(t, d + i) <=> B(u, i)
  <2>1. DigitsAt(t, d + i, AnyLength) <=> DigitsAt(u, i, AnyLength)
    BY <1>1, SameTests
  <2>2. Boundary(t, d + i) <=> Boundary(u, i)
    BY <1>1, SameBoundary
  <2> QED BY <2>1, <2>2
<1>4. Keep(t, d + i) = Keep(u, i)
  BY <1>1 DEF Keep
<1>5. CASE ~B(u, i)
  <2>1. E(t, d + i) = Keep(t, d + i) /\ E(u, i) = Keep(u, i)
    <3> HIDE DEF F, B
    <3> QED BY <1>3, <1>5
  <2> HIDE DEF E
  <2> QED BY <1>1, <1>2, <1>4, <2>1, KeepLast
<1>6. CASE B(u, i)
  <2> DEFINE l == L(u, i)
  <2>1. l \in i..Len(u) /\ IsDigits(u[l]) /\ L(t, d + i) = d + l
    <3>1. /\ Fraction(t, d + i) <=> Fraction(u, i)
          /\ Fraction(u, i) => i + 2 \in 1..Len(u) /\ IsDigits(u[i + 2])
      BY <1>1, SameFraction
    <3>2. IsDigits(u[i])
      BY <1>6 DEF DigitsAt
    <3>3. (d + i) + 2 = d + (i + 2)
      BY <1>1
    <3>4. CASE Fraction(u, i)
      <4>1. l = i + 2 /\ L(t, d + i) = (d + i) + 2
        BY <3>1, <3>4
      <4>2. i + 2 \in i..Len(u)
        BY <1>1, <3>1, <3>4
      <4> QED BY <3>1, <3>3, <3>4, <4>1, <4>2
    <3>5. CASE ~Fraction(u, i)
      <4>1. l = i /\ L(t, d + i) = d + i
        BY <3>1, <3>5
      <4> QED BY <1>1, <3>2, <4>1
    <3> QED BY <3>4, <3>5
  <2>2. E(t, d + i) = F(t, d + i, d + l) /\ E(u, i) = F(u, i, l)
    <3> HIDE DEF F, B
    <3> QED BY <1>3, <1>6, <2>1, Zenon
  <2> HIDE DEF l
  <2> DEFINE n == OptSpace(u, l + 1)
  <2>3. OptSpace(t, (d + l) + 1) = d + n /\ n \in (l + 1)..(l + 2) /\ n <= Len(u) + 1
    <3> DEFINE k == l + 1
    <3>1. k \in 1..(Len(u) + 1) /\ l \in Nat /\ (d + l) + 1 = d + k /\ k + 1 = l + 2
      BY <1>1, <2>1
    <3>2. k = Len(u) + 1 => u # <<>> /\ ~Closing(u[Len(u)])
      <4>1. k = Len(u) + 1 => l = Len(u)
        BY <1>1, <3>1
      <4>2. u # <<>>
        BY <1>1
      <4> QED BY <2>1, <4>1, <4>2, NotClosing
    <3> HIDE DEF k
    <3>3. OptSpace(t, d + k) = d + OptSpace(u, k) /\ OptSpace(u, k) \in k..(k + 1)
          /\ OptSpace(u, k) <= Len(u) + 1
      BY <3>1, <3>2, SameSpace
    <3> QED BY <3>1, <3>3 DEF k
  <2>4. F(t, d + i, d + l) = N(t, d + i, d + l, d + n) /\ F(u, i, l) = N(u, i, l, n)
    <3> HIDE DEF N
    <3> QED BY <2>3, Zenon
  <2> HIDE DEF n
  <2>5. l \in Nat /\ n \in Nat /\ n > i /\ n \in 0..(Len(u) + 1)
    BY <1>1, <2>1, <2>3
  <2>6. Part(t, d + i, d + l) = Part(u, i, l)
    BY <2>1, SamePart
  <2>7. (d + n) + 1 - (d + i) = n + 1 - i /\ n + 1 - i \in Nat /\ (d + n) + 1 = d + (n + 1)
    BY <1>1, <2>5
  <2>8. \A w : S(t, d + i, d + l, d + n, w) = S(u, i, l, n, w)
    BY <2>6, <2>7, Zenon
  <2>9. WordAt(t, d + n, DOMAIN Units) <=> WordAt(u, n, DOMAIN Units)
    BY <2>5, SameTests
  <2>10. MarkAt(t, d + n, "%") <=> MarkAt(u, n, "%")
    <3>1. "%" # " "
      OBVIOUS
    <3> QED BY <2>5, <3>1, SameTests
  <2>11. (A(t, d + n) <=> A(u, n)) /\ (A(u, n) => t[d + n] = u[n])
    <3>1. CASE WordAt(u, n, DOMAIN Units)
      <4>1. n \in 1..Len(u)
        BY <3>1 DEF WordAt
      <4>2. t[d + n] = u[n]
        BY <4>1 DEF Window
      <4>3. Boundary(t, d + (n + 1)) <=> Boundary(u, n + 1)
        <5> DEFINE k == n + 1
        <5>1. k \in 1..(Len(u) + 1)
          BY <1>1, <4>1
        <5> HIDE DEF k
        <5>2. Boundary(t, d + k) <=> Boundary(u, k)
          BY <5>1, SameBoundary
        <5> QED BY <5>2 DEF k
      <4> QED BY <2>7, <2>9, <3>1, <4>2, <4>3
    <3>2. CASE ~WordAt(u, n, DOMAIN Units)
      BY <2>9, <3>2
    <3> QED BY <3>1, <3>2
  <2>12. N(t, d + i, d + l, d + n) = N(u, i, l, n)
    <3> HIDE DEF S, A
    <3> QED BY <1>4, <2>8, <2>10, <2>11, Zenon
  <2>13. LastEdit(N(u, i, l, n), i, u)
    <3>1. \A w : w \in Spellings => LastEdit(S(u, i, l, n, w), i, u)
      <4> SUFFICES ASSUME NEW w \in Spellings PROVE LastEdit(S(u, i, l, n, w), i, u)
        OBVIOUS
      <4> DEFINE v == Part(u, i, l)
      <4>1. v \in Seq(Parts)
        BY <1>1, <2>1, SubSeqProperties DEF Part
      <4>2. Space \in Parts /\ Word(w) \in Parts
        BY Kinds, SpellingsSound
      <4> HIDE DEF v
      <4>3. v \o <<Space, Word(w)>> # <<>> /\ Last(v \o <<Space, Word(w)>>) = Word(w)
        BY <4>1, <4>2, LastOfTwo
      <4>4. S(u, i, l, n, w) = Replace(n + 1 - i, v \o <<Space, Word(w)>>)
        BY DEF v
      <4>5. Closing(Word(w))
        BY NotClosing
      <4>6. LET by == v \o <<Space, Word(w)>> IN LastEdit(Replace(n + 1 - i, by), i, u)
        <5> DEFINE by == v \o <<Space, Word(w)>>
        <5>1. by # <<>> /\ Closing(Last(by))
          BY <4>3, <4>5
        <5> HIDE DEF by
        <5>2. LastEdit(Replace(n + 1 - i, by), i, u)
          BY <5>1, EditFields DEF LastEdit
        <5> QED BY <5>2 DEF by
      <4> HIDE DEF S
      <4> QED BY <4>4, <4>6
    <3>2. A(u, n) => Units[u[n].word] \in Spellings
      <4>1. \A w : w \in DOMAIN Units => Units[w] \in Spellings
        BY DEF Units, Spellings
      <4>2. \A w : Word(w).word = w
        BY DEF Word
      <4> QED BY <4>1, <4>2 DEF WordAt
    <3>3. "percent" \in Spellings
      BY DEF Spellings
    <3>4. LastEdit(Keep(u, i), i, u)
      BY <1>1, KeepLast
    <3> HIDE DEF S, A
    <3> QED BY <3>1, <3>2, <3>3, <3>4, Zenon
  <2> HIDE DEF E, F, N
  <2> QED BY <1>2, <2>2, <2>4, <2>12, <2>13
<1> QED BY <1>5, <1>6

\* A symbol is at a position.
Symbolic(t, k) == \E c \in DOMAIN Symbols : MarkAt(t, k, c)

LEMMA SymbolsOpen ==
    /\ \A c \in DOMAIN Symbols : c # " " /\ c \notin Terminators
    /\ "-" # " " /\ "-" \notin Terminators
BY DEF Symbols, Terminators

LEMMA SymbolLocal ==
    ASSUME NEW t, NEW u, NEW d, Window(t, u, d), NEW i \in 1..Len(u)
    PROVE  /\ SymbolRule(t)[d + i] = SymbolRule(u)[i]
           /\ LastEdit(SymbolRule(u)[i], i, u)
<1> DEFINE S(x) == <<Space, Word(Symbols[x.mark]), Space>>
           T == <<Space, Word("to"), Space>>
           R(x, k, n) == DigitsAt(x, k - 1, AnyLength) /\ DigitsAt(x, k + n, AnyLength)
           G(x, k, at, n) == IF Symbolic(x, at) THEN Replace(n, S(x[at]))
                             ELSE IF MarkAt(x, at, "-") /\ R(x, k, n) THEN Replace(n, T)
                             ELSE Keep(x, k)
           F(x, k, at) == G(x, k, at, OptSpace(x, at + 1) - k)
           E(x, k) == F(x, k, OptSpace(x, k))
<1>1. /\ d \in Nat /\ i \in Nat /\ Len(u) \in Nat /\ i \in 1..Len(u) /\ i <= Len(u)
      /\ d + i \in DOMAIN t /\ i \in DOMAIN u /\ t[d + i] = u[i] /\ u \in Seq(Parts)
      /\ (d + i) - 1 = d + (i - 1)
      /\ i \in 0..(Len(u) + 1) /\ i - 1 \in 0..(Len(u) + 1) /\ i \in 1..(Len(u) + 1)
  BY InWindow
<1>2. SymbolRule(t)[d + i] = E(t, d + i) /\ SymbolRule(u)[i] = E(u, i)
  BY <1>1, Zenon DEF SymbolRule, Symbolic
<1>4. Keep(t, d + i) = Keep(u, i)
  BY <1>1 DEF Keep
<1> DEFINE a == OptSpace(u, i)
<1>5. OptSpace(t, d + i) = d + a /\ a \in i..(i + 1) /\ a <= Len(u) + 1
  <2>1. i = Len(u) + 1 => u # <<>> /\ ~Closing(u[Len(u)])
    BY <1>1
  <2> QED BY <1>1, <2>1, SameSpace
<1>6. E(t, d + i) = F(t, d + i, d + a) /\ E(u, i) = F(u, i, a)
  <2> HIDE DEF F
  <2> QED BY <1>5, Zenon
<1> HIDE DEF a
<1>7. a \in Nat /\ a \in 0..(Len(u) + 1)
  BY <1>1, <1>5
<1>8. \A c : c # " " => (MarkAt(t, d + a, c) <=> MarkAt(u, a, c))
  BY <1>7, SameTests
<1>9. Symbolic(t, d + a) <=> Symbolic(u, a)
  BY <1>8, SymbolsOpen DEF Symbolic
<1>10. MarkAt(t, d + a, "-") <=> MarkAt(u, a, "-")
  BY <1>8, SymbolsOpen
<1>11. CASE ~Symbolic(u, a) /\ ~MarkAt(u, a, "-")
  <2>1. F(t, d + i, d + a) = Keep(t, d + i) /\ F(u, i, a) = Keep(u, i)
    BY <1>9, <1>10, <1>11, Zenon
  <2> HIDE DEF E, F
  <2> QED BY <1>1, <1>2, <1>4, <1>6, <2>1, KeepLast
<1>12. CASE Symbolic(u, a) \/ MarkAt(u, a, "-")
  <2>1. a \in 1..Len(u) /\ ~Closing(u[a])
    <3>1. PICK c : MarkAt(u, a, c) /\ c \notin Terminators
      BY <1>12, SymbolsOpen DEF Symbolic
    <3> QED BY <3>1, GroupNotClosing DEF MarkAt
  <2>2. t[d + a] = u[a]
    BY <2>1 DEF Window
  <2> DEFINE b == OptSpace(u, a + 1)
             n == b - i
  <2>3. /\ OptSpace(t, (d + a) + 1) = d + b /\ b \in (a + 1)..(a + 2) /\ b <= Len(u) + 1
    <3> DEFINE k == a + 1
    <3>1. k \in 1..(Len(u) + 1) /\ (d + a) + 1 = d + k /\ k + 1 = a + 2
      BY <1>1, <1>7, <2>1
    <3>2. k = Len(u) + 1 => u # <<>> /\ ~Closing(u[Len(u)])
      <4>1. k = Len(u) + 1 => a = Len(u)
        BY <1>1, <2>1
      <4>2. u # <<>>
        BY <1>1
      <4> QED BY <2>1, <4>1, <4>2
    <3> HIDE DEF k
    <3>3. OptSpace(t, d + k) = d + OptSpace(u, k) /\ OptSpace(u, k) \in k..(k + 1)
          /\ OptSpace(u, k) <= Len(u) + 1
      BY <3>1, <3>2, SameSpace
    <3> QED BY <3>1, <3>3 DEF k
  <2>4. b = Len(u) + 1 => ~Closing(u[Len(u)])
    <3> SUFFICES ASSUME b = Len(u) + 1 PROVE ~Closing(u[Len(u)])
      OBVIOUS
    <3>1. CASE a = Len(u)
      BY <2>1, <3>1
    <3>2. CASE a # Len(u)
      <4>1. b = a + 2 /\ a + 1 = Len(u)
        <5> HIDE DEF b
        <5> QED BY <1>1, <1>7, <2>1, <2>3, <3>2
      <4>2. b # a + 1
        <5> HIDE DEF b
        <5> QED BY <1>7, <4>1
      <4>3. MarkAt(u, a + 1, " ")
        BY <4>2, Zenon DEF OptSpace
      <4> QED BY <4>1, <4>3, NotClosing DEF MarkAt, Space
    <3> QED BY <3>1, <3>2
  <2>5. F(t, d + i, d + a) = G(t, d + i, d + a, (d + b) - (d + i)) /\ F(u, i, a) = G(u, i, a, n)
    <3> HIDE DEF G
    <3> QED BY <2>3, Zenon
  <2> HIDE DEF b
  <2>6. /\ b \in Nat /\ b \in 0..(Len(u) + 1) /\ n \in Nat /\ i + n = b
        /\ (d + b) - (d + i) = n /\ (d + i) + n = d + b
    BY <1>1, <1>5, <1>7, <2>3
  <2> HIDE DEF n
  <2>7. R(t, d + i, n) <=> R(u, i, n)
    <3>1. DigitsAt(t, d + (i - 1), AnyLength) <=> DigitsAt(u, i - 1, AnyLength)
      BY <1>1, SameTests
    <3>2. DigitsAt(t, d + b, AnyLength) <=> DigitsAt(u, b, AnyLength)
      BY <2>6, SameTests
    <3> QED BY <1>1, <2>6, <3>1, <3>2
  <2>8. G(t, d + i, d + a, n) = G(u, i, a, n)
    <3> HIDE DEF R, S, T
    <3> QED BY <1>4, <1>9, <1>10, <2>2, <2>7, Zenon
  <2>9. LastEdit(G(u, i, a, n), i, u)
    <3>1. \A by : LastEdit(Replace(n, by), i, u)
      <4>1. i + n # Len(u) + 1 \/ ~Closing(u[Len(u)])
        BY <2>4, <2>6
      <4> QED BY <1>1, <2>6, <4>1, InnerEdit
    <3>2. LastEdit(Keep(u, i), i, u)
      BY <1>1, KeepLast
    <3> HIDE DEF R, S, T
    <3> QED BY <3>1, <3>2, Zenon
  <2> HIDE DEF E, F, G
  <2> QED BY <1>2, <1>6, <2>5, <2>6, <2>8, <2>9
<1> QED BY <1>11, <1>12

\* The space between two windows is kept.
LEMMA SpaceKept ==
    ASSUME NEW t, NEW k \in DOMAIN t, t[k] = Space
    PROVE  /\ AbbreviationRule(t)[k] = Keep(t, k) /\ CurrencyRule(t)[k] = Keep(t, k)
           /\ DateRule(t)[k] = Keep(t, k) /\ TimeRule(t)[k] = Keep(t, k)
           /\ UnitRule(t)[k] = Keep(t, k) /\ OrdinalRule(t)[k] = Keep(t, k)
           /\ SplitRule(t)[k] = Keep(t, k) /\ NumberRule(t)[k] = Keep(t, k)
           /\ CompoundRule(t)[k] = Keep(t, k)
<1>1. /\ \A lens : ~DigitsAt(t, k, lens)
      /\ \A ws : ~WordAt(t, k, ws)
      /\ \A c : c # " " => ~MarkAt(t, k, c)
  BY Beyond
<1>2. "$" # " " /\ "-" # " "
  OBVIOUS
<1>3. ~MarkAt(t, k, "$") /\ ~MarkAt(t, k, "-")
  BY <1>1, <1>2
<1>4. AbbreviationRule(t)[k] = Keep(t, k)
  BY <1>1, Zenon DEF AbbreviationRule
<1>5. CurrencyRule(t)[k] = Keep(t, k)
  BY <1>3, Zenon DEF CurrencyRule
<1>6. DateRule(t)[k] = Keep(t, k) /\ TimeRule(t)[k] = Keep(t, k)
  BY <1>1, Zenon DEF DateRule, TimeRule
<1>7. UnitRule(t)[k] = Keep(t, k) /\ OrdinalRule(t)[k] = Keep(t, k)
  BY <1>1, Zenon DEF UnitRule, OrdinalRule
<1>8. NumberRule(t)[k] = Keep(t, k)
  BY <1>1, Zenon DEF NumberRule
<1>9. CompoundRule(t)[k] = Keep(t, k)
  BY <1>3, Zenon DEF CompoundRule
<1>10. SplitRule(t)[k] = Keep(t, k)
  <2>1. ~IsDigits(Space) /\ ~IsSpeech(Space)
    BY DEF Space, Mark, IsMark, IsDigits, IsSpeech
  <2> QED BY <2>1, Zenon DEF SplitRule
<1> QED BY <1>4, <1>5, <1>6, <1>7, <1>8, <1>9, <1>10

------------------------------------------------------------------------------
(* A text of two, with a space between. *)

\* The first ends as a sentence does, if it is not empty.
Closed(a) == a # <<>> => Closing(a[Len(a)])

Sides(t, a, b) ==
    a \in Seq(Parts) /\ b \in Seq(Parts) /\ t = a \o (<<Space>> \o b) /\ Closed(a)

LEMMA SidesWindows ==
    ASSUME NEW t, NEW a, NEW b, Sides(t, a, b)
    PROVE  /\ t \in Seq(Parts) /\ a \in Seq(Parts) /\ b \in Seq(Parts)
           /\ Len(a) \in Nat /\ Len(b) \in Nat /\ Len(t) = (Len(a) + 1) + Len(b)
           /\ Window(t, a, 0) /\ Window(t, b, Len(a) + 1)
           /\ Len(a) + 1 \in DOMAIN t /\ t[Len(a) + 1] = Space
<1> DEFINE n == Len(a)
           m == Len(b)
           z == <<Space>> \o b
<1>1. a \in Seq(Parts) /\ b \in Seq(Parts) /\ t = a \o z /\ Closed(a)
  BY DEF Sides
<1>2. <<Space>> \in Seq(Parts) /\ Len(<<Space>>) = 1 /\ <<Space>>[1] = Space
  BY Kinds
<1>3. z \in Seq(Parts) /\ m \in Nat /\ Len(z) = 1 + m /\ z[1] = Space /\ \A j \in 1..m : z[1 + j] = b[j]
  <2> DEFINE s == <<Space>>
  <2>1. s \in Seq(Parts) /\ Len(s) = 1 /\ s[1] = Space
    BY <1>2
  <2> HIDE DEF s
  <2> DEFINE c == s \o b
  <2>2. c \in Seq(Parts) /\ Joins(c, s, Len(s), b, m)
    BY <1>1, <2>1, Joined
  <2>3. 1 \in 1..Len(s) /\ m \in Nat
    BY <1>1, <2>1
  <2>4. c = z
    BY DEF s
  <2> HIDE DEF c, m, z
  <2>5. c \in Seq(Parts) /\ m \in Nat /\ Len(c) = 1 + m /\ c[1] = Space /\ \A j \in 1..m : c[1 + j] = b[j]
    BY <2>1, <2>2, <2>3 DEF Joins
  <2> QED BY <2>4, <2>5
<1> HIDE DEF z
<1>4. /\ t \in Seq(Parts) /\ n \in Nat /\ Len(t) = n + Len(z) /\ DOMAIN t = 1..(n + Len(z))
      /\ (\A i \in 1..n : t[i] = a[i]) /\ \A j \in 1..Len(z) : t[n + j] = z[j]
  <2>1. a \o z \in Seq(Parts) /\ Joins(a \o z, a, n, z, Len(z)) /\ n \in Nat
    BY <1>1, <1>3, Joined
  <2>2. t \in Seq(Parts) /\ Joins(t, a, n, z, Len(z)) /\ n \in Nat
    BY <1>1, <2>1
  <2> QED BY <2>2 DEF Joins
<1>5. Len(t) = (n + 1) + m /\ n + 1 \in DOMAIN t
  BY <1>3, <1>4
<1>6. t[n + 1] = Space
  <2>1. 1 \in 1..Len(z)
    BY <1>3
  <2> QED BY <1>3, <1>4, <2>1
<1>7. \A j \in 1..m : t[(n + 1) + j] = b[j]
  <2> SUFFICES ASSUME NEW j \in 1..m PROVE t[(n + 1) + j] = b[j]
    OBVIOUS
  <2>1. 1 + j \in 1..Len(z) /\ (n + 1) + j = n + (1 + j)
    BY <1>3, <1>4
  <2> QED BY <1>3, <1>4, <2>1
<1>8. Window(t, a, 0)
  <2>1. \A i \in 1..n : 0 + i = i
    BY <1>4
  <2>2. 0 + n = n /\ 0 \in Nat /\ 0 + n <= Len(t)
    BY <1>3, <1>4, <1>5
  <2> QED BY <1>1, <1>4, <1>6, <2>1, <2>2 DEF Window, Closed
<1>9. Window(t, b, n + 1)
  <2>1. n + 1 \in Nat /\ (n + 1) + m <= Len(t) /\ (n + 1) + m = Len(t)
    BY <1>3, <1>4, <1>5
  <2> QED BY <1>1, <1>4, <1>6, <1>7, <2>1 DEF Window
<1> QED BY <1>1, <1>3, <1>4, <1>5, <1>6, <1>8, <1>9

\* A rule that does to each side what it does to it alone.
Parted(rt, ra, n, rb, m) ==
    /\ n \in Nat /\ m \in Nat
    /\ Edits(ra, n, Parts) /\ Edits(rb, m, Parts) /\ Edits(rt, (n + 1) + m, Parts)
    /\ \A i \in 1..n : rt[i] = ra[i]
    /\ \A j \in 1..m : rt[(n + 1) + j] = rb[j]

Around(x, a, b) == x = a \o (<<Space>> \o b)
Beside(x, a, b) == x = a \o b

LEMMA RewriteAround ==
    ASSUME NEW rt, NEW ra, NEW n, NEW rb, NEW m, Parted(rt, ra, n, rb, m)
    PROVE  /\ Rewrite(ra) \in Seq(Parts) /\ Rewrite(rb) \in Seq(Parts)
           /\ rt[n + 1].taken = 1 /\ rt[n + 1].by = <<Space>>
              => Around(Rewrite(rt), Rewrite(ra), Rewrite(rb))
           /\ m > 0 /\ rt[n + 1].taken = 1 + rb[1].taken /\ rt[n + 1].by = rb[1].by
              => Beside(Rewrite(rt), Rewrite(ra), Rewrite(rb))
<1> DEFINE l == (n + 1) + m
           o == n + 1
<1>1. /\ n \in Nat /\ m \in Nat /\ o \in Nat /\ l \in Nat /\ n <= l /\ l = o + m /\ o \in 1..l
      /\ Edits(ra, n, Parts) /\ Edits(rb, m, Parts) /\ Edits(rt, l, Parts)
      /\ \A i \in 1..n : rt[i] = ra[i]
      /\ \A j \in 1..m : rt[o + j] = rb[j]
  BY DEF Parted
<1> HIDE DEF l
<1>2. PICK fa : From1(fa, ra, n, Parts)
  BY <1>1, RewriteSteps
<1>3. PICK fb : From1(fb, rb, m, Parts)
  BY <1>1, RewriteSteps
<1>4. PICK ft : From1(ft, rt, l, Parts)
  BY <1>1, RewriteSteps
<1>5. /\ Rewrite(ra) = fa[1] /\ Rewrite(rb) = fb[1] /\ Rewrite(rt) = ft[1]
      /\ Rewrite(ra) \in Seq(Parts) /\ Rewrite(rb) \in Seq(Parts)
  <2>1. 1 \in 1..(n + 1) /\ 1 \in 1..(m + 1)
    BY <1>1
  <2> QED BY <1>2, <1>3, <1>4, <2>1 DEF From1
<1>6. \A j \in 1..(m + 1) : ft[o + j] = fb[j]
  <2>1. RestOf(fb, rb, m, ft, rt, o, Parts)
    <3> HIDE DEF o
    <3> QED BY <1>1, <1>3, <1>4 DEF RestOf
  <2> HIDE DEF o
  <2> QED BY <2>1, SameRest
<1>7. Continues(ft, fa, n)
  <2>1. StartOf(fa, ra, n, ft, rt, l, Parts)
    BY <1>1, <1>2, <1>4 DEF StartOf
  <2> QED BY <2>1, SameStart
<1>8. ft[1] = fa[1] \o ft[o]
  BY <1>7 DEF Continues
<1> DEFINE e == rt[o]
<1>9. ft[o] = e.by \o ft[o + e.taken]
  <2> HIDE DEF o
  <2> QED BY <1>1, <1>4 DEF From1
<1>10. ASSUME e.taken = 1, e.by = <<Space>>
       PROVE  Around(Rewrite(rt), Rewrite(ra), Rewrite(rb))
  <2>1. 1 \in 1..(m + 1)
    BY <1>1
  <2>2. ft[o + 1] = fb[1]
    <3> HIDE DEF o
    <3> QED BY <1>6, <2>1
  <2>3. ft[o] = <<Space>> \o fb[1]
    <3> HIDE DEF o
    <3> QED BY <1>9, <1>10, <2>2
  <2> HIDE DEF o, e
  <2> QED BY <1>5, <1>8, <2>3 DEF Around
<1>11. ASSUME m > 0, e.taken = 1 + rb[1].taken, e.by = rb[1].by
       PROVE  Beside(Rewrite(rt), Rewrite(ra), Rewrite(rb))
  <2> DEFINE k == rb[1].taken
  <2>1. 1 \in 1..m /\ k \in 1..(m + 1 - 1)
    BY <1>1, <1>11 DEF Edits, Sound
  <2> HIDE DEF k, o
  <2>2. 1 + k \in 1..(m + 1)
    BY <1>1, <2>1
  <2>3. ft[o + (1 + k)] = fb[1 + k]
    BY <1>6, <2>2
  <2>4. fb[1] = rb[1].by \o fb[1 + k]
    BY <1>3, <2>1 DEF From1, k
  <2>5. e.taken = 1 + k
    BY <1>11 DEF k
  <2> HIDE DEF e
  <2>6. ft[o] = fb[1]
    BY <1>9, <1>11, <2>3, <2>4, <2>5
  <2> QED BY <1>5, <1>8, <2>6 DEF Beside
<1> QED BY <1>5, <1>10, <1>11

LEMMA LastClosing ==
    ASSUME NEW u \in Seq(Parts), NEW r, Edits(r, Len(u), Parts), Closed(u),
           \A i \in 1..Len(u) : LastEdit(r[i], i, u)
    PROVE  Closed(Rewrite(r))
<1> DEFINE n == Len(u)
<1>1. n \in Nat /\ (u # <<>> <=> n > 0)
  OBVIOUS
<1>2. PICK f : From1(f, r, n, Parts)
  BY <1>1, RewriteSteps
<1>3. /\ Rewrite(r) = f[1] /\ f[n + 1] = <<>>
      /\ \A i \in 1..n : f[i] = r[i].by \o f[i + r[i].taken]
      /\ \A i \in 1..(n + 1) : f[i] \in Seq(Parts)
      /\ \A i \in 1..n : r[i].taken \in 1..(n + 1 - i) /\ r[i].by \in Seq(Parts)
  BY <1>2 DEF From1, Edits, Sound
<1>4. CASE n = 0
  BY <1>3, <1>4 DEF Closed
<1>5. CASE n > 0
  <2>1. Closing(u[n])
    BY <1>1, <1>5 DEF Closed
  <2>2. \A i \in 1..n : i + r[i].taken = n + 1 => r[i].by # <<>> /\ Closing(Last(r[i].by))
    BY <2>1 DEF LastEdit
  <2> HIDE DEF n
  <2> DEFINE T == {i \in 1..(n + 1) : i # n + 1 => f[i] # <<>> /\ Closing(Last(f[i]))}
  <2>3. \A i : i \in T <=> i \in 1..(n + 1) /\ (i # n + 1 => f[i] # <<>> /\ Closing(Last(f[i])))
    OBVIOUS
  <2> HIDE DEF T
  <2>4. n + 1 \in T
    BY <1>1, <2>3
  <2>5. ASSUME NEW i \in 1..n, \A j \in (i + 1)..(n + 1) : j \in T PROVE i \in T
    <3> DEFINE j == i + r[i].taken
               x == r[i].by
               y == f[j]
    <3>1. /\ j \in (i + 1)..(n + 1) /\ j \in 1..(n + 1) /\ i \in 1..(n + 1) /\ i # n + 1
      BY <1>1, <1>3
    <3>2. x \in Seq(Parts) /\ y \in Seq(Parts) /\ f[i] = x \o y
      BY <1>3, <3>1
    <3>3. j = n + 1 => y = <<>> /\ x # <<>> /\ Closing(Last(x))
      BY <1>3, <2>2
    <3>4. j # n + 1 => y # <<>> /\ Closing(Last(y))
      BY <2>3, <2>5, <3>1
    <3> HIDE DEF j, x, y
    <3>5. f[i] # <<>> /\ Closing(Last(f[i]))
      <4>1. CASE j = n + 1
        <5>1. f[i] = x
          BY <3>2, <3>3, <4>1, ConcatEmptySeq
        <5> QED BY <3>3, <4>1, <5>1
      <4>2. CASE j # n + 1
        <5>1. Space \in Parts
          BY Kinds
        <5>2. x \o y # <<>> /\ Last(x \o y) = Last(y)
          BY <3>2, <3>4, <4>2, <5>1, PutTogether
        <5> QED BY <3>2, <3>4, <4>2, <5>2
      <4> QED BY <4>1, <4>2
    <3> QED BY <2>3, <3>1, <3>5
  <2>6. 1 \in T
    <3>1. 1..(n + 1) \subseteq T
      BY <1>1, <2>4, <2>5, CountingDown
    <3> QED BY <1>1, <3>1
  <2> QED BY <1>1, <1>3, <1>5, <2>3, <2>6 DEF Closed, Last
<1> QED BY <1>1, <1>4, <1>5

Cleft(t, a, b, rt, ra, rb) ==
    /\ Edits(rt, Len(t), Parts) /\ Edits(ra, Len(a), Parts) /\ Edits(rb, Len(b), Parts)
    /\ \A i \in 1..Len(a) : rt[0 + i] = ra[i] /\ LastEdit(ra[i], i, a)
    /\ \A j \in 1..Len(b) : rt[(Len(a) + 1) + j] = rb[j]
    /\ rt[Len(a) + 1] = Keep(t, Len(a) + 1)

LEMMA PassSides ==
    ASSUME NEW t, NEW a, NEW b, NEW rt, NEW ra, NEW rb,
           Sides(t, a, b), Cleft(t, a, b, rt, ra, rb)
    PROVE  Sides(Rewrite(rt), Rewrite(ra), Rewrite(rb))
<1> DEFINE n == Len(a)
           m == Len(b)
<1>1. /\ a \in Seq(Parts) /\ n \in Nat /\ m \in Nat /\ Len(t) = (n + 1) + m
      /\ t[n + 1] = Space /\ Closed(a)
  BY SidesWindows DEF Sides
<1>2. /\ Edits(rt, (n + 1) + m, Parts) /\ Edits(ra, n, Parts) /\ Edits(rb, m, Parts)
      /\ \A i \in 1..n : rt[0 + i] = ra[i] /\ LastEdit(ra[i], i, a)
      /\ \A j \in 1..m : rt[(n + 1) + j] = rb[j]
      /\ rt[n + 1] = Keep(t, n + 1)
  BY <1>1 DEF Cleft
<1> HIDE DEF n, m
<1>3. \A i \in 1..n : 0 + i = i
  BY <1>1
<1>4. Parted(rt, ra, n, rb, m)
  BY <1>1, <1>2, <1>3 DEF Parted
<1>5. rt[n + 1].taken = 1 /\ rt[n + 1].by = <<Space>>
  BY <1>1, <1>2, EditFields
<1>6. /\ Rewrite(ra) \in Seq(Parts) /\ Rewrite(rb) \in Seq(Parts)
      /\ Around(Rewrite(rt), Rewrite(ra), Rewrite(rb))
  BY <1>4, <1>5, RewriteAround
<1>7. Closed(Rewrite(ra))
  BY <1>1, <1>2, LastClosing DEF n
<1> QED BY <1>6, <1>7 DEF Sides, Around

LEMMA WiderEdits == \A r, n : Edits(r, n, Sounds) => Edits(r, n, Parts)
BY SoundsAreParts DEF Edits, Sound

LEMMA CompoundEdits ==
    ASSUME NEW t \in Seq(Parts)
    PROVE  Edits(CompoundRule(t), Len(t), Parts)
<1> DEFINE rule == CompoundRule(t)
<1>1. ASSUME NEW i \in 1..Len(t) PROVE Sound(rule[i], i, Len(t), Parts)
  <2>1. rule[i] = Keep(t, i) \/ rule[i] = Replace(1, <<Space>>)
    BY DEF CompoundRule
  <2>2. Sound(Keep(t, i), i, Len(t), Parts)
    BY EditKeep
  <2>3. Len(t) \in Nat /\ 1 \in 1..(Len(t) + 1 - i) /\ <<Space>> \in Seq(Parts)
    BY Kinds
  <2>4. Sound(Replace(1, <<Space>>), i, Len(t), Parts)
    BY <2>3, EditReplace
  <2> QED BY <2>1, <2>2, <2>4
<1>2. rule = [i \in DOMAIN t |-> rule[i]]
  BY DEF CompoundRule
<1> HIDE DEF rule
<1>3. Edits(rule, Len(t), Parts)
  BY <1>1, <1>2, Pass
<1> QED BY <1>3 DEF rule

LEMMA AbbreviationSides ==
    ASSUME NEW t, NEW a, NEW b, Sides(t, a, b)
    PROVE  Sides(Rewrite(AbbreviationRule(t)), Rewrite(AbbreviationRule(a)), Rewrite(AbbreviationRule(b)))
<1>1. /\ t \in Seq(Parts) /\ a \in Seq(Parts) /\ b \in Seq(Parts)
      /\ Window(t, a, 0) /\ Window(t, b, Len(a) + 1)
      /\ Len(a) + 1 \in DOMAIN t /\ t[Len(a) + 1] = Space
  BY SidesWindows
<1>2. Cleft(t, a, b, AbbreviationRule(t), AbbreviationRule(a), AbbreviationRule(b))
  <2>1. /\ Edits(AbbreviationRule(t), Len(t), Parts) /\ Edits(AbbreviationRule(a), Len(a), Parts)
        /\ Edits(AbbreviationRule(b), Len(b), Parts)
    BY <1>1, AbbreviationPass
  <2>2. \A i \in 1..Len(a) : /\ AbbreviationRule(t)[0 + i] = AbbreviationRule(a)[i]
                            /\ LastEdit(AbbreviationRule(a)[i], i, a)
    BY <1>1, AbbreviationLocal
  <2>3. \A j \in 1..Len(b) : AbbreviationRule(t)[(Len(a) + 1) + j] = AbbreviationRule(b)[j]
    BY <1>1, AbbreviationLocal
  <2>4. AbbreviationRule(t)[Len(a) + 1] = Keep(t, Len(a) + 1)
    BY <1>1, SpaceKept
  <2> QED BY <2>1, <2>2, <2>3, <2>4 DEF Cleft
<1> QED BY <1>2, PassSides

LEMMA CurrencySides ==
    ASSUME NEW t, NEW a, NEW b, Sides(t, a, b)
    PROVE  Sides(Rewrite(CurrencyRule(t)), Rewrite(CurrencyRule(a)), Rewrite(CurrencyRule(b)))
<1>1. /\ t \in Seq(Parts) /\ a \in Seq(Parts) /\ b \in Seq(Parts)
      /\ Window(t, a, 0) /\ Window(t, b, Len(a) + 1)
      /\ Len(a) + 1 \in DOMAIN t /\ t[Len(a) + 1] = Space
  BY SidesWindows
<1>2. Cleft(t, a, b, CurrencyRule(t), CurrencyRule(a), CurrencyRule(b))
  <2>1. /\ Edits(CurrencyRule(t), Len(t), Parts) /\ Edits(CurrencyRule(a), Len(a), Parts)
        /\ Edits(CurrencyRule(b), Len(b), Parts)
    BY <1>1, CurrencyPass
  <2>2. \A i \in 1..Len(a) : /\ CurrencyRule(t)[0 + i] = CurrencyRule(a)[i]
                            /\ LastEdit(CurrencyRule(a)[i], i, a)
    BY <1>1, CurrencyLocal
  <2>3. \A j \in 1..Len(b) : CurrencyRule(t)[(Len(a) + 1) + j] = CurrencyRule(b)[j]
    BY <1>1, CurrencyLocal
  <2>4. CurrencyRule(t)[Len(a) + 1] = Keep(t, Len(a) + 1)
    BY <1>1, SpaceKept
  <2> QED BY <2>1, <2>2, <2>3, <2>4 DEF Cleft
<1> QED BY <1>2, PassSides

LEMMA DateSides ==
    ASSUME NEW t, NEW a, NEW b, Sides(t, a, b)
    PROVE  Sides(Rewrite(DateRule(t)), Rewrite(DateRule(a)), Rewrite(DateRule(b)))
<1>1. /\ t \in Seq(Parts) /\ a \in Seq(Parts) /\ b \in Seq(Parts)
      /\ Window(t, a, 0) /\ Window(t, b, Len(a) + 1)
      /\ Len(a) + 1 \in DOMAIN t /\ t[Len(a) + 1] = Space
  BY SidesWindows
<1>2. Cleft(t, a, b, DateRule(t), DateRule(a), DateRule(b))
  <2>1. /\ Edits(DateRule(t), Len(t), Parts) /\ Edits(DateRule(a), Len(a), Parts)
        /\ Edits(DateRule(b), Len(b), Parts)
    BY <1>1, DatePass
  <2>2. \A i \in 1..Len(a) : /\ DateRule(t)[0 + i] = DateRule(a)[i]
                            /\ LastEdit(DateRule(a)[i], i, a)
    BY <1>1, DateLocal
  <2>3. \A j \in 1..Len(b) : DateRule(t)[(Len(a) + 1) + j] = DateRule(b)[j]
    BY <1>1, DateLocal
  <2>4. DateRule(t)[Len(a) + 1] = Keep(t, Len(a) + 1)
    BY <1>1, SpaceKept
  <2> QED BY <2>1, <2>2, <2>3, <2>4 DEF Cleft
<1> QED BY <1>2, PassSides

LEMMA TimeSides ==
    ASSUME NEW t, NEW a, NEW b, Sides(t, a, b)
    PROVE  Sides(Rewrite(TimeRule(t)), Rewrite(TimeRule(a)), Rewrite(TimeRule(b)))
<1>1. /\ t \in Seq(Parts) /\ a \in Seq(Parts) /\ b \in Seq(Parts)
      /\ Window(t, a, 0) /\ Window(t, b, Len(a) + 1)
      /\ Len(a) + 1 \in DOMAIN t /\ t[Len(a) + 1] = Space
  BY SidesWindows
<1>2. Cleft(t, a, b, TimeRule(t), TimeRule(a), TimeRule(b))
  <2>1. /\ Edits(TimeRule(t), Len(t), Parts) /\ Edits(TimeRule(a), Len(a), Parts)
        /\ Edits(TimeRule(b), Len(b), Parts)
    BY <1>1, TimePass
  <2>2. \A i \in 1..Len(a) : /\ TimeRule(t)[0 + i] = TimeRule(a)[i]
                            /\ LastEdit(TimeRule(a)[i], i, a)
    BY <1>1, TimeLocal
  <2>3. \A j \in 1..Len(b) : TimeRule(t)[(Len(a) + 1) + j] = TimeRule(b)[j]
    BY <1>1, TimeLocal
  <2>4. TimeRule(t)[Len(a) + 1] = Keep(t, Len(a) + 1)
    BY <1>1, SpaceKept
  <2> QED BY <2>1, <2>2, <2>3, <2>4 DEF Cleft
<1> QED BY <1>2, PassSides

LEMMA UnitSides ==
    ASSUME NEW t, NEW a, NEW b, Sides(t, a, b)
    PROVE  Sides(Rewrite(UnitRule(t)), Rewrite(UnitRule(a)), Rewrite(UnitRule(b)))
<1>1. /\ t \in Seq(Parts) /\ a \in Seq(Parts) /\ b \in Seq(Parts)
      /\ Window(t, a, 0) /\ Window(t, b, Len(a) + 1)
      /\ Len(a) + 1 \in DOMAIN t /\ t[Len(a) + 1] = Space
  BY SidesWindows
<1>2. Cleft(t, a, b, UnitRule(t), UnitRule(a), UnitRule(b))
  <2>1. /\ Edits(UnitRule(t), Len(t), Parts) /\ Edits(UnitRule(a), Len(a), Parts)
        /\ Edits(UnitRule(b), Len(b), Parts)
    BY <1>1, UnitPass
  <2>2. \A i \in 1..Len(a) : /\ UnitRule(t)[0 + i] = UnitRule(a)[i]
                            /\ LastEdit(UnitRule(a)[i], i, a)
    BY <1>1, UnitLocal
  <2>3. \A j \in 1..Len(b) : UnitRule(t)[(Len(a) + 1) + j] = UnitRule(b)[j]
    BY <1>1, UnitLocal
  <2>4. UnitRule(t)[Len(a) + 1] = Keep(t, Len(a) + 1)
    BY <1>1, SpaceKept
  <2> QED BY <2>1, <2>2, <2>3, <2>4 DEF Cleft
<1> QED BY <1>2, PassSides

LEMMA OrdinalSides ==
    ASSUME NEW t, NEW a, NEW b, Sides(t, a, b)
    PROVE  Sides(Rewrite(OrdinalRule(t)), Rewrite(OrdinalRule(a)), Rewrite(OrdinalRule(b)))
<1>1. /\ t \in Seq(Parts) /\ a \in Seq(Parts) /\ b \in Seq(Parts)
      /\ Window(t, a, 0) /\ Window(t, b, Len(a) + 1)
      /\ Len(a) + 1 \in DOMAIN t /\ t[Len(a) + 1] = Space
  BY SidesWindows
<1>2. Cleft(t, a, b, OrdinalRule(t), OrdinalRule(a), OrdinalRule(b))
  <2>1. /\ Edits(OrdinalRule(t), Len(t), Parts) /\ Edits(OrdinalRule(a), Len(a), Parts)
        /\ Edits(OrdinalRule(b), Len(b), Parts)
    BY <1>1, OrdinalPass
  <2>2. \A i \in 1..Len(a) : /\ OrdinalRule(t)[0 + i] = OrdinalRule(a)[i]
                            /\ LastEdit(OrdinalRule(a)[i], i, a)
    BY <1>1, OrdinalLocal
  <2>3. \A j \in 1..Len(b) : OrdinalRule(t)[(Len(a) + 1) + j] = OrdinalRule(b)[j]
    BY <1>1, OrdinalLocal
  <2>4. OrdinalRule(t)[Len(a) + 1] = Keep(t, Len(a) + 1)
    BY <1>1, SpaceKept
  <2> QED BY <2>1, <2>2, <2>3, <2>4 DEF Cleft
<1> QED BY <1>2, PassSides

LEMMA SplitSides ==
    ASSUME NEW t, NEW a, NEW b, Sides(t, a, b)
    PROVE  Sides(Rewrite(SplitRule(t)), Rewrite(SplitRule(a)), Rewrite(SplitRule(b)))
<1>1. /\ t \in Seq(Parts) /\ a \in Seq(Parts) /\ b \in Seq(Parts)
      /\ Window(t, a, 0) /\ Window(t, b, Len(a) + 1)
      /\ Len(a) + 1 \in DOMAIN t /\ t[Len(a) + 1] = Space
  BY SidesWindows
<1>2. Cleft(t, a, b, SplitRule(t), SplitRule(a), SplitRule(b))
  <2>1. /\ Edits(SplitRule(t), Len(t), Parts) /\ Edits(SplitRule(a), Len(a), Parts)
        /\ Edits(SplitRule(b), Len(b), Parts)
    BY <1>1, SplitPass
  <2>2. \A i \in 1..Len(a) : /\ SplitRule(t)[0 + i] = SplitRule(a)[i]
                            /\ LastEdit(SplitRule(a)[i], i, a)
    BY <1>1, SplitLocal
  <2>3. \A j \in 1..Len(b) : SplitRule(t)[(Len(a) + 1) + j] = SplitRule(b)[j]
    BY <1>1, SplitLocal
  <2>4. SplitRule(t)[Len(a) + 1] = Keep(t, Len(a) + 1)
    BY <1>1, SpaceKept
  <2> QED BY <2>1, <2>2, <2>3, <2>4 DEF Cleft
<1> QED BY <1>2, PassSides

LEMMA NumberSides ==
    ASSUME NEW t, NEW a, NEW b, Sides(t, a, b)
    PROVE  Sides(Rewrite(NumberRule(t)), Rewrite(NumberRule(a)), Rewrite(NumberRule(b)))
<1>1. /\ t \in Seq(Parts) /\ a \in Seq(Parts) /\ b \in Seq(Parts)
      /\ Window(t, a, 0) /\ Window(t, b, Len(a) + 1)
      /\ Len(a) + 1 \in DOMAIN t /\ t[Len(a) + 1] = Space
  BY SidesWindows
<1>2. Cleft(t, a, b, NumberRule(t), NumberRule(a), NumberRule(b))
  <2>1. /\ Edits(NumberRule(t), Len(t), Parts) /\ Edits(NumberRule(a), Len(a), Parts)
        /\ Edits(NumberRule(b), Len(b), Parts)
    BY <1>1, NumberPass, WiderEdits
  <2>2. \A i \in 1..Len(a) : /\ NumberRule(t)[0 + i] = NumberRule(a)[i]
                            /\ LastEdit(NumberRule(a)[i], i, a)
    BY <1>1, NumberLocal
  <2>3. \A j \in 1..Len(b) : NumberRule(t)[(Len(a) + 1) + j] = NumberRule(b)[j]
    BY <1>1, NumberLocal
  <2>4. NumberRule(t)[Len(a) + 1] = Keep(t, Len(a) + 1)
    BY <1>1, SpaceKept
  <2> QED BY <2>1, <2>2, <2>3, <2>4 DEF Cleft
<1> QED BY <1>2, PassSides

LEMMA CompoundSides ==
    ASSUME NEW t, NEW a, NEW b, Sides(t, a, b)
    PROVE  Sides(Rewrite(CompoundRule(t)), Rewrite(CompoundRule(a)), Rewrite(CompoundRule(b)))
<1>1. /\ t \in Seq(Parts) /\ a \in Seq(Parts) /\ b \in Seq(Parts)
      /\ Window(t, a, 0) /\ Window(t, b, Len(a) + 1)
      /\ Len(a) + 1 \in DOMAIN t /\ t[Len(a) + 1] = Space
  BY SidesWindows
<1>2. Cleft(t, a, b, CompoundRule(t), CompoundRule(a), CompoundRule(b))
  <2>1. /\ Edits(CompoundRule(t), Len(t), Parts) /\ Edits(CompoundRule(a), Len(a), Parts)
        /\ Edits(CompoundRule(b), Len(b), Parts)
    BY <1>1, CompoundEdits
  <2>2. \A i \in 1..Len(a) : /\ CompoundRule(t)[0 + i] = CompoundRule(a)[i]
                            /\ LastEdit(CompoundRule(a)[i], i, a)
    BY <1>1, CompoundLocal
  <2>3. \A j \in 1..Len(b) : CompoundRule(t)[(Len(a) + 1) + j] = CompoundRule(b)[j]
    BY <1>1, CompoundLocal
  <2>4. CompoundRule(t)[Len(a) + 1] = Keep(t, Len(a) + 1)
    BY <1>1, SpaceKept
  <2> QED BY <2>1, <2>2, <2>3, <2>4 DEF Cleft
<1> QED BY <1>2, PassSides

\* A symbol at the beginning of the second side takes the space before it along; what
\* it is replaced with begins with one.
Shares(t, a, b) == \E c : Sides(t, a, c) /\ (b = c \/ Sides(b, <<>>, c))

LEMMA SymbolAtJoint ==
    ASSUME NEW t, NEW a, NEW b, Sides(t, a, b), NEW n, n = Len(a)
    PROVE  \/ SymbolRule(t)[n + 1] = Keep(t, n + 1)
           \/ /\ b # <<>>
              /\ \E w \in Spellings : /\ SymbolRule(b)[1].by = <<Space, Word(w), Space>>
                                      /\ SymbolRule(t)[n + 1].by = SymbolRule(b)[1].by
              /\ SymbolRule(t)[n + 1].taken = 1 + SymbolRule(b)[1].taken
<1> DEFINE S(x) == <<Space, Word(Symbols[x.mark]), Space>>
           T == <<Space, Word("to"), Space>>
           R(x, k, l) == DigitsAt(x, k - 1, AnyLength) /\ DigitsAt(x, k + l, AnyLength)
           G(x, k, at, l) == IF Symbolic(x, at) THEN Replace(l, S(x[at]))
                             ELSE IF MarkAt(x, at, "-") /\ R(x, k, l) THEN Replace(l, T)
                             ELSE Keep(x, k)
           F(x, k, at) == G(x, k, at, OptSpace(x, at + 1) - k)
           E(x, k) == F(x, k, OptSpace(x, k))
<1>0. /\ a \in Seq(Parts) /\ b \in Seq(Parts) /\ t \in Seq(Parts)
      /\ Len(a) \in Nat /\ Len(b) \in Nat /\ Len(t) = (Len(a) + 1) + Len(b)
      /\ Window(t, a, 0) /\ Window(t, b, Len(a) + 1)
      /\ Len(a) + 1 \in DOMAIN t /\ t[Len(a) + 1] = Space
  BY SidesWindows
<1> DEFINE m == Len(b)
<1>1. /\ a \in Seq(Parts) /\ b \in Seq(Parts) /\ n \in Nat /\ m \in Nat /\ Len(t) = (n + 1) + m
      /\ Window(t, a, 0) /\ Window(t, b, n + 1)
      /\ n + 1 \in DOMAIN t /\ t[n + 1] = Space /\ t \in Seq(Parts) /\ n + 1 \in 1..Len(t)
  BY <1>0
<1>2. SymbolRule(t)[n + 1] = E(t, n + 1)
  BY <1>1, Zenon DEF SymbolRule, Symbolic
<1>3. OptSpace(t, n + 1) = (n + 1) + 1
  <2>1. MarkAt(t, n + 1, " ")
    BY <1>1, Zenon DEF MarkAt, Space
  <2> QED BY <2>1, Zenon DEF OptSpace
<1>4. SymbolRule(t)[n + 1] = F(t, n + 1, (n + 1) + 1)
  <2> HIDE DEF F
  <2> QED BY <1>2, <1>3, Zenon
<1>5. 1 \in 0..(m + 1)
  BY <1>1
<1>6. \A c : c # " " => (MarkAt(t, (n + 1) + 1, c) <=> MarkAt(b, 1, c))
  BY <1>1, <1>5, SameTests
<1>7. ~DigitsAt(t, (n + 1) - 1, AnyLength)
  <2>1. (n + 1) - 1 = n
    BY <1>1
  <2>2. CASE n = 0
    BY <2>1, <2>2 DEF DigitsAt
  <2>3. CASE n # 0
    <3>1. a # <<>> /\ n \in 1..n
      BY <1>1, <2>3
    <3>2. Closing(a[n])
      BY <3>1 DEF Sides, Closed
    <3>3. t[0 + n] = a[n] /\ 0 + n = n
      BY <1>1, <3>1 DEF Window
    <3> QED BY <2>1, <3>2, <3>3, NotClosing DEF DigitsAt
  <2> QED BY <2>2, <2>3
<1>8. CASE ~Symbolic(b, 1)
  <2>1. ~Symbolic(t, (n + 1) + 1)
    BY <1>6, <1>8, SymbolsOpen DEF Symbolic
  <2>2. F(t, n + 1, (n + 1) + 1) = Keep(t, n + 1)
    BY <1>7, <2>1, Zenon
  <2> HIDE DEF F
  <2> QED BY <1>4, <2>2
<1>9. CASE Symbolic(b, 1)
  <2>1. PICK c \in DOMAIN Symbols : MarkAt(b, 1, c)
    BY <1>9 DEF Symbolic
  <2>2. b # <<>> /\ 1 \in DOMAIN b /\ b[1] = Mark(c) /\ m >= 1 /\ ~Closing(b[1])
    <3>1. b[1] = Mark(c) /\ 1 \in 1..m
      BY <2>1 DEF MarkAt
    <3>2. ~Closing(Mark(c))
      BY SymbolsOpen, GroupNotClosing
    <3>3. b # <<>> /\ 1 \in DOMAIN b /\ m >= 1
      BY <1>1, <3>1
    <3> QED BY <3>1, <3>2, <3>3
  <2>3. SymbolRule(b)[1] = E(b, 1)
    BY <2>2, Zenon DEF SymbolRule, Symbolic
  <2>4. OptSpace(b, 1) = 1
    <3>1. \A x : Mark(x).mark = x
      BY DEF Mark
    <3>2. ~MarkAt(b, 1, " ")
      <4>1. b[1].mark = c /\ c # " "
        BY <2>2, <3>1, SymbolsOpen
      <4>2. MarkAt(b, 1, " ") => b[1].mark = " "
        BY <3>1 DEF MarkAt
      <4> QED BY <4>1, <4>2
    <3> QED BY <3>2, Zenon DEF OptSpace
  <2>5. SymbolRule(b)[1] = F(b, 1, 1)
    <3> HIDE DEF F
    <3> QED BY <2>3, <2>4, Zenon
  <2>6. Symbolic(t, (n + 1) + 1) /\ t[(n + 1) + 1] = b[1]
    <3>1. Symbolic(t, (n + 1) + 1)
      BY <1>6, <2>1, SymbolsOpen DEF Symbolic
    <3>2. 1 \in 1..m
      BY <1>1, <2>2
    <3> QED BY <1>1, <3>1, <3>2 DEF Window
  <2> DEFINE o == OptSpace(b, 1 + 1)
  <2>7. OptSpace(t, ((n + 1) + 1) + 1) = (n + 1) + o /\ o \in Int
    <3> DEFINE k == 1 + 1
               d == n + 1
    <3>1. k \in 1..(m + 1) /\ ((n + 1) + 1) + 1 = d + k
      BY <1>1, <2>2
    <3>2. k = m + 1 => b # <<>> /\ ~Closing(b[m])
      <4>0. m \in Nat
        BY <1>1
      <4>1. k = m + 1 => m = 1
        <5> HIDE DEF m
        <5> QED BY <4>0
      <4> QED BY <2>2, <4>1
    <3>3. Window(t, b, d)
      BY <1>1
    <3> HIDE DEF k, d
    <3>4. OptSpace(t, d + k) = d + OptSpace(b, k) /\ OptSpace(b, k) \in k..(k + 1)
      BY <3>1, <3>2, <3>3, SameSpace
    <3>5. k \in Int
      BY <3>1
    <3> QED BY <3>1, <3>4, <3>5 DEF k, d
  <2> DEFINE s == S(b[1])
  <2>8. SymbolRule(b)[1] = Replace(o - 1, s)
    <3> HIDE DEF S, o
    <3> QED BY <1>9, <2>5, Zenon DEF o
  <2>9. SymbolRule(t)[n + 1] = Replace(((n + 1) + o) - (n + 1), s)
    <3> HIDE DEF S, o
    <3> QED BY <1>4, <2>6, <2>7, Zenon DEF o
  <2>10. ((n + 1) + o) - (n + 1) = 1 + (o - 1)
    <3> HIDE DEF o
    <3> QED BY <1>1, <2>7
  <2>11. \E w \in Spellings : s = <<Space, Word(w), Space>>
    <3>1. \A x : Mark(x).mark = x
      BY DEF Mark
    <3>2. Symbols[c] \in Spellings
      BY DEF Symbols, Spellings
    <3>3. s = <<Space, Word(Symbols[c]), Space>>
      BY <2>2, <3>1
    <3> HIDE DEF s
    <3> QED BY <3>2, <3>3
  <2> HIDE DEF s, o
  <2> QED BY <2>2, <2>8, <2>9, <2>10, <2>11, EditFields
<1> QED BY <1>8, <1>9

LEMMA SymbolShares ==
    ASSUME NEW t, NEW a, NEW b, Sides(t, a, b)
    PROVE  Shares(Rewrite(SymbolRule(t)), Rewrite(SymbolRule(a)), Rewrite(SymbolRule(b)))
<1>0. /\ a \in Seq(Parts) /\ b \in Seq(Parts) /\ t \in Seq(Parts)
      /\ Len(a) \in Nat /\ Len(b) \in Nat /\ Len(t) = (Len(a) + 1) + Len(b)
      /\ Window(t, a, 0) /\ Window(t, b, Len(a) + 1)
      /\ Len(a) + 1 \in DOMAIN t /\ t[Len(a) + 1] = Space
  BY SidesWindows
<1> DEFINE n == Len(a)
           m == Len(b)
           rt == SymbolRule(t)
           ra == SymbolRule(a)
           rb == SymbolRule(b)
<1>1. /\ a \in Seq(Parts) /\ b \in Seq(Parts) /\ t \in Seq(Parts)
      /\ n \in Nat /\ m \in Nat /\ Len(t) = (n + 1) + m
      /\ Window(t, a, 0) /\ Window(t, b, n + 1)
      /\ n + 1 \in DOMAIN t /\ t[n + 1] = Space /\ Closed(a)
  BY <1>0 DEF Sides
<1>2. Edits(rt, (n + 1) + m, Parts) /\ Edits(ra, n, Parts) /\ Edits(rb, m, Parts)
  BY <1>1, SymbolPass
<1>3. \A i \in 1..n : rt[0 + i] = ra[i] /\ LastEdit(ra[i], i, a)
  BY <1>1, SymbolLocal
<1>4. \A j \in 1..m : rt[(n + 1) + j] = rb[j]
  BY <1>1, SymbolLocal
<1>5. \/ rt[n + 1] = Keep(t, n + 1)
      \/ /\ b # <<>>
         /\ \E w \in Spellings : /\ rb[1].by = <<Space, Word(w), Space>>
                                 /\ rt[n + 1].by = rb[1].by
         /\ rt[n + 1].taken = 1 + rb[1].taken
  <2>1. n = Len(a)
    OBVIOUS
  <2> HIDE DEF n
  <2> QED BY <2>1, SymbolAtJoint
<1> HIDE DEF rt, ra, rb
<1>6. Parted(rt, ra, n, rb, m)
  <2>1. \A i \in 1..n : 0 + i = i
    BY <1>1
  <2> HIDE DEF n, m
  <2> QED BY <1>1, <1>2, <1>3, <1>4, <2>1 DEF Parted
<1>7. Rewrite(ra) \in Seq(Parts) /\ Rewrite(rb) \in Seq(Parts)
  BY <1>6, RewriteAround
<1>8. Closed(Rewrite(ra))
  BY <1>1, <1>2, <1>3, LastClosing
<1>9. CASE rt[n + 1] = Keep(t, n + 1)
  <2>1. rt[n + 1].taken = 1 /\ rt[n + 1].by = <<Space>>
    BY <1>1, <1>9, EditFields
  <2>2. Around(Rewrite(rt), Rewrite(ra), Rewrite(rb))
    BY <1>6, <2>1, RewriteAround
  <2>3. Sides(Rewrite(rt), Rewrite(ra), Rewrite(rb))
    BY <1>7, <1>8, <2>2 DEF Sides, Around
  <2> QED BY <2>3 DEF Shares, rt, ra, rb
<1>10. CASE rt[n + 1] # Keep(t, n + 1)
  <2>1. PICK w \in Spellings : rb[1].by = <<Space, Word(w), Space>>
    BY <1>5, <1>10
  <2>2. rt[n + 1].taken = 1 + rb[1].taken /\ rt[n + 1].by = rb[1].by /\ m > 0
    BY <1>1, <1>5, <1>10
  <2>3. Beside(Rewrite(rt), Rewrite(ra), Rewrite(rb))
    BY <1>6, <2>2, RewriteAround
  <2>4. PICK fb : From1(fb, rb, m, Parts)
    BY <1>1, <1>2, RewriteSteps
  <2> DEFINE k == 1 + rb[1].taken
             y == fb[k]
             x == <<Word(w), Space>>
             c == x \o y
  <2>5. Rewrite(rb) = <<Space, Word(w), Space>> \o y /\ y \in Seq(Parts)
    <3>1. 1 \in 1..m /\ rb[1].taken \in 1..(m + 1 - 1)
      BY <1>1, <1>2, <2>2 DEF Edits, Sound
    <3>2. k \in 1..(m + 1)
      BY <1>1, <3>1
    <3> HIDE DEF k
    <3>3. fb[k] \in Seq(Parts)
      BY <2>4, <3>2 DEF From1
    <3>4. fb[1] = rb[1].by \o fb[k] /\ Rewrite(rb) = fb[1]
      BY <2>4, <3>1 DEF From1, k
    <3> QED BY <2>1, <3>3, <3>4
  <2>6. x \in Seq(Parts) /\ <<Space>> \in Seq(Parts) /\ <<Space, Word(w), Space>> = <<Space>> \o x
    <3>1. Space \in Parts /\ Word(w) \in Parts
      BY Kinds, SpellingsSound
    <3> QED BY <3>1
  <2> HIDE DEF x, y
  <2>7. c \in Seq(Parts) /\ Rewrite(rb) = <<Space>> \o c
    <3> DEFINE s == <<Space>>
    <3>1. s \in Seq(Parts) /\ Rewrite(rb) = (s \o x) \o y
      BY <2>5, <2>6
    <3> HIDE DEF s
    <3>2. (s \o x) \o y = s \o (x \o y) /\ x \o y \in Seq(Parts)
      BY <2>5, <2>6, <3>1, ConcatAssociative, ConcatProperties
    <3> QED BY <3>1, <3>2 DEF s
  <2> HIDE DEF c
  <2>8. Sides(Rewrite(rt), Rewrite(ra), c)
    BY <1>7, <1>8, <2>3, <2>7 DEF Sides, Beside
  <2>9. Sides(Rewrite(rb), <<>>, c)
    <3>1. Rewrite(rb) = <<>> \o Rewrite(rb)
      BY <1>7, ConcatEmptySeq
    <3>2. <<>> \in Seq(Parts) /\ Closed(<<>>)
      BY DEF Closed
    <3> QED BY <2>7, <3>1, <3>2 DEF Sides
  <2> QED BY <2>8, <2>9 DEF Shares, rt, ra, rb
<1> QED BY <1>9, <1>10

LEMMA RewriteEmpty == \A r : Edits(r, 0, Parts) => Rewrite(r) = <<>>
<1> SUFFICES ASSUME NEW r, Edits(r, 0, Parts) PROVE Rewrite(r) = <<>>
  OBVIOUS
<1>1. PICK f : From1(f, r, 0, Parts)
  BY RewriteSteps
<1> QED BY <1>1 DEF From1

LEMMA SaidApart ==
    ASSUME NEW t, NEW a, NEW b, Shares(t, a, b)
    PROVE  Spoken(t) = Spoken(a) \o Spoken(b)
<1> DEFINE s == <<Space>>
<1>0. s \in Seq(Parts) /\ Spoken(s) = <<>> /\ Spoken(<<>>) = <<>>
  BY Kinds, SpokenOne
<1>1. PICK c : Sides(t, a, c) /\ (b = c \/ Sides(b, <<>>, c))
  BY DEF Shares
<1>2. ASSUME NEW y, NEW x, Sides(y, x, c)
      PROVE  Spoken(y) = Spoken(x) \o Spoken(c) /\ Spoken(x) \in Seq(Parts) /\ Spoken(c) \in Seq(Parts)
  <2>1. x \in Seq(Parts) /\ c \in Seq(Parts) /\ y = x \o (s \o c)
    BY <1>2 DEF Sides
  <2> HIDE DEF s
  <2>2. s \o c \in Seq(Parts)
    BY <1>0, <2>1, ConcatProperties
  <2>3. Spoken(s \o c) = Spoken(s) \o Spoken(c) /\ Spoken(c) \in Seq(Parts)
    BY <1>0, <2>1, SpokenApart
  <2>4. Spoken(s \o c) = Spoken(c)
    BY <1>0, <2>3, ConcatEmptySeq
  <2> DEFINE z == s \o c
  <2>5. z \in Seq(Parts) /\ y = x \o z /\ Spoken(z) = Spoken(c)
    BY <2>1, <2>2, <2>4
  <2> HIDE DEF z
  <2>6. Spoken(x \o z) = Spoken(x) \o Spoken(z) /\ Spoken(x) \in Seq(Parts)
    BY <2>1, <2>5, SpokenApart
  <2> QED BY <2>3, <2>5, <2>6
<1>3. Spoken(t) = Spoken(a) \o Spoken(c) /\ Spoken(c) \in Seq(Parts)
  BY <1>1, <1>2
<1>4. Spoken(b) = Spoken(c)
  <2>1. CASE b = c
    BY <2>1
  <2>2. CASE Sides(b, <<>>, c)
    <3>1. Spoken(b) = Spoken(<<>>) \o Spoken(c)
      BY <1>2, <2>2
    <3> QED BY <1>0, <1>3, <3>1, ConcatEmptySeq
  <2> QED BY <1>1, <2>1, <2>2
<1> QED BY <1>3, <1>4

LEMMA SplitShares ==
    ASSUME NEW t, NEW a, NEW b, Shares(t, a, b)
    PROVE  Shares(Rewrite(SplitRule(t)), Rewrite(SplitRule(a)), Rewrite(SplitRule(b)))
<1>1. PICK c : Sides(t, a, c) /\ (b = c \/ Sides(b, <<>>, c))
  BY DEF Shares
<1>2. Sides(Rewrite(SplitRule(t)), Rewrite(SplitRule(a)), Rewrite(SplitRule(c)))
  BY <1>1, SplitSides
<1>3. Rewrite(SplitRule(<<>>)) = <<>>
  <2> DEFINE e == <<>>
  <2>1. e \in Seq(Parts) /\ Len(e) = 0
    OBVIOUS
  <2> HIDE DEF e
  <2>2. Edits(SplitRule(e), 0, Parts)
    BY <2>1, SplitPass
  <2>3. Rewrite(SplitRule(e)) = <<>>
    BY <2>2, RewriteEmpty
  <2> QED BY <2>3 DEF e
<1>4. Sides(b, <<>>, c) => Sides(Rewrite(SplitRule(b)), <<>>, Rewrite(SplitRule(c)))
  BY <1>3, SplitSides
<1> QED BY <1>1, <1>2, <1>4 DEF Shares

LEMMA NumberShares ==
    ASSUME NEW t, NEW a, NEW b, Shares(t, a, b)
    PROVE  Shares(Rewrite(NumberRule(t)), Rewrite(NumberRule(a)), Rewrite(NumberRule(b)))
<1>1. PICK c : Sides(t, a, c) /\ (b = c \/ Sides(b, <<>>, c))
  BY DEF Shares
<1>2. Sides(Rewrite(NumberRule(t)), Rewrite(NumberRule(a)), Rewrite(NumberRule(c)))
  BY <1>1, NumberSides
<1>3. Rewrite(NumberRule(<<>>)) = <<>>
  <2> DEFINE e == <<>>
  <2>1. e \in Seq(Parts) /\ Len(e) = 0
    OBVIOUS
  <2> HIDE DEF e
  <2>2. Edits(NumberRule(e), 0, Parts)
    BY <2>1, NumberPass, WiderEdits
  <2>3. Rewrite(NumberRule(e)) = <<>>
    BY <2>2, RewriteEmpty
  <2> QED BY <2>3 DEF e
<1>4. Sides(b, <<>>, c) => Sides(Rewrite(NumberRule(b)), <<>>, Rewrite(NumberRule(c)))
  BY <1>3, NumberSides
<1> QED BY <1>1, <1>2, <1>4 DEF Shares

LEMMA CompoundShares ==
    ASSUME NEW t, NEW a, NEW b, Shares(t, a, b)
    PROVE  Shares(Rewrite(CompoundRule(t)), Rewrite(CompoundRule(a)), Rewrite(CompoundRule(b)))
<1>1. PICK c : Sides(t, a, c) /\ (b = c \/ Sides(b, <<>>, c))
  BY DEF Shares
<1>2. Sides(Rewrite(CompoundRule(t)), Rewrite(CompoundRule(a)), Rewrite(CompoundRule(c)))
  BY <1>1, CompoundSides
<1>3. Rewrite(CompoundRule(<<>>)) = <<>>
  <2> DEFINE e == <<>>
  <2>1. e \in Seq(Parts) /\ Len(e) = 0
    OBVIOUS
  <2> HIDE DEF e
  <2>2. Edits(CompoundRule(e), 0, Parts)
    BY <2>1, CompoundEdits
  <2>3. Rewrite(CompoundRule(e)) = <<>>
    BY <2>2, RewriteEmpty
  <2> QED BY <2>3 DEF e
<1>4. Sides(b, <<>>, c) => Sides(Rewrite(CompoundRule(b)), <<>>, Rewrite(CompoundRule(c)))
  BY <1>3, CompoundSides
<1> QED BY <1>1, <1>2, <1>4 DEF Shares

------------------------------------------------------------------------------
(* What is said of a text of two. *)

LEMMA SharesType ==
    ASSUME NEW t, NEW a, NEW b, Shares(t, a, b)
    PROVE  t \in Seq(Parts) /\ a \in Seq(Parts) /\ b \in Seq(Parts)
<1>1. PICK c : Sides(t, a, c) /\ (b = c \/ Sides(b, <<>>, c))
  BY DEF Shares
<1>2. t \in Seq(Parts) /\ a \in Seq(Parts) /\ c \in Seq(Parts)
  BY <1>1, SidesWindows
<1>3. Sides(b, <<>>, c) => b \in Seq(Parts)
  BY SidesWindows
<1> QED BY <1>1, <1>2, <1>3

LEMMA SaidTidied ==
    ASSUME NEW x \in Seq(Parts)
    PROVE  Spoken(Tidied(x)) = Spoken(Rewrite(CompoundRule(x)))
<1> DEFINE y == Rewrite(CompoundRule(x))
           z == Rewrite(SpaceRule(y))
<1>1. y \in Seq(Parts)
  <2>1. Edits(CompoundRule(x), Len(x), Parts)
    BY CompoundEdits
  <2>2. PICK f : From1(f, CompoundRule(x), Len(x), Parts)
    BY <2>1, RewriteSteps
  <2>3. Len(x) \in Nat
    OBVIOUS
  <2>4. 1 \in 1..(Len(x) + 1)
    BY <2>3
  <2> QED BY <2>2, <2>4 DEF From1
<1>2. Tidied(x) = Strip(z)
  BY DEF Tidied
<1> HIDE DEF y
<1>3. z \in Seq(Parts) /\ Spoken(z) = Spoken(y)
  BY <1>1, SpokenTidy
<1> HIDE DEF z
<1>4. Spoken(Strip(z)) = Spoken(z)
  BY <1>3, SpokenStrip
<1> QED BY <1>2, <1>3, <1>4 DEF y

\* Two texts with a space between, the first ended as a sentence is, are normalized
\* each as it is alone.
LEMMA NormalizeApart ==
    ASSUME NEW u, NEW a, NEW w, Sides(Strip(u), Strip(a), Strip(w))
    PROVE  Spoken(Normalize(u)) = Spoken(Normalize(a)) \o Spoken(Normalize(w))
<1>1. Sides(Words(u), Words(a), Words(w))
  BY AbbreviationSides DEF Words
<1>2. ASSUME NEW t, NEW s, NEW r, Sides(t, s, r)
      PROVE  Sides(Amounts(t), Amounts(s), Amounts(r))
  BY <1>2, CurrencySides, DateSides, TimeSides DEF Amounts
<1>3. ASSUME NEW t, NEW s, NEW r, Sides(t, s, r)
      PROVE  Sides(Quantities(t), Quantities(s), Quantities(r))
  BY <1>3, UnitSides, OrdinalSides DEF Quantities
<1>4. ASSUME NEW t, NEW s, NEW r, Sides(t, s, r)
      PROVE  Shares(Numbers(t), Numbers(s), Numbers(r))
  BY <1>4, SymbolShares, SplitShares, NumberShares DEF Numbers
<1>5. ASSUME NEW t, NEW s, NEW r, Shares(t, s, r)
      PROVE  Spoken(Tidied(t)) = Spoken(Tidied(s)) \o Spoken(Tidied(r))
  <2>1. Shares(Rewrite(CompoundRule(t)), Rewrite(CompoundRule(s)), Rewrite(CompoundRule(r)))
    BY <1>5, CompoundShares
  <2>2. Spoken(Rewrite(CompoundRule(t)))
          = Spoken(Rewrite(CompoundRule(s))) \o Spoken(Rewrite(CompoundRule(r)))
    BY <2>1, SaidApart
  <2>3. t \in Seq(Parts) /\ s \in Seq(Parts) /\ r \in Seq(Parts)
    BY <1>5, SharesType
  <2> QED BY <2>2, <2>3, SaidTidied
<1>6. Shares(Numbers(Quantities(Amounts(Words(u)))), Numbers(Quantities(Amounts(Words(a)))),
             Numbers(Quantities(Amounts(Words(w)))))
  BY <1>1, <1>2, <1>3, <1>4
<1> QED BY <1>5, <1>6 DEF Normalize

------------------------------------------------------------------------------
(* A text that is cut is a text of two. *)

\* What begins and ends in no space is all that is left of it, and of a space more.
LEMMA StripFull ==
    ASSUME NEW w \in Texts, w # <<>>, w[1] # Space, Last(w) # Space
    PROVE  Strip(w) = w /\ Strip(<<Space>> \o w) = w
<1> DEFINE n == Len(w)
           s == <<Space>>
           t == s \o w
<1>1. w \in Seq(Lexemes) /\ n \in Nat \ {0} /\ Last(w) = w[n] /\ 1 \in 1..n /\ n \in 1..n
  <2>1. w \in Seq(Lexemes)
    BY DEF Texts
  <2>2. Len(w) \in Nat \ {0} /\ Last(w) = w[Len(w)]
    BY <2>1, EndsType
  <2> QED BY <2>1, <2>2
<1>2. Strip(w) = w
  <2>1. 1 \in NonSpaces(w) /\ n \in NonSpaces(w) /\ \A i \in NonSpaces(w) : 1 <= i /\ i <= n
    BY <1>1 DEF NonSpaces
  <2>2. Strip(w) = SubSeq(w, 1, n)
    BY <2>1, StripIs
  <2> QED BY <1>1, <2>2, SubSeqFull
<1>3. /\ t \in Seq(Lexemes) /\ Len(t) = 1 + n /\ t[1] = Space
      /\ \A i \in 1..n : t[1 + i] = w[i]
  <2>1. s \in Seq(Lexemes) /\ Len(s) = 1 /\ s[1] = Space
    BY SpaceIsLexeme
  <2> HIDE DEF s
  <2>2. t \in Seq(Lexemes) /\ Joins(t, s, Len(s), w, n)
    BY <1>1, <2>1, Joined
  <2> HIDE DEF t, n
  <2>3. 1 \in 1..1
    OBVIOUS
  <2> QED BY <2>1, <2>2, <2>3 DEF Joins
<1> HIDE DEF n, t
<1>4. /\ 2 \in NonSpaces(t) /\ n + 1 \in NonSpaces(t)
      /\ \A i \in NonSpaces(t) : 2 <= i /\ i <= n + 1
  <2>1. 1 + 1 = 2 /\ 1 + n = n + 1 /\ 2 \in 1..Len(t) /\ n + 1 \in 1..Len(t)
    BY <1>1, <1>3
  <2>2. t[2] = w[1] /\ t[n + 1] = w[n]
    <3>1. t[1 + 1] = w[1] /\ t[1 + n] = w[n]
      BY <1>1, <1>3
    <3> QED BY <2>1, <3>1
  <2>3. 2 \in NonSpaces(t) /\ n + 1 \in NonSpaces(t)
    BY <1>1, <2>1, <2>2 DEF NonSpaces
  <2>4. \A i \in NonSpaces(t) : i \in 1..(1 + n) /\ i # 1
    BY <1>3 DEF NonSpaces
  <2> QED BY <1>1, <2>3, <2>4
<1>5. Strip(t) = SubSeq(t, 2, n + 1)
  BY <1>3, <1>4, StripIs DEF Texts
<1>6. SubSeq(t, 2, n + 1) = w
  <2> DEFINE r == SubSeq(t, 2, n + 1)
  <2>1. \A i \in 2..(n + 1) : i \in 1..Len(t)
    BY <1>1, <1>3
  <2>2. /\ r \in Seq(Lexemes) /\ Len(r) = (IF 2 <= n + 1 THEN (n + 1) - 2 + 1 ELSE 0)
        /\ \A i \in 1..((n + 1) - 2 + 1) : r[i] = t[2 + i - 1]
    <3>1. \A i \in 2..(n + 1) : t[i] \in Lexemes
      BY <1>3, <2>1, ElementOfSeq
    <3>2. 2 \in 1..(Len(t) + 1) /\ n + 1 \in 1..Len(t)
      BY <1>1, <1>3
    <3> QED BY <1>3, <3>1, <3>2, SubSeqProperties
  <2> HIDE DEF r
  <2>3. Len(r) = n /\ (n + 1) - 2 + 1 = n
    BY <1>1, <2>2
  <2>4. \A i \in 1..n : r[i] = w[i]
    <3>1. \A i \in 1..n : 2 + i - 1 = 1 + i
      BY <1>1
    <3> QED BY <1>3, <2>2, <2>3, <3>1
  <2>5. r = w
    BY <1>1, <2>2, <2>3, <2>4, SeqEqual DEF n
  <2> QED BY <2>5 DEF r
<1> QED BY <1>2, <1>5, <1>6 DEF t

LEMMA StripLast ==
    ASSUME NEW c \in Texts, c # <<>>, Last(c) # Space
    PROVE  Strip(c) \in Texts /\ Strip(c) # <<>> /\ Last(Strip(c)) = Last(c)
<1> DEFINE n == Len(c)
<1>1. c \in Seq(Lexemes) /\ n \in Nat \ {0} /\ Last(c) = c[n]
  <2>1. c \in Seq(Lexemes)
    BY DEF Texts
  <2>2. Len(c) \in Nat \ {0} /\ Last(c) = c[Len(c)]
    BY <2>1, EndsType
  <2> QED BY <2>1, <2>2
<1>2. n \in NonSpaces(c) /\ NonSpaces(c) \subseteq 1..n
  BY <1>1 DEF NonSpaces
<1>3. PICK a, b \in NonSpaces(c) :
        (\A i \in NonSpaces(c) : a <= i /\ i <= b) /\ Strip(c) = SubSeq(c, a, b)
  BY <1>2, StripShape
<1>4. b = n /\ a \in 1..n
  <2> HIDE DEF n
  <2> QED BY <1>1, <1>2, <1>3
<1> DEFINE r == SubSeq(c, a, n)
<1>5. /\ r \in Seq(Lexemes) /\ Len(r) = n - a + 1
      /\ \A i \in 1..(n - a + 1) : r[i] = c[a + i - 1]
  BY <1>1, <1>4, SubSeqProperties
<1> HIDE DEF r, n
<1>6. n - a + 1 \in 1..(n - a + 1) /\ a + (n - a + 1) - 1 = n
  BY <1>1, <1>4
<1>7. r # <<>> /\ r[Len(r)] = c[n]
  <2>1. r[n - a + 1] = c[n]
    <3> DEFINE k == n - a + 1
    <3>1. k \in 1..(n - a + 1) /\ a + k - 1 = n
      BY <1>6
    <3> HIDE DEF k
    <3>2. r[k] = c[a + k - 1]
      BY <1>5, <3>1
    <3> QED BY <3>1, <3>2 DEF k
  <2>2. r # <<>>
    BY <1>1, <1>4, <1>5
  <2> QED BY <1>5, <2>1, <2>2
<1>8. Last(r) = r[Len(r)]
  BY <1>5, <1>7, EndsType
<1> QED BY <1>1, <1>3, <1>4, <1>5, <1>7, <1>8 DEF r, n, Texts

\* Where a piece begins, a space has been read after the end of a sentence.
LEMMA OpenEnds ==
    ASSUME NEW b \in Texts, b # <<>>, b # <<Space>>, Open(b), Single(b)
    PROVE  \E c \in Texts : /\ b = Append(c, Space) /\ c # <<>> /\ Last(c) # Space
                            /\ \E m \in Terminators : Last(c) = Mark(m)
<1>1. PICK c \in Texts, x \in Lexemes : b = Append(c, x)
  BY SequenceEmptyOrAppend DEF Texts
<1> DEFINE P == Pieces(c)
<1>2. P \in Clauses /\ Last(Read(P, x)) = <<>>
  BY <1>1, PiecesAppend, PiecesType DEF Open
<1> HIDE DEF P
<1>3. x = Space /\ (P = <<>> \/ Terminated(Last(P)))
  <2> SUFFICES ASSUME ~(x = Space /\ (P = <<>> \/ Terminated(Last(P)))) PROVE FALSE
    OBVIOUS
  <2>1. CASE P = <<>>
    <3>1. Read(P, x) = <<<<x>>>>
      BY <2>1 DEF Read
    <3>2. Last(<<<<x>>>>) = <<x>> /\ <<x>> # <<>>
      BY DEF Last
    <3> QED BY <1>2, <3>1, <3>2
  <2>2. CASE P # <<>>
    <3> DEFINE q == Front(P)
               p == Last(P)
               l == Append(p, x)
    <3>1. Read(P, x) = Append(q, l)
      BY <2>2 DEF Read
    <3>2. q \in Seq(Texts) /\ p \in Seq(Lexemes)
      BY <1>2, <2>2, PartsOf DEF Clauses, Texts
    <3> HIDE DEF q, p
    <3>3. l \in Texts /\ l # <<>>
      BY <3>2, Ends2 DEF Texts
    <3> HIDE DEF l
    <3>4. Last(Append(q, l)) = l
      BY <3>2, <3>3, Ends2
    <3> QED BY <1>2, <3>1, <3>3, <3>4
  <2> QED BY <2>1, <2>2
<1>4. c # <<>>
  <2>1. Append(<<>>, Space) = <<Space>>
    OBVIOUS
  <2> QED BY <1>1, <1>3, <2>1
<1>5. Last(c) # Space
  <2> DEFINE z == <<Space>>
  <2>1. z \in Texts /\ z # <<>> /\ z[1] = Space
    BY SpaceIsLexeme
  <2>2. Append(c, Space) = c \o z
    BY SpaceIsLexeme, AppendIsConcat DEF Texts
  <2> HIDE DEF z
  <2>3. Single(c \o z)
    BY <1>1, <1>3, <2>2
  <2> QED BY <1>4, <2>1, <2>3, SingleParts
<1>6. P # <<>> /\ Last(Last(P)) = Last(c)
  BY <1>4, <1>5, LastPiece DEF P
<1>7. Terminated(Last(P))
  BY <1>3, <1>6
<1>8. \E m \in Terminators : Last(c) = Mark(m)
  BY <1>6, <1>7 DEF Terminated
<1> QED BY <1>1, <1>3, <1>4, <1>5, <1>8

\* The clauses but the last are said apart from the last.
LEMMA CutSides ==
    ASSUME NEW n, NEW u, NEW b, NEW w, NEW e, Cuts(u, n, b, w, e), Single(b)
    PROVE  \/ b \in {<<>>, <<Space>>} /\ Strip(u) = Strip(w)
           \/ Sides(Strip(u), Strip(b), Strip(w))
<1> DEFINE v == b \o w
           s == <<Space>>
<1>1. /\ u = v \o e /\ b \in Seq(Lexemes) /\ w \in Seq(Lexemes) /\ b \in Texts /\ w \in Texts
      /\ e \in {<<>>, s} /\ w # <<>> /\ w[1] # Space /\ Last(w) # Space /\ Open(b)
  BY DEF Cuts, Texts
<1>2. v \in Seq(Lexemes) /\ s \in Seq(Lexemes) /\ Space \in Lexemes
  BY <1>1, ConcatProperties, SpaceIsLexeme DEF Texts
<1>3. Strip(w) = w /\ Strip(s \o w) = w
  BY <1>1, StripFull
<1>4. Strip(u) = Strip(v)
  <2> HIDE DEF v
  <2>1. v \o <<>> = v /\ v \o s = Append(v, Space)
    BY <1>2, ConcatEmptySeq, AppendIsConcat
  <2>2. Strip(Append(v, Space)) = Strip(v)
    BY <1>2, StripSpace DEF Texts
  <2> QED BY <1>1, <2>1, <2>2
<1>5. CASE b = <<>>
  <2>1. v = w
    BY <1>1, <1>5, ConcatEmptySeq
  <2> QED BY <1>4, <1>5, <2>1
<1>6. CASE b = s
  BY <1>3, <1>4, <1>6
<1>7. CASE b # <<>> /\ b # s
  <2>1. PICK c \in Texts : /\ b = Append(c, Space) /\ c # <<>> /\ Last(c) # Space
                           /\ \E m \in Terminators : Last(c) = Mark(m)
    BY <1>1, <1>7, OpenEnds
  <2> DEFINE z == s \o w
  <2>2. c \in Seq(Lexemes) /\ b = c \o s
    BY <2>1, <1>2, AppendIsConcat DEF Texts
  <2>3. v = c \o z
    <3> HIDE DEF s
    <3> QED BY <1>1, <1>2, <2>2, ConcatAssociative
  <2>4. z \in Seq(Lexemes) /\ z # <<>> /\ Last(z) # Space
    <3> HIDE DEF s
    <3>1. s \o w \in Seq(Lexemes) /\ s \o w # <<>> /\ Last(s \o w) = Last(w)
      BY <1>1, <1>2, PutTogether
    <3> QED BY <1>1, <3>1
  <2> HIDE DEF z
  <2>5. Strip(v) = Strip(c) \o z
    BY <2>1, <2>3, <2>4, StripGrows DEF Texts
  <2>6. Strip(b) = Strip(c)
    BY <2>1, StripSpace
  <2> DEFINE a == Strip(c)
  <2>7. a \in Seq(Lexemes) /\ a # <<>> /\ Last(a) = Last(c)
    BY <2>1, StripLast DEF Texts
  <2> HIDE DEF a
  <2>8. Closed(a)
    <3>1. Last(a) = a[Len(a)]
      BY <2>7, EndsType
    <3>2. PICK m \in Terminators : Last(c) = Mark(m)
      BY <2>1
    <3>3. Closing(Mark(m))
      BY DEF Closing, IsDigits, Mark
    <3> QED BY <2>7, <3>1, <3>2, <3>3 DEF Closed
  <2>9. a \in Seq(Parts) /\ w \in Seq(Parts)
    BY <1>1, <2>7, Kinds, SeqMonotonic
  <2>10. Sides(Strip(v), a, w)
    BY <2>5, <2>8, <2>9 DEF Sides, a, z
  <2> QED BY <1>3, <1>4, <2>6, <2>10 DEF a
<1> QED BY <1>5, <1>6, <1>7

------------------------------------------------------------------------------
(* What the clauses say, one after the other. *)

LEMMA FlattenAppend ==
    ASSUME NEW X, NEW seqs \in Seq(Seq(X)), NEW s \in Seq(X)
    PROVE  /\ FlattenSeq(<<>>) = <<>> /\ FlattenSeq(seqs) \in Seq(X)
           /\ FlattenSeq(Append(seqs, s)) = FlattenSeq(seqs) \o s
<1> DEFINE more == Append(seqs, s)
           N == Len(seqs)
<1>1. FlattenSeq(<<>>) = <<>>
  BY DEF FlattenSeq
<1>2. /\ more \in Seq(Seq(X)) /\ more # <<>> /\ N \in Nat /\ Len(more) = N + 1
      /\ more[N + 1] = s /\ \A i \in 1..N : more[i] = seqs[i]
  <2>1. more \in Seq(Seq(X)) /\ Len(more) = N + 1 /\ N \in Nat /\ more[N + 1] = s
        /\ \A i \in 1..N : more[i] = seqs[i]
    BY AppendProperties
  <2>2. more # <<>>
    <3> HIDE DEF more, N
    <3> QED BY <2>1
  <2> QED BY <2>1, <2>2
<1> HIDE DEF more
<1>3. PICK g : FlattenSeq(more) = g[Len(more)] /\ Concats(g, more, Len(more))
  BY <1>2, FlattenSteps
<1>4. CASE seqs = <<>>
  <2>1. N = 0
    BY <1>4
  <2>2. FlattenSeq(more) = s
    <3> HIDE DEF N
    <3> QED BY <1>2, <1>3, <2>1 DEF Concats
  <2>3. <<>> \o s = s /\ <<>> \in Seq(X)
    BY ConcatEmptySeq
  <2> QED BY <1>1, <1>4, <2>2, <2>3 DEF more
<1>5. CASE seqs # <<>>
  <2>1. PICK f : FlattenSeq(seqs) = f[N] /\ Concats(f, seqs, N)
    BY <1>5, FlattenSteps
  <2>2. N \in Nat \ {0} /\ FlattenSeq(seqs) \in Seq(X)
    BY <1>5, Flattened
  <2> HIDE DEF N
  <2>3. /\ f[1] = seqs[1] /\ \A i \in 2..N : f[i] = f[i - 1] \o seqs[i]
        /\ g[1] = more[1] /\ \A i \in 2..(N + 1) : g[i] = g[i - 1] \o more[i]
    BY <1>2, <1>3, <2>1 DEF Concats
  <2> DEFINE T == {i \in Nat : i + 1 <= N => g[i + 1] = f[i + 1]}
  <2>4. \A i \in Nat : i \in T <=> (i + 1 <= N => g[i + 1] = f[i + 1])
    OBVIOUS
  <2> HIDE DEF T
  <2>5. 0 \in T
    <3>1. 1 \in 1..N
      BY <2>2
    <3> QED BY <1>2, <2>3, <2>4, <3>1
  <2>6. ASSUME NEW i \in Nat, i \in T PROVE i + 1 \in T
    <3> DEFINE k == (i + 1) + 1
    <3> SUFFICES ASSUME k <= N PROVE g[k] = f[k]
      BY <2>4
    <3>1. k \in 2..N /\ k \in 2..(N + 1) /\ k \in 1..N /\ k - 1 = i + 1
      BY <2>2
    <3>2. g[i + 1] = f[i + 1]
      BY <2>2, <2>4, <2>6
    <3> HIDE DEF k
    <3>3. f[k] = f[i + 1] \o seqs[k] /\ g[k] = g[i + 1] \o more[k] /\ more[k] = seqs[k]
      BY <1>2, <2>3, <3>1
    <3> QED BY <3>2, <3>3
  <2>7. g[N] = f[N]
    <3>1. Nat \subseteq T
      BY <2>5, <2>6, CountingUp
    <3>2. N - 1 \in Nat /\ (N - 1) + 1 = N
      BY <2>2
    <3>3. N - 1 \in T
      BY <3>1, <3>2
    <3> QED BY <2>4, <3>2, <3>3
  <2>8. g[N + 1] = g[N] \o more[N + 1]
    <3> DEFINE k == N + 1
    <3>1. k \in 2..(N + 1) /\ k - 1 = N
      BY <2>2
    <3> HIDE DEF k
    <3>2. g[k] = g[N] \o more[k]
      BY <2>3, <3>1
    <3> QED BY <3>2 DEF k
  <2> QED BY <1>1, <1>2, <1>3, <2>1, <2>2, <2>7, <2>8 DEF more
<1> QED BY <1>4, <1>5

LEMMA SpeechAppend ==
    ASSUME NEW cs \in Clauses, NEW c \in Texts
    PROVE  /\ Speech(<<>>) = <<>> /\ Speech(cs) \in Seq(Sounds)
           /\ Speech(Append(cs, c)) = Speech(cs) \o Normalize(c)
<1> DEFINE Each(x) == [k \in 1..Len(x) |-> Normalize(x[k])]
           more == Append(cs, c)
           N == Len(cs)
<1>1. /\ N \in Nat /\ Len(more) = N + 1 /\ more[N + 1] = c
      /\ (\A i \in 1..N : more[i] = cs[i] /\ cs[i] \in Texts)
  BY AppendProperties, LenProperties, ElementOfSeq DEF Clauses
<1> HIDE DEF more
<1>2. Normalize(c) \in Seq(Sounds) /\ \A i \in 1..N : Normalize(cs[i]) \in Seq(Sounds)
  BY <1>1, NormalizeLeavesNoDigits
<1> DEFINE d == Normalize(c)
           D(i) == Normalize(cs[i])
           a == Each(cs)
           b == Each(more)
<1>3. a \in Seq(Seq(Sounds)) /\ Len(a) = N
  <2> HIDE DEF N
  <2>1. Each(cs) = [k \in 1..N |-> D(k)]
    BY DEF N
  <2>2. Each(cs) \in [1..N -> Seq(Sounds)]
    BY <1>2, <2>1
  <2> HIDE DEF a
  <2>3. a \in [1..N -> Seq(Sounds)]
    BY <2>2 DEF a
  <2>4. a \in Seq(Seq(Sounds))
    BY <1>1, <2>3, SeqDef
  <2>5. DOMAIN a = 1..Len(a) /\ Len(a) \in Nat
    BY <2>4, LenProperties
  <2>6. Len(a) = N
    BY <1>1, <2>3, <2>5
  <2> QED BY <2>4, <2>6
<1>4. b = Append(a, d)
  <2>1. /\ Append(a, d) \in Seq(Seq(Sounds)) /\ Len(Append(a, d)) = N + 1
        /\ Append(a, d)[N + 1] = d /\ \A i \in 1..N : Append(a, d)[i] = a[i]
    <3> HIDE DEF a, d, N
    <3>0. d \in Seq(Sounds)
      BY <1>2 DEF d
    <3> QED BY <1>3, <3>0, AppendProperties
  <2>2. \A i \in 1..N : a[i] = D(i) /\ b[i] = D(i)
    <3>1. \A i \in 1..N : i \in 1..Len(more) /\ i \in 1..Len(cs)
      BY <1>1
    <3> QED BY <1>1, <3>1
  <2>3. b[N + 1] = d
    <3>1. N + 1 \in 1..Len(more)
      BY <1>1
    <3> QED BY <1>1, <3>1
  <2>4. DOMAIN b = 1..(N + 1)
    BY <1>1
  <2> DEFINE m == Append(a, d)
  <2>5. b = [i \in 1..(N + 1) |-> b[i]]
    BY <1>1
  <2> HIDE DEF b, d, a, D, N
  <2>6. DOMAIN m = 1..(N + 1)
    BY <2>1, LenProperties
  <2>7. m = [i \in 1..(N + 1) |-> m[i]]
    <3>1. m \in [1..(N + 1) -> Seq(Sounds)]
      BY <2>1, LenProperties
    <3> HIDE DEF m
    <3> QED BY <3>1
  <2>8. \A i \in 1..(N + 1) : m[i] = b[i]
    <3>1. \A i \in 1..(N + 1) : i \in 1..N \/ i = N + 1
      BY <1>1
    <3> QED BY <2>1, <2>2, <2>3, <3>1
  <2> HIDE DEF m
  <2>9. b = m
    BY <2>5, <2>7, <2>8
  <2> QED BY <2>9 DEF m
<1>5. Speech(cs) = FlattenSeq(a) /\ Speech(more) = FlattenSeq(b)
  BY DEF Speech
<1>6. Speech(<<>>) = <<>>
  <2>1. [k \in 1..Len(<<>>) |-> Normalize(<<>>[k])] = <<>>
    OBVIOUS
  <2>2. FlattenSeq(<<>>) = <<>>
    BY DEF FlattenSeq
  <2> QED BY <2>1, <2>2 DEF Speech
<1> HIDE DEF a, b, d
<1>7. d \in Seq(Sounds)
  BY <1>2 DEF d
<1>8. FlattenSeq(a) \in Seq(Sounds) /\ FlattenSeq(Append(a, d)) = FlattenSeq(a) \o d
  BY <1>3, <1>7, FlattenAppend
<1> QED BY <1>4, <1>5, <1>6, <1>8 DEF d, more

------------------------------------------------------------------------------
(* Nothing of the text is lost. *)

\* What clauses hold between them, but for spaces.
Solid(cs) == Spoken(FlattenSeq(cs))

\* Three texts, put together one way or the other.
LEMMA Regrouped ==
    ASSUME NEW a \in Texts, NEW b \in Texts, NEW c \in Texts
    PROVE  (a \o b) \o c = a \o (b \o c)
BY ConcatAssociative DEF Texts

LEMMA SolidAppend ==
    ASSUME NEW cs \in Clauses, NEW c \in Texts
    PROVE  /\ Solid(<<>>) = <<>> /\ Solid(cs) \in Texts /\ Spoken(c) \in Texts
           /\ FlattenSeq(cs) \in Texts
           /\ Append(cs, c) \in Clauses /\ Solid(Append(cs, c)) = Solid(cs) \o Spoken(c)
<1>1. /\ FlattenSeq(<<>>) = <<>> /\ FlattenSeq(cs) \in Texts
      /\ FlattenSeq(Append(cs, c)) = FlattenSeq(cs) \o c
  BY FlattenAppend DEF Texts, Clauses
<1>2. Spoken(<<>>) = <<>>
  BY SpokenOne, SpaceIsLexeme
<1>3. /\ Spoken(FlattenSeq(cs)) \in Texts /\ Spoken(c) \in Texts
      /\ Spoken(FlattenSeq(cs) \o c) = Spoken(FlattenSeq(cs)) \o Spoken(c)
  BY <1>1, SpokenApart DEF Texts
<1>4. Append(cs, c) \in Clauses
  BY AppendProperties DEF Clauses
<1> QED BY <1>1, <1>2, <1>3, <1>4 DEF Solid

\* With the last clause replaced.
LEMMA SolidLast ==
    ASSUME NEW cs \in Clauses, cs # <<>>, NEW c \in Texts, NEW x \in Texts,
           Spoken(c) = Spoken(Last(cs)) \o x
    PROVE  /\ Last(cs) \in Texts /\ Front(cs) \in Clauses
           /\ Solid(cs) = Solid(Front(cs)) \o Spoken(Last(cs))
           /\ Solid(Append(Front(cs), c)) = Solid(cs) \o x
<1>1. Last(cs) \in Texts /\ Front(cs) \in Clauses
  BY EndsType DEF Clauses
<1>2. cs = Append(Front(cs), Last(cs))
  <2>1. PICK r \in Clauses, y \in Texts : cs = Append(r, y)
    BY SequenceEmptyOrAppend DEF Clauses
  <2>2. Last(Append(r, y)) = y /\ Front(Append(r, y)) = r
    BY Ends2 DEF Clauses
  <2> QED BY <2>1, <2>2
<1>3. Solid(cs) = Solid(Front(cs)) \o Spoken(Last(cs))
  BY <1>1, <1>2, SolidAppend
<1>4. /\ Solid(Append(Front(cs), c)) = Solid(Front(cs)) \o Spoken(c)
      /\ Solid(Front(cs)) \in Texts /\ Spoken(Last(cs)) \in Texts
  BY <1>1, SolidAppend
<1>5. Solid(Front(cs)) \o (Spoken(Last(cs)) \o x) = (Solid(Front(cs)) \o Spoken(Last(cs))) \o x
  BY <1>4, Regrouped
<1> QED BY <1>1, <1>3, <1>4, <1>5

LEMMA ReadSolid ==
    ASSUME NEW ps \in Clauses, NEW x \in Lexemes
    PROVE  Solid(Read(ps, x)) = Solid(ps) \o Spoken(<<x>>)
<1>0. /\ <<x>> \in Texts /\ <<>> \in Texts /\ <<>> \in Clauses
      /\ Spoken(<<x>>) \in Texts /\ Solid(<<>>) = <<>> /\ Spoken(<<>>) = <<>>
  <2>1. <<x>> \in Texts /\ <<>> \in Texts /\ <<>> \in Clauses
    BY DEF Texts, Clauses
  <2> QED BY <2>1, SolidAppend, SpokenOne
<1>1. CASE x = Space /\ (ps = <<>> \/ Terminated(Last(ps)))
  <2>1. Read(ps, x) = Append(ps, <<>>)
    BY <1>1 DEF Read
  <2>2. Spoken(<<x>>) = <<>>
    BY <1>1, SpokenOne
  <2> QED BY <1>0, <2>1, <2>2, SolidAppend
<1>2. CASE ~(x = Space /\ (ps = <<>> \/ Terminated(Last(ps)))) /\ ps = <<>>
  <2>1. Read(ps, x) = <<<<x>>>>
    BY <1>2 DEF Read
  <2>2. <<<<x>>>> = Append(<<>>, <<x>>)
    OBVIOUS
  <2> DEFINE c == <<x>>
  <2>3. Solid(Append(<<>>, c)) = Solid(<<>>) \o Spoken(c)
    BY <1>0, SolidAppend
  <2> QED BY <1>2, <2>1, <2>2, <2>3, Zenon
<1>3. CASE ~(x = Space /\ (ps = <<>> \/ Terminated(Last(ps)))) /\ ps # <<>>
  <2>1. Read(ps, x) = Append(Front(ps), Append(Last(ps), x))
    BY <1>3 DEF Read
  <2> DEFINE l == Last(ps)
  <2>2. l \in Texts
    BY <1>3, EndsType DEF Clauses
  <2>3. Append(l, x) = l \o <<x>> /\ Append(l, x) \in Texts
    BY <2>2, AppendIsConcat, AppendProperties DEF Texts
  <2>4. Spoken(Append(l, x)) = Spoken(l) \o Spoken(<<x>>)
    BY <1>0, <2>2, <2>3, SpokenApart, ZenonT(30) DEF Texts
  <2> DEFINE c == Append(l, x)
             y == Spoken(<<x>>)
  <2>5. c \in Texts /\ y \in Texts /\ Spoken(c) = Spoken(Last(ps)) \o y /\ ps # <<>>
    BY <1>0, <1>3, <2>3, <2>4
  <2>6. Read(ps, x) = Append(Front(ps), c)
    BY <2>1
  <2> HIDE DEF c
  <2>7. Solid(Append(Front(ps), c)) = Solid(ps) \o y
    <3> HIDE DEF y
    <3> QED BY <2>5, SolidLast
  <2> QED BY <2>6, <2>7
<1> QED BY <1>1, <1>2, <1>3

LEMMA KeptSolid ==
    ASSUME NEW cs \in Clauses, NEW c \in Texts
    PROVE  Solid(Kept(cs, c)) = Solid(cs) \o Spoken(c)
<1>1. Spoken(Strip(c)) = Spoken(c) /\ Strip(c) \in Texts
  BY SpokenStrip, StripType DEF Texts
<1>2. CASE Strip(c) = <<>>
  <2>1. Spoken(c) = <<>>
    BY <1>1, <1>2, SpokenOne, SpaceIsLexeme
  <2>2. Solid(cs) \o <<>> = Solid(cs)
    BY SolidAppend, ConcatEmptySeq DEF Texts
  <2> QED BY <1>2, <2>1, <2>2 DEF Kept
<1>3. CASE Strip(c) # <<>>
  BY <1>1, <1>3, SolidAppend DEF Kept
<1> QED BY <1>2, <1>3

LEMMA GluedSolid ==
    ASSUME NEW cs \in Clauses, NEW c \in Texts, NEW n
    PROVE  Solid(Glued(cs, c, n)) = Solid(cs) \o Spoken(c)
<1>1. CASE cs # <<>> /\ Len(Last(cs)) < n
  <2> DEFINE l == Last(cs)
             s == <<Space>>
  <2>1. Glued(cs, c, n) = Append(Front(cs), l \o s \o c)
    BY <1>1 DEF Glued
  <2>2. l \in Texts /\ s \in Texts /\ Spoken(s) = <<>> /\ Spoken(c) \in Texts
    BY <1>1, EndsType, SpaceIsLexeme, SpokenOne, SolidAppend DEF Clauses
  <2> HIDE DEF l, s
  <2>3. l \o s \in Texts /\ (l \o s) \o c \in Texts
    BY <2>2, ConcatProperties DEF Texts
  <2>4. /\ Spoken((l \o s) \o c) = Spoken(l \o s) \o Spoken(c)
        /\ Spoken(l \o s) = Spoken(l) \o Spoken(s) /\ Spoken(l) \in Texts
    BY <2>2, <2>3, SpokenApart DEF Texts
  <2>5. Spoken(l) \o <<>> = Spoken(l)
    BY <2>4, ConcatEmptySeq DEF Texts
  <2>6. Spoken((l \o s) \o c) = Spoken(l) \o Spoken(c)
    BY <2>2, <2>4, <2>5
  <2>7. Solid(Append(Front(cs), (l \o s) \o c)) = Solid(cs) \o Spoken(c)
    BY <1>1, <2>2, <2>3, <2>6, SolidLast DEF l
  <2> QED BY <2>1, <2>7
<1>2. CASE ~(cs # <<>> /\ Len(Last(cs)) < n)
  BY <1>2, SolidAppend DEF Glued
<1> QED BY <1>1, <1>2

\* The pieces of a text hold what it holds.
LEMMA PiecesSolid == \A t \in Texts : Solid(Pieces(t)) = Spoken(t)
<1> DEFINE T == {t \in Texts : Solid(Pieces(t)) = Spoken(t)}
<1>1. <<>> \in T
  <2>1. Pieces(<<>>) = <<>> /\ Solid(<<>>) = <<>> /\ Spoken(<<>>) = <<>>
    BY PiecesAppend, SolidAppend, SpokenOne, SpaceIsLexeme
  <2> QED BY <2>1, SpaceIsLexeme
<1>2. ASSUME NEW t \in Seq(Lexemes), NEW x \in Lexemes, t \in T PROVE Append(t, x) \in T
  <2>1. t \in Texts /\ Append(t, x) \in Texts /\ Append(t, x) = t \o <<x>> /\ <<x>> \in Texts
    BY AppendProperties, AppendIsConcat DEF Texts
  <2>2. Pieces(Append(t, x)) = Read(Pieces(t), x) /\ Pieces(t) \in Clauses
    BY <2>1, PiecesAppend, PiecesType
  <2>3. Solid(Read(Pieces(t), x)) = Solid(Pieces(t)) \o Spoken(<<x>>)
    BY <2>2, ReadSolid
  <2>4. Spoken(t \o <<x>>) = Spoken(t) \o Spoken(<<x>>)
    BY <2>1, SpokenApart DEF Texts
  <2> QED BY <1>2, <2>1, <2>2, <2>3, <2>4
<1>3. Seq(Lexemes) \subseteq T
  <2> HIDE DEF T
  <2> QED BY <1>1, <1>2, OneByOne
<1> QED BY <1>3 DEF Texts

\* So do its sentences, and its clauses.
LEMMA SentencesSolid == \A P \in Clauses : Solid(Sentences(P)) = Solid(P)
<1> DEFINE T == {P \in Clauses : Solid(Sentences(P)) = Solid(P)}
<1>1. <<>> \in T
  BY SentencesAppend, SpaceIsLexeme
<1>2. ASSUME NEW P \in Seq(Texts), NEW c \in Texts, P \in T PROVE Append(P, c) \in T
  <2>1. P \in Clauses /\ Append(P, c) \in Clauses
    BY AppendProperties DEF Clauses
  <2>2. Sentences(Append(P, c)) = Kept(Sentences(P), c) /\ Sentences(P) \in Clauses
    BY <2>1, SentencesAppend, SentencesType
  <2>3. Solid(Kept(Sentences(P), c)) = Solid(Sentences(P)) \o Spoken(c)
    BY <2>2, KeptSolid
  <2>4. Solid(Append(P, c)) = Solid(P) \o Spoken(c)
    BY <2>1, SolidAppend
  <2> QED BY <1>2, <2>1, <2>2, <2>3, <2>4
<1>3. Seq(Texts) \subseteq T
  <2> HIDE DEF T
  <2> QED BY <1>1, <1>2, OneByOne
<1> QED BY <1>3 DEF Clauses

LEMMA MergedSolid ==
    ASSUME NEW n
    PROVE  \A P \in Clauses : Solid(Merged(P, n)) = Solid(P)
<1> DEFINE T == {P \in Clauses : Solid(Merged(P, n)) = Solid(P)}
<1>1. <<>> \in T
  BY MergedAppend, SpaceIsLexeme
<1>2. ASSUME NEW P \in Seq(Texts), NEW c \in Texts, P \in T PROVE Append(P, c) \in T
  <2>1. P \in Clauses /\ Append(P, c) \in Clauses
    BY AppendProperties DEF Clauses
  <2>2. Merged(Append(P, c), n) = Glued(Merged(P, n), c, n) /\ Merged(P, n) \in Clauses
    BY <2>1, MergedAppend, MergedType
  <2>3. Solid(Glued(Merged(P, n), c, n)) = Solid(Merged(P, n)) \o Spoken(c)
    BY <2>2, GluedSolid
  <2>4. Solid(Append(P, c)) = Solid(P) \o Spoken(c)
    BY <2>1, SolidAppend
  <2> QED BY <1>2, <2>1, <2>2, <2>3, <2>4
<1>3. Seq(Texts) \subseteq T
  <2> HIDE DEF T
  <2> QED BY <1>1, <1>2, OneByOne
<1> QED BY <1>3 DEF Clauses

LEMMA SplitSolid ==
    ASSUME NEW t \in Texts, NEW n
    PROVE  Solid(SplitForStreaming(t, n)) = Spoken(t)
<1>1. Pieces(t) \in Clauses /\ Sentences(Pieces(t)) \in Clauses
  BY PiecesType, SentencesType
<1> QED BY <1>1, PiecesSolid, SentencesSolid, MergedSolid DEF SplitForStreaming

LEMMA ClausesAppend ==
    ASSUME NEW ks \in Clauses, NEW bs \in Clauses, NEW c \in Texts
    PROVE  ks \o Append(bs, c) = Append(ks \o bs, c)
<1>1. ks \in Seq(Texts) /\ bs \in Seq(Texts)
  BY DEF Clauses
<1> QED BY <1>1, PutTogether

\* Clauses put together hold what both hold.
LEMMA SolidTogether ==
    ASSUME NEW ks \in Clauses
    PROVE  \A bs \in Clauses : Solid(ks \o bs) = Solid(ks) \o Solid(bs)
<1> DEFINE T == {bs \in Clauses : Solid(ks \o bs) = Solid(ks) \o Solid(bs)}
<1>0. Solid(ks) \in Texts /\ Solid(<<>>) = <<>>
  BY SolidAppend, SpaceIsLexeme
<1>1. <<>> \in T
  <2>1. ks \o <<>> = ks /\ Solid(ks) \o <<>> = Solid(ks)
    BY <1>0, ConcatEmptySeq DEF Clauses, Texts
  <2> QED BY <1>0, <2>1, SpaceIsLexeme
<1>2. ASSUME NEW bs \in Seq(Texts), NEW c \in Texts, bs \in T PROVE Append(bs, c) \in T
  <2>1. bs \in Clauses /\ Append(bs, c) \in Clauses /\ ks \o bs \in Clauses
    BY AppendProperties, ConcatProperties DEF Clauses
  <2>2. ks \o Append(bs, c) = Append(ks \o bs, c)
    BY <2>1, ClausesAppend
  <2>3. /\ Solid(Append(ks \o bs, c)) = Solid(ks \o bs) \o Spoken(c)
        /\ Solid(Append(bs, c)) = Solid(bs) \o Spoken(c)
        /\ Solid(bs) \in Texts /\ Spoken(c) \in Texts
    BY <2>1, SolidAppend
  <2>4. (Solid(ks) \o Solid(bs)) \o Spoken(c) = Solid(ks) \o (Solid(bs) \o Spoken(c))
    BY <1>0, <2>3, Regrouped
  <2> QED BY <1>2, <2>1, <2>2, <2>3, <2>4
<1>3. Seq(Texts) \subseteq T
  <2> HIDE DEF T
  <2> QED BY <1>1, <1>2, OneByOne
<1> QED BY <1>3 DEF Clauses

\* The clauses taken and the buffer hold what the text holds.
Conserved == Spoken(FlattenSeq(taken) \o buf) = Spoken(text)

LEMMA ConservedMeans ==
    ASSUME NEW cs \in Clauses, NEW b \in Texts
    PROVE  Spoken(FlattenSeq(cs) \o b) = Solid(cs) \o Spoken(b)
<1>1. FlattenSeq(cs) \in Texts
  BY SolidAppend
<1> QED BY <1>1, SpokenApart DEF Texts, Solid

LEMMA JoinSolid ==
    ASSUME NEW t \in Texts, NEW f \in Texts
    PROVE  Spoken(Join(t, f)) = Spoken(t) \o Spoken(f)
<1> DEFINE s == <<Space>>
<1>1. s \in Texts /\ Spoken(s) = <<>>
  BY SpaceIsLexeme, SpokenOne
<1>2. Join(t, f) = (t \o s) \o f \/ Join(t, f) = t \o f
  BY DEF Join
<1> HIDE DEF s
<1>3. t \o s \in Texts
  BY <1>1, ConcatProperties DEF Texts
<1>4. /\ Spoken((t \o s) \o f) = Spoken(t \o s) \o Spoken(f)
      /\ Spoken(t \o s) = Spoken(t) \o Spoken(s) /\ Spoken(t) \in Texts
      /\ Spoken(t \o f) = Spoken(t) \o Spoken(f)
  BY <1>1, <1>3, SpokenApart DEF Texts
<1>5. Spoken(t) \o <<>> = Spoken(t)
  BY <1>4, ConcatEmptySeq DEF Texts
<1> QED BY <1>1, <1>2, <1>4, <1>5

LEMMA PushConserves ==
    ASSUME IndInv, Placed, Conserved, NEW g \in Generators, NEW f \in Fragments, Push(g, f)
    PROVE  Conserved'
<1> DEFINE u == Join(buf, f)
           parts == SplitForStreaming(u, MinChars)
<1>1. /\ text' = text \o f
      /\ IF Len(parts) <= 1 THEN buf' = u /\ taken' = taken
                            ELSE buf' = Last(parts) /\ taken' = taken \o Front(parts)
  BY DEF Push
<1>2. /\ text \in Texts /\ buf \in Texts /\ taken \in Clauses /\ f \in Texts
  <2>1. f \in Seq(Lexeme) /\ Lexeme \subseteq Lexemes
    BY FragmentsAssumption DEF Lexemes
  <2>2. f \in Texts
    BY <2>1, SeqMonotonic DEF Texts
  <2> QED BY <2>2 DEF IndInv, Types, Placed
<1>3. u \in Texts /\ Spoken(u) = Spoken(buf) \o Spoken(f)
  BY <1>2, JoinType, JoinSolid
<1>4. parts \in Clauses /\ Solid(parts) = Spoken(u)
  BY <1>3, SplitType, SplitSolid
<1> HIDE DEF u, parts
<1>5. Solid(taken) \o Spoken(u) = Spoken(text')
  <2>1. /\ Solid(taken) \in Texts /\ Spoken(buf) \in Texts /\ Spoken(f) \in Texts
    BY <1>2, SolidAppend
  <2>2. (Solid(taken) \o Spoken(buf)) \o Spoken(f) = Solid(taken) \o (Spoken(buf) \o Spoken(f))
    BY <2>1, Regrouped
  <2>3. Solid(taken) \o Spoken(buf) = Spoken(text)
    BY <1>2, ConservedMeans DEF Conserved
  <2>4. Spoken(text \o f) = Spoken(text) \o Spoken(f)
    BY <1>2, SpokenApart DEF Texts
  <2> QED BY <1>1, <1>3, <2>2, <2>3, <2>4
<1>6. CASE Len(parts) <= 1
  <2>1. Spoken(FlattenSeq(taken) \o u) = Solid(taken) \o Spoken(u)
    BY <1>2, <1>3, ConservedMeans
  <2> QED BY <1>1, <1>5, <1>6, <2>1 DEF Conserved
<1>7. CASE ~(Len(parts) <= 1)
  <2> DEFINE h == Front(parts)
             l == Last(parts)
  <2>1. parts # <<>>
    BY <1>7
  <2>2. h \in Clauses /\ l \in Texts /\ Solid(parts) = Solid(h) \o Spoken(l)
    <3>1. l \in Texts /\ <<>> \in Texts
      BY <1>4, <2>1, EndsType, SpaceIsLexeme DEF Clauses
    <3>2. Spoken(l) = Spoken(l) \o <<>>
      BY <3>1, SolidAppend, SpaceIsLexeme, ConcatEmptySeq DEF Texts
    <3> QED BY <1>4, <2>1, <3>1, <3>2, SolidLast
  <2>3. buf' = l /\ taken' = taken \o h
    BY <1>1, <1>7
  <2> HIDE DEF h, l
  <2>4. taken \o h \in Clauses
    BY <1>2, <2>2, ConcatProperties DEF Clauses
  <2>5. Spoken(FlattenSeq(taken \o h) \o l) = Solid(taken \o h) \o Spoken(l)
    BY <2>2, <2>4, ConservedMeans
  <2>6. Solid(taken \o h) = Solid(taken) \o Solid(h)
    BY <1>2, <2>2, SolidTogether
  <2>7. (Solid(taken) \o Solid(h)) \o Spoken(l) = Solid(taken) \o (Solid(h) \o Spoken(l))
    <3>1. Solid(taken) \in Texts /\ Solid(h) \in Texts /\ Spoken(l) \in Texts
      BY <1>2, <2>2, SolidAppend
    <3> QED BY <3>1, Regrouped
  <2>8. Spoken(FlattenSeq(taken') \o buf') = Spoken(text')
    BY <1>4, <1>5, <2>2, <2>3, <2>5, <2>6, <2>7
  <2> QED BY <2>8 DEF Conserved
<1> QED BY <1>6, <1>7

LEMMA NothingConserved == Spoken(FlattenSeq(<<>>) \o <<>>) = Spoken(<<>>)
<1>1. FlattenSeq(<<>>) = <<>>
  BY DEF FlattenSeq
<1>2. <<>> \o <<>> = <<>>
  OBVIOUS
<1> QED BY <1>1, <1>2

LEMMA ConservedStep == IndInv /\ Placed /\ Conserved /\ [Next]_vars => Conserved'
<1> SUFFICES ASSUME IndInv, Placed, Conserved, [Next]_vars PROVE Conserved'
  OBVIOUS
<1>1. ASSUME NEW g \in Generators, NEW f \in Fragments, Push(g, f) PROVE Conserved'
  BY <1>1, PushConserves
<1>2. ASSUME NEW g \in Generators, Flush(g) PROVE Conserved'
  <2>1. buf' = <<>> /\ text' = <<>> /\ taken' = <<>>
    BY <1>2 DEF Flush
  <2> QED BY <2>1, NothingConserved DEF Conserved
<1>3. ASSUME UNCHANGED <<buf, taken, text>> PROVE Conserved'
  BY <1>3 DEF Conserved
<1>4. ASSUME NEW g \in Generators, Resume(g) \/ Drop(g) PROVE UNCHANGED <<buf, taken, text>>
  BY <1>4 DEF Resume, Drop, history
<1>5. CASE UNCHANGED vars
  BY <1>3, <1>5 DEF vars, history
<1> QED BY <1>1, <1>2, <1>3, <1>4, <1>5 DEF Next

LEMMA ConservedInvariant == Spec => []Conserved
<1>1. Init => Conserved
  BY NothingConserved DEF Init, Conserved
<1> QED BY <1>1, ConservedStep, IndInvInvariant, PlacedInvariant, PTL DEF Spec

\* Wherever the text is cut into fragments, nothing of it is lost, doubled or moved;
\* cut at its spaces, none doubled, the clauses are those of the whole text; and a
\* caller that runs every generator to its end hears each clause taken once, in
\* order and numbered without a gap (EmittedInOrder).
THEOREM ClausesComeInOrder == Spec => []EmittedInOrder
<1>1. IndInv /\ Placed /\ Conserved => EmittedInOrder
  <2> SUFFICES ASSUME IndInv, Placed, Conserved PROVE EmittedInOrder
    OBVIOUS
  <2>1. /\ emitted \in Nat /\ heard \in Seq(Results) /\ Len(heard) \in Nat
        /\ IsFiniteSet(Live) /\ Cardinality(Live) \in Nat
        /\ emitted + Cardinality(Live) <= Len(heard)
        /\ \A k \in 1..Len(heard) : heard[k].index <= emitted
    BY FS_CardinalityType DEF IndInv, Types, Counts
  <2>2. \A k \in 1..Len(heard) : heard[k].index \in 0..emitted
    <3>1. \A k \in 1..Len(heard) : heard[k].index \in Nat
      BY <2>1, HeardType
    <3> QED BY <2>1, <3>1
  <2>3. TypeOK
    BY <2>1, <2>2 DEF IndInv, Types, TypeOK, Placed
  <2>4. ASSUME orderly, flushes = 0
        PROVE  \E g \in Generators : taken = HeardTexts \o left[g]
    <3>1. /\ Live = {} => taken = HeardTexts
          /\ \A g \in Live : taken = HeardTexts \o left[g]
      BY <2>4 DEF IndInv, Orderly
    <3>2. CASE Live = {}
      <4>1. PICK g \in Generators : TRUE
        BY GeneratorsAssumption
      <4>2. left[g] = <<>>
        BY <3>2 DEF IndInv, Live
      <4>3. HeardTexts \o <<>> = HeardTexts
        <5>1. taken \in Seq(Texts) /\ taken = HeardTexts
          BY <3>1, <3>2 DEF IndInv, Types, Clauses
        <5> QED BY <5>1, ConcatEmptySeq
      <4> QED BY <3>1, <3>2, <4>2, <4>3
    <3>3. CASE Live # {}
      BY <3>1, <3>3 DEF Live
    <3> QED BY <3>2, <3>3
  <2>5. emitted <= Len(heard)
    BY <2>1
  <2>6. orderly => \A k \in 1..Len(heard) : heard[k].index = k - 1
    BY DEF IndInv, Orderly
  <2>7. stats.clauses_emitted = Len(heard)
    BY DEF IndInv, Counts
  <2>8. Single(text) /\ ~severed
          => taken \o SplitForStreaming(buf, MinChars) = SplitForStreaming(text, MinChars)
    BY PlaceMeansSplit DEF IndInv, Types, Placed
  <2> QED BY <2>3, <2>4, <2>5, <2>6, <2>7, <2>8 DEF EmittedInOrder, HeardTexts, Conserved
<1> QED BY <1>1, IndInvInvariant, PlacedInvariant, ConservedInvariant, PTL

------------------------------------------------------------------------------
(* The clauses say what the text says. *)

Saying(t, n) == Spoken(Speech(SplitForStreaming(t, n))) = Spoken(Normalize(t))

LEMMA SaidOfNothing ==
    /\ Spoken(Normalize(<<>>)) = <<>> /\ Spoken(Normalize(<<Space>>)) = <<>>
<1> DEFINE e == <<>>
<1>1. Space \in Lexemes /\ e \in Texts /\ Strip(<<Space>>) = Strip(e)
  <2>1. Space \in Lexemes /\ e \in Texts /\ Append(e, Space) = <<Space>>
    BY SpaceIsLexeme
  <2> HIDE DEF e
  <2> QED BY <2>1, StripSpace
<1>2. Normalize(<<Space>>) = Normalize(e)
  <2> HIDE DEF e
  <2> QED BY <1>1, Zenon DEF Normalize, Words
<1>3. e \in Seq(Parts) /\ Len(e) = 0 /\ Strip(e) = e
  <2>1. NonSpaces(e) = {}
    BY DEF NonSpaces
  <2>2. Strip(e) = <<>>
    BY <1>1, <2>1, StripShape
  <2>3. e \in Seq(Parts) /\ Len(e) = 0
    OBVIOUS
  <2> QED BY <2>2, <2>3
<1>6. Spoken(e) = e
  BY SpokenOne
<1> HIDE DEF e
<1>4. /\ Rewrite(AbbreviationRule(e)) = e /\ Rewrite(CurrencyRule(e)) = e
      /\ Rewrite(DateRule(e)) = e /\ Rewrite(TimeRule(e)) = e /\ Rewrite(UnitRule(e)) = e
      /\ Rewrite(OrdinalRule(e)) = e /\ Rewrite(SymbolRule(e)) = e /\ Rewrite(SplitRule(e)) = e
      /\ Rewrite(NumberRule(e)) = e /\ Rewrite(CompoundRule(e)) = e
  <2>1. /\ Edits(AbbreviationRule(e), 0, Parts) /\ Edits(CurrencyRule(e), 0, Parts)
        /\ Edits(DateRule(e), 0, Parts) /\ Edits(TimeRule(e), 0, Parts) /\ Edits(UnitRule(e), 0, Parts)
        /\ Edits(OrdinalRule(e), 0, Parts) /\ Edits(SymbolRule(e), 0, Parts)
        /\ Edits(SplitRule(e), 0, Parts)
    BY <1>3, AbbreviationPass, CurrencyPass, DatePass, TimePass, UnitPass, OrdinalPass,
       SymbolPass, SplitPass
  <2>2. Edits(NumberRule(e), 0, Parts) /\ Edits(CompoundRule(e), 0, Parts)
    BY <1>3, NumberPass, WiderEdits, CompoundEdits
  <2>3. \A r : Edits(r, 0, Parts) => Rewrite(r) = e
    BY RewriteEmpty DEF e
  <2> QED BY <2>1, <2>2, <2>3
<1>5. Words(e) = e /\ Amounts(e) = e /\ Quantities(e) = e /\ Numbers(e) = e
  BY <1>3, <1>4 DEF Words, Amounts, Quantities, Numbers
<1>7. Spoken(Tidied(e)) = e
  BY <1>3, <1>4, <1>6, SaidTidied
<1> QED BY <1>2, <1>5, <1>7 DEF Normalize, e

\* A text says what its clauses but the last say, and then what the last says.
LEMMA CutSaid ==
    ASSUME NEW n, NEW u, NEW b, NEW w, NEW e, Cuts(u, n, b, w, e), Single(b), Saying(b, n)
    PROVE  Saying(u, n)
<1> DEFINE cs == SplitForStreaming(b, n)
<1>1. /\ b \in Texts /\ w \in Texts /\ cs \in Clauses /\ SplitForStreaming(u, n) = Append(cs, w)
      /\ Spoken(Speech(cs)) = Spoken(Normalize(b))
  BY SplitType DEF Cuts, Saying
<1> DEFINE c == Speech(cs)
           x == Normalize(b)
           y == Normalize(w)
<1>2. c \in Seq(Sounds) /\ y \in Seq(Sounds) /\ x \in Seq(Sounds)
      /\ Speech(SplitForStreaming(u, n)) = c \o y
  <2> HIDE DEF cs
  <2> QED BY <1>1, SpeechAppend, NormalizeLeavesNoDigits
<1>3. Spoken(c) = Spoken(x)
  BY <1>1
<1> HIDE DEF cs, c, x, y
<1>4. Spoken(c \o y) = Spoken(x) \o Spoken(y) /\ Spoken(y) \in Seq(Sounds)
  BY <1>2, <1>3, SpokenApart
<1>5. CASE b \in {<<>>, <<Space>>} /\ Strip(u) = Strip(w)
  <2>1. Normalize(u) = y
    BY <1>5, Zenon DEF Normalize, Words, y
  <2>2. Spoken(x) = <<>>
    BY <1>5, SaidOfNothing DEF x
  <2>3. <<>> \o Spoken(y) = Spoken(y)
    BY <1>4, ConcatEmptySeq
  <2> QED BY <1>2, <1>4, <2>1, <2>2, <2>3 DEF Saying
<1>6. CASE Sides(Strip(u), Strip(b), Strip(w))
  <2>1. Spoken(Normalize(u)) = Spoken(x) \o Spoken(y)
    BY <1>6, NormalizeApart DEF x, y
  <2> QED BY <1>2, <1>4, <2>1 DEF Saying
<1> QED BY <1>5, <1>6, CutSides

LEMMA ClausesSayTheText ==
    ASSUME NEW n, NEW t \in Texts, Single(t)
    PROVE  Saying(t, n)
<1> DEFINE T == {l \in Nat : \A u \in Texts : Len(u) <= l /\ Single(u) => Saying(u, n)}
<1>1. \A l \in Nat : l \in T <=> \A u \in Texts : Len(u) <= l /\ Single(u) => Saying(u, n)
  OBVIOUS
<1> HIDE DEF T
<1>2. ASSUME NEW u \in {<<>>, <<Space>>} PROVE Saying(u, n)
  <2>1. SplitForStreaming(u, n) = <<>>
    BY SplitNothing
  <2>2. Speech(<<>>) = <<>> /\ Spoken(<<>>) = <<>>
    BY SpaceIsLexeme, SpeechAppend, SpokenOne
  <2>3. Spoken(Normalize(u)) = <<>>
    BY SaidOfNothing
  <2> QED BY <2>1, <2>2, <2>3 DEF Saying
<1>3. 0 \in T
  <2>1. \A u \in Texts : Len(u) <= 0 => u = <<>>
    <3>1. \A u \in Texts : Len(u) \in Nat /\ (Len(u) = 0 => u = <<>>)
      BY EmptySeq, LenProperties DEF Texts
    <3> QED BY <3>1
  <2> QED BY <1>1, <1>2, <2>1
<1>4. ASSUME NEW l \in Nat, l \in T PROVE l + 1 \in T
  <2> SUFFICES ASSUME NEW u \in Texts, Len(u) <= l + 1, Single(u) PROVE Saying(u, n)
    BY <1>1
  <2>1. CASE u \in {<<>>, <<Space>>}
    BY <1>2, <2>1
  <2>2. CASE u \notin {<<>>, <<Space>>}
    <3>1. PICK b, w, e : Cuts(u, n, b, w, e)
      BY <2>2, EveryTextIsCut DEF IsCut
    <3> DEFINE z == w \o e
    <3>2. b \in Seq(Lexemes) /\ w \in Seq(Lexemes) /\ e \in Seq(Lexemes) /\ w # <<>>
          /\ u = (b \o w) \o e
      BY <3>1, SpaceIsLexeme DEF Cuts, Texts
    <3>3. u = b \o z /\ z \in Seq(Lexemes) /\ z # <<>>
      <4>1. u = b \o z /\ z \in Seq(Lexemes)
        BY <3>2, ConcatAssociative, ConcatProperties
      <4>2. z # <<>>
        BY <3>2, ConcatEqualIffEmpty
      <4> QED BY <4>1, <4>2
    <3> HIDE DEF z
    <3>4. Single(b)
      BY <3>2, <3>3, SingleParts DEF Texts
    <3>5. Len(b) <= l
      <4>1. Len(b) \in Nat /\ Len(z) \in Nat \ {0} /\ Len(b \o z) = Len(b) + Len(z)
        BY <3>2, <3>3, ConcatProperties, EmptySeq
      <4>2. Len(b) + Len(z) <= l + 1
        BY <3>3, <4>1
      <4> QED BY <4>1, <4>2
    <3>6. Saying(b, n)
      BY <1>1, <1>4, <3>2, <3>4, <3>5 DEF Texts
    <3> QED BY <3>1, <3>4, <3>6, CutSaid
  <2> QED BY <2>1, <2>2
<1>5. Nat \subseteq T
  BY <1>3, <1>4, CountingUp
<1>6. Len(t) \in Nat /\ Len(t) <= Len(t)
  BY LenProperties DEF Texts
<1> QED BY <1>1, <1>5, <1>6

\* A text that is cut into fragments at its spaces, none of them doubled, is said by
\* its clauses, normalized one by one, as it would be whole; and however it is cut,
\* nothing is heard in digits (FragmentsDoNotMatter).
THEOREM FragmentsAreNotHeard == Spec => []FragmentsDoNotMatter
<1>1. Placed /\ EmittedInOrder /\ NoDigitsHeard => FragmentsDoNotMatter
  <2> SUFFICES ASSUME Placed, EmittedInOrder, NoDigitsHeard, Single(text), ~severed
               PROVE  Spoken(Speech(taken \o SplitForStreaming(buf, MinChars)))
                        = Spoken(Normalize(text))
    BY DEF FragmentsDoNotMatter
  <2>1. taken \o SplitForStreaming(buf, MinChars) = SplitForStreaming(text, MinChars)
    BY DEF EmittedInOrder
  <2>2. text \in Texts
    BY DEF Placed
  <2>3. Saying(text, MinChars)
    BY <2>2, ClausesSayTheText
  <2> QED BY <2>1, <2>3 DEF Saying
<1> QED BY <1>1, PlacedInvariant, ClausesComeInOrder, NoDigitsAreHeard, PTL
=============================================================================
