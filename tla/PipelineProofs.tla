--------------------------- MODULE PipelineProofs ---------------------------
(***************************************************************************)
(* Proofs, for any number of utterances and callers, any texts, paddings,  *)
(* batch sizes and engine profiles, of what the acoustic frontend answers  *)
(* and of what the caller of TTSClient.stream is handed.                   *)
(***************************************************************************)
EXTENDS Pipeline, FiniteSetTheorems, SequenceTheorems, TLAPS

(* Counting up, and what follows from it about sequences. *)

LEMMA CountingUp ==
    ASSUME NEW T, 0 \in T, \A n \in Nat : n \in T => n + 1 \in T
    PROVE  Nat \subseteq T
<1> SUFFICES ASSUME Nat \ T # {} PROVE FALSE
  OBVIOUS
<1>1. PICK x \in Nat \ T : \A y \in Nat \ T : ~(<<y, x>> \in OpToRel(<, Nat))
  <2>1. IsWellFoundedOn(OpToRel(<, Nat), Nat)
    BY NatLessThanWellFounded
  <2> QED BY <2>1, WFMin
<1>2. x - 1 \in Nat /\ x - 1 \in Nat \ T
  OBVIOUS
<1>3. <<x - 1, x>> \in OpToRel(<, Nat)
  BY <1>2 DEF OpToRel
<1> QED BY <1>1, <1>2, <1>3

LEMMA LongestIsMax ==
    ASSUME NEW ns \in Seq(Nat), ns # <<>>
    PROVE  /\ LongestOf(ns) \in Nat
           /\ \A i \in 1..Len(ns) : ns[i] <= LongestOf(ns)
<1> DEFINE N == Len(ns)
           T == {n \in Nat : n + 1 <= N =>
                   \E i \in 1..(n + 1) : \A j \in 1..(n + 1) : ns[j] <= ns[i]}
<1>1. N \in Nat \ {0} /\ \A i \in 1..N : ns[i] \in Nat
  OBVIOUS
<1>2. \A n \in Nat : n \in T <=> (n + 1 <= N =>
                   \E i \in 1..(n + 1) : \A j \in 1..(n + 1) : ns[j] <= ns[i])
  OBVIOUS
<1> HIDE DEF T, N
<1>3. 0 \in T
  <2>1. 1 \in 1..(0 + 1) /\ \A j \in 1..(0 + 1) : j = 1
    OBVIOUS
  <2>2. ns[1] <= ns[1]
    BY <1>1
  <2> QED BY <1>2, <2>1, <2>2
<1>4. ASSUME NEW n \in Nat, n \in T PROVE n + 1 \in T
  <2> SUFFICES ASSUME (n + 1) + 1 <= N
               PROVE  \E i \in 1..((n + 1) + 1) : \A j \in 1..((n + 1) + 1) : ns[j] <= ns[i]
    BY <1>2
  <2>1. PICK i \in 1..(n + 1) : \A j \in 1..(n + 1) : ns[j] <= ns[i]
    BY <1>1, <1>2, <1>4
  <2>2. i \in 1..((n + 1) + 1) /\ n + 2 \in 1..((n + 1) + 1)
    OBVIOUS
  <2>3. \A j \in 1..((n + 1) + 1) : j \in 1..(n + 1) \/ j = n + 2
    OBVIOUS
  <2>4. ns[i] \in Nat /\ ns[n + 2] \in Nat /\ \A j \in 1..(n + 1) : ns[j] \in Nat
    BY <1>1, <2>2
  <2>5. CASE ns[n + 2] <= ns[i]
    BY <2>1, <2>2, <2>3, <2>5
  <2>6. CASE ns[i] <= ns[n + 2]
    <3>1. \A j \in 1..(n + 1) : ns[j] <= ns[n + 2]
      BY <2>1, <2>4, <2>6
    <3> QED BY <2>2, <2>3, <2>4, <3>1
  <2>7. ns[n + 2] <= ns[i] \/ ns[i] <= ns[n + 2]
    BY <2>4
  <2> QED BY <2>5, <2>6, <2>7
<1>5. PICK i \in 1..N : \A j \in 1..N : ns[j] <= ns[i]
  <2>1. N - 1 \in Nat /\ (N - 1) + 1 = N
    BY <1>1
  <2>2. N - 1 \in T
    BY <1>3, <1>4, <2>1, CountingUp
  <2> QED BY <1>1, <1>2, <2>1, <2>2
<1>6. ToSet(ns) = {ns[k] : k \in 1..N}
  BY DEF ToSet, N
<1>7. \E n \in ToSet(ns) : \A m \in ToSet(ns) : m <= n
  BY <1>5, <1>6
<1>8. LongestOf(ns) \in ToSet(ns) /\ \A m \in ToSet(ns) : m <= LongestOf(ns)
  BY <1>7 DEF LongestOf
<1> QED BY <1>1, <1>6, <1>8 DEF N

\* What FlattenSeq has made after the first i sequences.
LEMMA Flattened ==
    ASSUME NEW X, NEW seqs \in Seq(Seq(X)), seqs # <<>>
    PROVE  \E f : /\ f \in [1..Len(seqs) -> Seq(X)]
                  /\ f[1] = seqs[1]
                  /\ \A i \in 2..Len(seqs) : f[i] = f[i - 1] \o seqs[i]
                  /\ f[Len(seqs)] = FlattenSeq(seqs)
<1> DEFINE N == Len(seqs)
           P(n) == \E f : f = [i \in 1..n |-> IF i = 1 THEN seqs[i] ELSE f[i - 1] \o seqs[i]]
           T == {n \in Nat : P(n)}
<1>1. N \in Nat \ {0} /\ \A i \in 1..N : seqs[i] \in Seq(X)
  OBVIOUS
<1>2. \A n \in Nat : n \in T <=> P(n)
  OBVIOUS
<1>3. P(0)
  <2> DEFINE f == [i \in {} |-> {}]
  <2>1. 1..0 = {}
    OBVIOUS
  <2>2. f = [i \in 1..0 |-> IF i = 1 THEN seqs[i] ELSE f[i - 1] \o seqs[i]]
    BY <2>1
  <2> QED BY <2>2
<1>4. ASSUME NEW n \in Nat, P(n) PROVE P(n + 1)
  <2>1. PICK f : f = [i \in 1..n |-> IF i = 1 THEN seqs[i] ELSE f[i - 1] \o seqs[i]]
    BY <1>4
  <2>2. \A i \in 1..n : f[i] = IF i = 1 THEN seqs[i] ELSE f[i - 1] \o seqs[i]
    BY <2>1
  <2> DEFINE g == [i \in 1..(n + 1) |->
                     IF i = n + 1 THEN IF i = 1 THEN seqs[i] ELSE f[i - 1] \o seqs[i]
                                  ELSE f[i]]
  <2>3. \A i \in 1..n : g[i] = f[i]
    OBVIOUS
  <2>4. ASSUME NEW i \in 1..(n + 1)
        PROVE  g[i] = IF i = 1 THEN seqs[i] ELSE g[i - 1] \o seqs[i]
    <3>1. i # 1 => i - 1 \in 1..n
      OBVIOUS
    <3>2. CASE i = n + 1
      BY <2>3, <3>1, <3>2
    <3>3. CASE i \in 1..n
      BY <2>2, <2>3, <3>1, <3>3
    <3> QED BY <3>2, <3>3
  <2>5. g = [i \in 1..(n + 1) |-> IF i = 1 THEN seqs[i] ELSE g[i - 1] \o seqs[i]]
    BY <2>4
  <2> HIDE DEF g
  <2> QED BY <2>5
<1> HIDE DEF P, T
<1>5. P(N)
  <2>1. 0 \in T
    BY <1>2, <1>3
  <2>2. \A n \in Nat : n \in T => n + 1 \in T
    BY <1>2, <1>4
  <2>3. N \in T
    BY <1>1, <2>1, <2>2, CountingUp
  <2> QED BY <1>1, <1>2, <2>3
<1> DEFINE F == CHOOSE f : f = [i \in 1..N |-> IF i = 1 THEN seqs[i] ELSE f[i - 1] \o seqs[i]]
<1>6. F = [i \in 1..N |-> IF i = 1 THEN seqs[i] ELSE F[i - 1] \o seqs[i]]
  BY <1>5, Zenon DEF P
<1>7. FlattenSeq(seqs) = F[N]
  BY <1>1 DEF FlattenSeq
<1> HIDE DEF F, N
<1>8. F[1] = seqs[1] /\ \A i \in 2..N : F[i] = F[i - 1] \o seqs[i]
  <2>1. 1 \in 1..N /\ \A i \in 2..N : i \in 1..N /\ i # 1
    BY <1>1
  <2>2. \A i \in 1..N : F[i] = IF i = 1 THEN seqs[i] ELSE F[i - 1] \o seqs[i]
    BY <1>6
  <2> QED BY <2>1, <2>2
<1> DEFINE U == {n \in Nat : n + 1 <= N => F[n + 1] \in Seq(X)}
<1>9. \A n \in Nat : n \in U <=> (n + 1 <= N => F[n + 1] \in Seq(X))
  OBVIOUS
<1> HIDE DEF U
<1>10. 0 \in U
  BY <1>1, <1>8, <1>9
<1>11. ASSUME NEW n \in Nat, n \in U PROVE n + 1 \in U
  <2> SUFFICES ASSUME (n + 1) + 1 <= N PROVE F[(n + 1) + 1] \in Seq(X)
    BY <1>9
  <2>1. (n + 1) + 1 \in 2..N /\ (n + 1) + 1 \in 1..N /\ ((n + 1) + 1) - 1 = n + 1
    BY <1>1
  <2>2. F[n + 1] \in Seq(X)
    BY <1>1, <1>9, <1>11
  <2>3. F[(n + 1) + 1] = F[n + 1] \o seqs[(n + 1) + 1]
    BY <1>8, <2>1
  <2> QED BY <1>1, <2>1, <2>2, <2>3
<1>12. \A i \in 1..N : F[i] \in Seq(X)
  <2>1. Nat \subseteq U
    BY <1>10, <1>11, CountingUp
  <2>2. \A i \in 1..N : i - 1 \in Nat /\ (i - 1) + 1 = i /\ i <= N
    BY <1>1
  <2> QED BY <1>9, <2>1, <2>2
<1>13. F \in [1..N -> Seq(X)]
  BY <1>6, <1>12
<1> QED BY <1>7, <1>8, <1>13 DEF N

\* Empty sequences at the end do not count.
LEMMA FlattenPadded ==
    ASSUME NEW X, NEW a \in Seq(Seq(X)), a # <<>>, NEW b \in Seq(Seq(X)),
           Len(a) <= Len(b), \A i \in 1..Len(a) : b[i] = a[i],
           \A i \in (Len(a) + 1)..Len(b) : b[i] = <<>>
    PROVE  FlattenSeq(b) = FlattenSeq(a) /\ FlattenSeq(a) \in Seq(X)
<1>1. Len(a) \in Nat \ {0} /\ Len(b) \in Nat \ {0} /\ b # <<>>
  OBVIOUS
<1>2. PICK f : /\ f \in [1..Len(a) -> Seq(X)]
               /\ f[1] = a[1]
               /\ \A i \in 2..Len(a) : f[i] = f[i - 1] \o a[i]
               /\ f[Len(a)] = FlattenSeq(a)
  BY Flattened
<1>3. PICK g : /\ g \in [1..Len(b) -> Seq(X)]
               /\ g[1] = b[1]
               /\ \A i \in 2..Len(b) : g[i] = g[i - 1] \o b[i]
               /\ g[Len(b)] = FlattenSeq(b)
  BY <1>1, Flattened
<1> DEFINE e == [i \in 1..Len(b) |-> IF i <= Len(a) THEN f[i] ELSE f[Len(a)]]
           T == {n \in Nat : n + 1 <= Len(b) => g[n + 1] = e[n + 1]}
<1>4. \A n \in Nat : n \in T <=> (n + 1 <= Len(b) => g[n + 1] = e[n + 1])
  OBVIOUS
<1>5. \A i \in 1..Len(b) : e[i] = IF i <= Len(a) THEN f[i] ELSE f[Len(a)]
  OBVIOUS
<1> HIDE DEF T, e
<1>6. 0 \in T
  <2>1. 1 \in 1..Len(b) /\ 1 <= Len(a) /\ 1 \in 1..Len(a) /\ 0 + 1 = 1
    BY <1>1
  <2>2. g[1] = e[1]
    BY <1>2, <1>3, <1>5, <2>1
  <2> QED BY <1>4, <2>1, <2>2
<1>7. ASSUME NEW n \in Nat, n \in T PROVE n + 1 \in T
  <2> DEFINE m == (n + 1) + 1
  <2> SUFFICES ASSUME m <= Len(b) PROVE g[m] = e[m]
    BY <1>4
  <2>1. m \in 2..Len(b) /\ m \in 1..Len(b) /\ m - 1 = n + 1 /\ n + 1 \in 1..Len(b)
    BY <1>1
  <2>2. g[m] = g[n + 1] \o b[m]
    BY <1>3, <2>1
  <2>3. g[n + 1] = e[n + 1]
    BY <1>4, <1>7, <2>1
  <2>4. CASE m <= Len(a)
    <3>1. m \in 2..Len(a) /\ n + 1 <= Len(a) /\ m \in 1..Len(a)
      BY <1>1, <2>4
    <3>2. f[m] = f[n + 1] \o a[m] /\ b[m] = a[m]
      BY <1>2, <2>1, <3>1
    <3>3. e[m] = f[m] /\ e[n + 1] = f[n + 1]
      BY <1>5, <2>1, <2>4, <3>1
    <3> QED BY <2>2, <2>3, <3>2, <3>3
  <2>5. CASE ~(m <= Len(a))
    <3>1. b[m] = <<>>
      <4>1. m \in (Len(a) + 1)..Len(b)
        BY <1>1, <2>1, <2>5
      <4> QED BY <4>1
    <3>2. g[n + 1] \o <<>> = g[n + 1]
      BY <1>3, <2>1, ConcatEmptySeq
    <3>3. e[n + 1] = f[Len(a)]
      <4>1. n + 1 <= Len(a) => n + 1 = Len(a)
        BY <1>1, <2>5
      <4> QED BY <1>5, <2>1, <4>1
    <3>4. e[m] = f[Len(a)]
      BY <1>5, <2>1, <2>5
    <3> QED BY <2>2, <2>3, <3>1, <3>2, <3>3, <3>4
  <2> QED BY <2>4, <2>5
<1>8. g[Len(b)] = f[Len(a)]
  <2>1. Len(b) - 1 \in Nat /\ (Len(b) - 1) + 1 = Len(b) /\ Len(b) \in 1..Len(b)
    BY <1>1
  <2>2. Len(b) - 1 \in T
    BY <1>6, <1>7, <2>1, CountingUp
  <2>3. g[Len(b)] = e[Len(b)]
    BY <1>4, <2>1, <2>2
  <2>4. Len(b) <= Len(a) => Len(b) = Len(a)
    BY <1>1
  <2> QED BY <1>5, <2>1, <2>3, <2>4
<1>9. f[Len(a)] \in Seq(X)
  <2>1. Len(a) \in 1..Len(a)
    BY <1>1
  <2> QED BY <1>2, <2>1
<1> QED BY <1>2, <1>3, <1>8, <1>9

------------------------------------------------------------------------------
(* The rows of a batch. *)

Durs == Seq(Nat \ {0})

\* The frames of a text that is alone: each token for its duration.
Spelled(d) == FlattenSeq([j \in 1..Len(d) |-> [k \in 1..d[j] |-> j]])

\* A row that is padded to some length, its mask to the same.
RowShape(row, d) ==
    /\ row.duration \in Seq(Nat) /\ row.mask \in Seq(Nat)
    /\ Len(row.mask) = Len(row.duration) /\ Len(d) <= Len(row.duration)
    /\ \A j \in 1..Len(d) : row.duration[j] = d[j] /\ row.mask[j] = 1
    /\ \A j \in (Len(d) + 1)..Len(row.duration) : row.duration[j] = 0 /\ row.mask[j] = 0

\* A sequence with zeros on the right.
IsPadded(u, s, n) ==
    /\ u \in Seq(Nat)
    /\ Len(u) = IF n <= Len(s) THEN Len(s) ELSE n
    /\ \A j \in 1..Len(s) : u[j] = s[j]
    /\ \A j \in (Len(s) + 1)..Len(u) : u[j] = 0

LEMMA PadToProperties ==
    ASSUME NEW s \in Seq(Nat), NEW n \in Nat
    PROVE  IsPadded(PadTo(s, n), s, n)
<1> DEFINE z == [j \in 1..(n - Len(s)) |-> 0]
<1>1. Len(s) \in Nat
  OBVIOUS
<1>2. z \in Seq(Nat) /\ Len(z) = (IF n <= Len(s) THEN 0 ELSE n - Len(s))
      /\ \A j \in 1..Len(z) : z[j] = 0
  <2>1. CASE n <= Len(s)
    <3>1. 1..(n - Len(s)) = {} /\ 1..0 = {}
      BY <1>1, <2>1
    <3>2. z = [j \in {} |-> 0]
      BY <3>1, Zenon
    <3>3. [j \in {} |-> 0] = <<>>
      OBVIOUS
    <3> HIDE DEF z
    <3>4. Len(z) = 0 /\ z \in Seq(Nat)
      BY <3>2, <3>3
    <3> QED BY <2>1, <3>4
  <2>2. CASE ~(n <= Len(s))
    <3>1. n - Len(s) \in Nat
      BY <1>1, <2>2
    <3> QED BY <2>2, <3>1, IsASeq
  <2> QED BY <2>1, <2>2
<1>3. PadTo(s, n) = s \o z
  BY DEF PadTo
<1> HIDE DEF z
<1>4. s \o z \in Seq(Nat) /\ Len(s \o z) = Len(s) + Len(z)
      /\ \A j \in 1..(Len(s) + Len(z)) :
           (s \o z)[j] = IF j <= Len(s) THEN s[j] ELSE z[j - Len(s)]
  BY <1>2, ConcatProperties
<1>5. Len(z) \in Nat /\ Len(s) + Len(z) = IF n <= Len(s) THEN Len(s) ELSE n
  BY <1>1, <1>2
<1>6. \A j \in 1..Len(s) : (s \o z)[j] = s[j]
  BY <1>1, <1>4, <1>5
<1>7. ASSUME NEW j \in (Len(s) + 1)..(Len(s) + Len(z)) PROVE (s \o z)[j] = 0
  <2>1. j \in 1..(Len(s) + Len(z)) /\ ~(j <= Len(s)) /\ j - Len(s) \in 1..Len(z)
    BY <1>1, <1>5
  <2> QED BY <1>2, <1>4, <2>1
<1> QED BY <1>3, <1>4, <1>5, <1>6, <1>7 DEF IsPadded

LEMMA CutType ==
    ASSUME NEW t \in Texts
    PROVE  Cut(t) \in Durs /\ Cut(t) \in Seq(Nat)
<1>1. t \in Durs /\ Len(t) \in Nat /\ MaxChars \in Nat
  BY PipelineAssumption DEF Durs
<1> DEFINE n == IF Len(t) < MaxChars THEN Len(t) ELSE MaxChars
<1>2. n \in Nat /\ n <= Len(t)
  BY <1>1
<1>3. Cut(t) = SubSeq(t, 1, n)
  BY DEF Cut
<1> HIDE DEF n
<1>4. SubSeq(t, 1, n) \in Durs
  BY <1>1, <1>2 DEF Durs
<1>5. Durs \subseteq Seq(Nat)
  BY SeqMonotonic DEF Durs
<1> QED BY <1>3, <1>4, <1>5

LEMMA RowOfShape ==
    ASSUME NEW t \in Texts, NEW p \in Nat
    PROVE  /\ RowShape(RowOf(t, p), Cut(t))
           /\ Len(RowOf(t, p).duration) = Len(Cut(t)) + p
<1> DEFINE d == Cut(t)
           ones == [j \in 1..Len(d) |-> 1]
<1>1. d \in Seq(Nat) /\ Len(d) \in Nat /\ Len(d) + p \in Nat
  BY CutType
<1> HIDE DEF d
<1>2. ones \in Seq(Nat) /\ Len(ones) = Len(d) /\ \A j \in 1..Len(d) : ones[j] = 1
  BY <1>1, IsASeq
<1>3. RowOf(t, p).duration = PadTo(d, Len(d) + p) /\ RowOf(t, p).mask = PadTo(ones, Len(d) + p)
  BY DEF RowOf, d
<1> HIDE DEF ones
<1> DEFINE u == PadTo(d, Len(d) + p)
           v == PadTo(ones, Len(d) + p)
<1>4. IsPadded(u, d, Len(d) + p) /\ IsPadded(v, ones, Len(d) + p)
  BY <1>1, <1>2, PadToProperties
<1> HIDE DEF u, v
<1>5. Len(u) = Len(d) + p /\ Len(v) = Len(d) + p
  <2>1. Len(d) + p <= Len(d) => Len(d) = Len(d) + p
    BY <1>1
  <2> QED BY <1>2, <1>4, <2>1 DEF IsPadded
<1>6. /\ u \in Seq(Nat) /\ v \in Seq(Nat)
      /\ \A j \in 1..Len(d) : u[j] = d[j] /\ v[j] = 1
      /\ \A j \in (Len(d) + 1)..Len(u) : u[j] = 0 /\ v[j] = 0
  BY <1>2, <1>4, <1>5 DEF IsPadded
<1>7. RowShape([duration |-> u, mask |-> v], d)
  BY <1>1, <1>5, <1>6 DEF RowShape
<1>8. RowOf(t, p) = [duration |-> u, mask |-> v]
  BY DEF RowOf, d, ones, u, v
<1> QED BY <1>5, <1>7, <1>8 DEF d

\* Padded once more, to the longest of the batch.
LEMMA PaddedShape ==
    ASSUME NEW row, NEW d \in Seq(Nat), RowShape(row, d), NEW n \in Nat
    PROVE  RowShape([duration |-> PadTo(row.duration, n), mask |-> PadTo(row.mask, n)], d)
<1>1. /\ row.duration \in Seq(Nat) /\ row.mask \in Seq(Nat) /\ Len(row.mask) = Len(row.duration)
      /\ Len(d) <= Len(row.duration) /\ Len(d) \in Nat /\ Len(row.duration) \in Nat
      /\ \A j \in 1..Len(d) : row.duration[j] = d[j] /\ row.mask[j] = 1
      /\ \A j \in (Len(d) + 1)..Len(row.duration) : row.duration[j] = 0 /\ row.mask[j] = 0
  BY DEF RowShape
<1> DEFINE u == PadTo(row.duration, n)
           v == PadTo(row.mask, n)
           L == Len(row.duration)
<1>0. IsPadded(u, row.duration, n) /\ IsPadded(v, row.mask, n)
  BY <1>1, PadToProperties
<1> HIDE DEF u, v
<1>2. /\ u \in Seq(Nat) /\ Len(u) = IF n <= L THEN L ELSE n
      /\ \A j \in 1..L : u[j] = row.duration[j]
      /\ \A j \in (L + 1)..Len(u) : u[j] = 0
  BY <1>0 DEF IsPadded
<1>3. /\ v \in Seq(Nat) /\ Len(v) = IF n <= L THEN L ELSE n
      /\ \A j \in 1..L : v[j] = row.mask[j]
      /\ \A j \in (L + 1)..Len(v) : v[j] = 0
  BY <1>0, <1>1 DEF IsPadded
<1> HIDE DEF L
<1>4. L \in Nat /\ Len(d) <= L /\ L <= Len(u) /\ Len(v) = Len(u) /\ Len(u) \in Nat
  BY <1>1, <1>2, <1>3 DEF L
<1>5. ASSUME NEW j \in 1..Len(d) PROVE u[j] = d[j] /\ v[j] = 1
  <2>1. j \in 1..L
    BY <1>1, <1>4
  <2> QED BY <1>1, <1>2, <1>3, <2>1
<1>6. ASSUME NEW j \in (Len(d) + 1)..Len(u) PROVE u[j] = 0 /\ v[j] = 0
  <2>1. CASE j <= L
    <3>1. j \in 1..L /\ j \in (Len(d) + 1)..Len(row.duration)
      BY <1>1, <1>4, <2>1 DEF L
    <3> QED BY <1>1, <1>2, <1>3, <3>1
  <2>2. CASE j > L
    BY <1>1, <1>2, <1>3, <1>4, <2>2 DEF L
  <2> QED BY <1>4, <2>1, <2>2
<1>7. RowShape([duration |-> u, mask |-> v], d)
  BY <1>1, <1>2, <1>3, <1>4, <1>5, <1>6 DEF RowShape
<1> QED BY <1>7 DEF u, v

LEMMA SpelledType ==
    ASSUME NEW d \in Durs, d # <<>>
    PROVE  Spelled(d) \in Seq(1..Len(d))
<1> DEFINE a == [j \in 1..Len(d) |-> [k \in 1..d[j] |-> j]]
<1>1. Len(d) \in Nat \ {0} /\ \A j \in 1..Len(d) : d[j] \in Nat
  BY DEF Durs
<1>2. \A j \in 1..Len(d) : a[j] \in Seq(1..Len(d))
  BY <1>1, IsASeq
<1>3. a \in Seq(Seq(1..Len(d))) /\ Len(a) = Len(d) /\ a # <<>>
  BY <1>1, <1>2, IsASeq
<1>4. Spelled(d) = FlattenSeq(a)
  BY DEF Spelled
<1> HIDE DEF a
<1>5. Len(a) <= Len(a) /\ \A i \in (Len(a) + 1)..Len(a) : a[i] = <<>>
  BY <1>1, <1>3
<1>6. FlattenSeq(a) \in Seq(1..Len(d))
  BY ONLY <1>3, <1>5, FlattenPadded
<1> QED BY <1>4, <1>6

\* The alignment of a padded row is that of its text.
LEMMA AlignmentOfRow ==
    ASSUME NEW d \in Durs, d # <<>>, NEW row, RowShape(row, d)
    PROVE  Alignment(row) = Spelled(d)
<1> DEFINE a == [j \in 1..Len(d) |-> [k \in 1..d[j] |-> j]]
           b == [j \in DOMAIN row.duration |-> [k \in 1..Durations(row)[j] |-> j]]
           X == 1..Len(row.duration)
<1>1. Len(d) \in Nat \ {0} /\ \A j \in 1..Len(d) : d[j] \in Nat
  BY DEF Durs
<1>2. /\ Len(row.duration) \in Nat /\ Len(d) <= Len(row.duration)
      /\ DOMAIN row.duration = 1..Len(row.duration)
      /\ \A j \in 1..Len(d) : row.duration[j] = d[j] /\ row.mask[j] = 1
      /\ \A j \in (Len(d) + 1)..Len(row.duration) : row.duration[j] = 0 /\ row.mask[j] = 0
  BY DEF RowShape
<1>3. \A j \in 1..Len(d) : Durations(row)[j] = d[j]
  BY <1>1, <1>2 DEF Durations
<1>4. \A j \in (Len(d) + 1)..Len(row.duration) : Durations(row)[j] = 0
  BY <1>1, <1>2 DEF Durations
<1>5. \A j \in 1..Len(d) : a[j] \in Seq(X) /\ b[j] = a[j]
  <2> SUFFICES ASSUME NEW j \in 1..Len(d) PROVE a[j] \in Seq(X) /\ b[j] = a[j]
    OBVIOUS
  <2>1. j \in 1..Len(row.duration)
    BY <1>1, <1>2
  <2>2. a[j] = [k \in 1..d[j] |-> j] /\ b[j] = [k \in 1..d[j] |-> j]
    BY <1>2, <1>3, <2>1
  <2>3. [k \in 1..d[j] |-> j] \in Seq(X)
    BY <1>1, <2>1, IsASeq
  <2> QED BY <2>2, <2>3
<1>6. \A j \in (Len(d) + 1)..Len(row.duration) : b[j] = <<>>
  <2> SUFFICES ASSUME NEW j \in (Len(d) + 1)..Len(row.duration) PROVE b[j] = <<>>
    OBVIOUS
  <2>1. j \in 1..Len(row.duration)
    BY <1>1, <1>2
  <2>2. b[j] = [k \in 1..0 |-> j]
    BY <1>2, <1>4, <2>1
  <2> QED BY <2>2
<1>7. a \in Seq(Seq(X)) /\ Len(a) = Len(d) /\ a # <<>>
  <2>1. DOMAIN a = 1..Len(d) /\ a = [j \in 1..Len(d) |-> a[j]]
    OBVIOUS
  <2> HIDE DEF a, X
  <2>2. a \in [1..Len(d) -> Seq(X)]
    BY <1>5, <2>1
  <2> QED BY <1>1, <2>2, IsASeq
<1>8. b \in Seq(Seq(X)) /\ Len(b) = Len(row.duration)
  <2>1. b = [j \in 1..Len(row.duration) |-> b[j]]
    BY <1>2
  <2>2. <<>> \in Seq(X)
    OBVIOUS
  <2> HIDE DEF a, b, X
  <2>3. ASSUME NEW j \in 1..Len(row.duration) PROVE b[j] \in Seq(X)
    <3>1. j \in 1..Len(d) \/ j \in (Len(d) + 1)..Len(row.duration)
      BY <1>1, <1>2
    <3>2. CASE j \in 1..Len(d)
      <4>1. a[j] \in Seq(X) /\ b[j] = a[j]
        BY <1>5, <3>2
      <4> QED BY <4>1
    <3>3. CASE j \in (Len(d) + 1)..Len(row.duration)
      <4>1. b[j] = <<>>
        BY <1>6, <3>3
      <4> QED BY <2>2, <4>1
    <3> QED BY <3>1, <3>2, <3>3
  <2>4. b \in [1..Len(row.duration) -> Seq(X)]
    BY <2>1, <2>3
  <2> QED BY <1>2, <2>4, IsASeq
<1>9. Spelled(d) = FlattenSeq(a) /\ Alignment(row) = FlattenSeq(b)
  BY DEF Spelled, Alignment
<1> HIDE DEF a, b, X
<1>10. Len(a) <= Len(b) /\ \A j \in 1..Len(a) : b[j] = a[j]
  BY <1>2, <1>5, <1>7, <1>8
<1>11. \A j \in (Len(a) + 1)..Len(b) : b[j] = <<>>
  BY <1>6, <1>7, <1>8
<1> QED BY <1>7, <1>8, <1>9, <1>10, <1>11, FlattenPadded

\* The durations of a text add up to its frames.
LEMMA SpelledLength ==
    ASSUME NEW t \in Texts, Cut(t) # <<>>
    PROVE  Len(Spelled(Cut(t))) = FrameCount[t] /\ FrameCount[t] \in Nat \ {0}
<1> DEFINE d == Cut(t)
           N == Len(d)
           P(n) == \E f : f = [k \in 0..n |-> IF k = 0 THEN 0 ELSE f[k - 1] + d[k]]
           T == {n \in Nat : P(n)}
<1>1. d \in Durs /\ d # <<>> /\ N \in Nat \ {0} /\ \A k \in 1..N : d[k] \in Nat \ {0}
  BY CutType DEF Durs
<1>2. \A n \in Nat : n \in T <=> P(n)
  OBVIOUS
<1> HIDE DEF d
<1>3. P(0)
  <2> DEFINE f == [k \in 0..0 |-> 0]
  <2>1. \A k \in 0..0 : k = 0
    OBVIOUS
  <2>2. f = [k \in 0..0 |-> IF k = 0 THEN 0 ELSE f[k - 1] + d[k]]
    BY <2>1
  <2> QED BY <2>2
<1>4. ASSUME NEW n \in Nat, P(n) PROVE P(n + 1)
  <2>1. PICK f : f = [k \in 0..n |-> IF k = 0 THEN 0 ELSE f[k - 1] + d[k]]
    BY <1>4
  <2>2. \A k \in 0..n : f[k] = IF k = 0 THEN 0 ELSE f[k - 1] + d[k]
    BY <2>1
  <2> DEFINE g == [k \in 0..(n + 1) |-> IF k = n + 1 THEN f[k - 1] + d[k] ELSE f[k]]
  <2>3. \A k \in 0..n : g[k] = f[k]
    OBVIOUS
  <2>4. ASSUME NEW k \in 0..(n + 1) PROVE g[k] = IF k = 0 THEN 0 ELSE g[k - 1] + d[k]
    <3>1. k # 0 => k - 1 \in 0..n
      OBVIOUS
    <3>2. CASE k = n + 1
      BY <2>3, <3>1, <3>2
    <3>3. CASE k \in 0..n
      BY <2>2, <2>3, <3>1, <3>3
    <3> QED BY <3>2, <3>3
  <2>5. g = [k \in 0..(n + 1) |-> IF k = 0 THEN 0 ELSE g[k - 1] + d[k]]
    BY <2>4
  <2> HIDE DEF g
  <2> QED BY <2>5
<1> HIDE DEF P, T
<1>5. P(N)
  <2>1. 0 \in T
    BY <1>2, <1>3
  <2>2. \A n \in Nat : n \in T => n + 1 \in T
    BY <1>2, <1>4
  <2>3. N \in T
    BY <1>1, <2>1, <2>2, CountingUp
  <2> QED BY <1>1, <1>2, <2>3
<1> DEFINE F == CHOOSE f : f = [k \in 0..N |-> IF k = 0 THEN 0 ELSE f[k - 1] + d[k]]
<1>6. F = [k \in 0..N |-> IF k = 0 THEN 0 ELSE F[k - 1] + d[k]]
  BY <1>5, Zenon DEF P
<1>7. FrameCount[t] = F[N]
  BY Zenon DEF FrameCount, d
<1> DEFINE a == [j \in 1..N |-> [k \in 1..d[j] |-> j]]
           X == 1..N
<1>8. \A j \in 1..N : a[j] \in Seq(X) /\ Len(a[j]) = d[j]
  BY <1>1, IsASeq
<1>9. a \in Seq(Seq(X)) /\ Len(a) = N /\ a # <<>> /\ Spelled(d) = FlattenSeq(a)
  <2>1. a = [j \in 1..N |-> a[j]]
    OBVIOUS
  <2>2. Spelled(d) = FlattenSeq(a)
    BY DEF Spelled
  <2> HIDE DEF a, X, N
  <2>3. a \in [1..N -> Seq(X)]
    BY <1>8, <2>1
  <2> QED BY <1>1, <2>2, <2>3, IsASeq
<1> HIDE DEF F, N, a, X
<1>10. F[0] = 0 /\ \A k \in 1..N : F[k] = F[k - 1] + d[k]
  <2>1. 0 \in 0..N /\ \A k \in 1..N : k \in 0..N /\ k # 0
    BY <1>1
  <2>2. \A k \in 0..N : F[k] = IF k = 0 THEN 0 ELSE F[k - 1] + d[k]
    BY <1>6
  <2> QED BY <2>1, <2>2
<1>11. PICK f : /\ f \in [1..N -> Seq(X)]
                /\ f[1] = a[1]
                /\ \A i \in 2..N : f[i] = f[i - 1] \o a[i]
                /\ f[N] = FlattenSeq(a)
  BY <1>9, Flattened
<1> DEFINE U == {n \in Nat : n + 1 <= N => Len(f[n + 1]) = F[n + 1] /\ F[n + 1] \in Nat \ {0}}
<1>12. \A n \in Nat : n \in U <=> (n + 1 <= N => Len(f[n + 1]) = F[n + 1] /\ F[n + 1] \in Nat \ {0})
  OBVIOUS
<1> HIDE DEF U
<1>13. 0 \in U
  <2>1. 1 \in 1..N /\ 0 + 1 = 1 /\ 1 - 1 = 0
    BY <1>1
  <2>2. Len(f[1]) = d[1] /\ F[1] = F[0] + d[1] /\ d[1] \in Nat \ {0}
    BY <1>1, <1>8, <1>10, <1>11, <2>1
  <2> QED BY <1>10, <1>12, <2>1, <2>2
<1>14. ASSUME NEW n \in Nat, n \in U PROVE n + 1 \in U
  <2> DEFINE m == (n + 1) + 1
  <2> SUFFICES ASSUME m <= N PROVE Len(f[m]) = F[m] /\ F[m] \in Nat \ {0}
    BY <1>12
  <2>1. m \in 2..N /\ m \in 1..N /\ m - 1 = n + 1 /\ n + 1 \in 1..N
    BY <1>1
  <2>2. f[m] = f[n + 1] \o a[m] /\ F[m] = F[n + 1] + d[m]
    BY <1>10, <1>11, <2>1
  <2>3. Len(f[n + 1]) = F[n + 1] /\ F[n + 1] \in Nat \ {0}
    BY <1>12, <1>14, <2>1
  <2>4. f[n + 1] \in Seq(X) /\ a[m] \in Seq(X) /\ Len(a[m]) = d[m] /\ d[m] \in Nat \ {0}
    BY <1>1, <1>8, <1>11, <2>1
  <2>5. Len(f[n + 1] \o a[m]) = Len(f[n + 1]) + Len(a[m])
    BY <2>4, ConcatProperties
  <2> QED BY <2>2, <2>3, <2>4, <2>5
<1>15. Len(f[N]) = F[N] /\ F[N] \in Nat \ {0}
  <2>1. N - 1 \in Nat /\ (N - 1) + 1 = N /\ N <= N
    BY <1>1
  <2>2. N - 1 \in U
    BY <1>13, <1>14, <2>1, CountingUp
  <2> QED BY <1>12, <2>1, <2>2
<1> QED BY <1>7, <1>9, <1>11, <1>15 DEF d

------------------------------------------------------------------------------
(* What a row is answered with. *)

Frame == [token : Nat, clean : BOOLEAN]
Said(d, n) == [k \in 1..n |-> [token |-> Spelled(d)[k], clean |-> TRUE]]

LEMMA PredictedLengthOfRow ==
    ASSUME NEW d \in Durs, d # <<>>, NEW row, Alignment(row) = Spelled(d),
           Len(Spelled(d)) \in Nat \ {0}
    PROVE  /\ PredictedLength(row) = IF Len(Spelled(d)) > MaxFrames THEN MaxFrames
                                                                     ELSE Len(Spelled(d))
           /\ PredictedLength(row) \in 1..Len(Spelled(d))
BY FramesAssumption DEF PredictedLength

\* No noise gets into the row, and none of its frames is cut off or left over.
LEMMA TrimmedRow ==
    ASSUME NEW d \in Durs, d # <<>>, NEW row, Alignment(row) = Spelled(d),
           Len(Spelled(d)) \in Nat \ {0}, NEW T \in Nat, PredictedLength(row) <= T
    PROVE  Trimmed(Latents(row, T)) = Said(d, PredictedLength(row))
<1> DEFINE A    == Spelled(d)
           len  == PredictedLength(row)
           said == SubSeq(A, 1, len)
           none == [k \in 1..(len - Len(said)) |-> Noise]
           rest == [k \in 1..(T - len) |-> 0]
           z    == Prior(row, T)
           Clean(k) == \A m \in (k - Reach)..(k + Reach) : m \in 1..T => z[m] # Noise
           own  == [k \in 1..len |-> [token |-> z[k], clean |-> Clean(k)]]
           hush == [k \in 1..(T - len) |-> Silence]
<1>1. /\ A \in Seq(1..Len(d)) /\ Len(A) \in Nat \ {0} /\ Len(d) \in Nat \ {0}
      /\ len \in 1..Len(A) /\ len \in Nat \ {0} /\ T \in Nat /\ len <= T /\ T - len \in Nat
      /\ \A k \in 1..len : A[k] \in 1..Len(d)
  <2>1. A \in Seq(1..Len(d)) /\ Len(d) \in Nat \ {0}
    BY SpelledType DEF Durs
  <2>2. len \in 1..Len(A)
    BY PredictedLengthOfRow
  <2>3. \A k \in 1..len : k \in 1..Len(A)
    BY <2>2
  <2> QED BY <2>1, <2>2, <2>3
<1>2. z = said \o none \o rest
  BY DEF Prior
<1>3. Latents(row, T) = own \o hush
  BY DEF Latents
<1> HIDE DEF A, len, z
<1>4. /\ said \in Seq(Int) /\ Len(said) = len
      /\ \A k \in 1..len : said[k] = A[k]
  <2>1. A \in Seq(Int)
    BY <1>1, SeqMonotonic
  <2> QED BY <1>1, <2>1, SubSeqProperties
<1> HIDE DEF said
<1>5. none = <<>>
  <2>1. 1..(len - Len(said)) = {}
    BY <1>1, <1>4
  <2>2. none = [k \in {} |-> Noise]
    BY <2>1, Zenon
  <2> QED BY <2>2
<1> HIDE DEF none
<1>6. rest \in Seq(Int) /\ Len(rest) = T - len /\ \A k \in 1..(T - len) : rest[k] = 0
  BY <1>1, IsASeq
<1>7. hush \in Seq(Frame) /\ Len(hush) = T - len /\ \A k \in 1..(T - len) : hush[k] = Silence
  BY <1>1, IsASeq DEF Silence, Frame
<1> HIDE DEF rest, hush
<1>8. z = said \o rest
  <2>1. said \o <<>> = said
    BY <1>4, ConcatEmptySeq
  <2> QED BY <1>2, <1>5, <2>1
<1>9. ASSUME NEW k \in 1..T PROVE z[k] = (IF k <= len THEN A[k] ELSE 0) /\ z[k] # Noise
  <2>1. k \in 1..(Len(said) + Len(rest))
    BY <1>1, <1>4, <1>6
  <2>2. z[k] = IF k <= len THEN said[k] ELSE rest[k - len]
    BY <1>4, <1>6, <1>8, <2>1, ConcatProperties
  <2>3. CASE k <= len
    <3>1. k \in 1..len
      BY <1>1, <2>3
    <3> QED BY <1>1, <1>4, <2>2, <2>3, <3>1 DEF Noise
  <2>4. CASE ~(k <= len)
    <3>1. k - len \in 1..(T - len)
      BY <1>1, <2>4
    <3> QED BY <1>6, <2>2, <2>4, <3>1 DEF Noise
  <2> QED BY <2>3, <2>4
<1>10. own = Said(d, len)
  <2>1. ASSUME NEW k \in 1..len PROVE z[k] = A[k] /\ Clean(k)
    <3>1. k \in 1..T /\ k <= len
      BY <1>1
    <3> QED BY <1>9, <3>1
  <2>2. ASSUME NEW k \in 1..len
        PROVE  [token |-> z[k], clean |-> Clean(k)] = [token |-> A[k], clean |-> TRUE]
    BY <2>1
  <2> QED BY <2>2 DEF Said, A
<1> HIDE DEF own
<1> DEFINE mine == Said(d, len)
<1>11. /\ mine \in Seq(Frame) /\ Len(mine) = len
       /\ \A k \in 1..len : mine[k] = [token |-> A[k], clean |-> TRUE]
  <2>1. \A k \in 1..len : [token |-> A[k], clean |-> TRUE] \in Frame
    BY <1>1 DEF Frame
  <2>2. mine = [k \in 1..len |-> [token |-> A[k], clean |-> TRUE]]
    BY DEF Said, A
  <2> HIDE DEF mine
  <2> QED BY <1>1, <2>1, <2>2, IsASeq
<1> HIDE DEF mine
<1> DEFINE L == mine \o hush
<1>12. /\ L \in Seq(Frame) /\ Len(L) = T
       /\ \A k \in 1..T : L[k] = IF k <= len THEN mine[k] ELSE hush[k - len]
  <2>1. Len(mine) + Len(hush) = T
    BY <1>1, <1>7, <1>11
  <2> QED BY <1>7, <1>11, <2>1, ConcatProperties
<1>13. Latents(row, T) = L
  BY <1>3, <1>10 DEF mine
<1> HIDE DEF L
<1> DEFINE S == {k \in 1..Len(L) : L[k] # Silence}
<1>14. S = 1..len
  <2>1. ASSUME NEW k \in 1..T PROVE L[k] # Silence <=> k <= len
    <3>1. CASE k <= len
      <4>1. k \in 1..len
        BY <1>1, <3>1
      <4>2. L[k].token = A[k] /\ A[k] # 0
        BY <1>1, <1>11, <1>12, <3>1, <4>1
      <4> QED BY <3>1, <4>2 DEF Silence
    <3>2. CASE ~(k <= len)
      <4>1. k - len \in 1..(T - len)
        BY <1>1, <3>2
      <4> QED BY <1>7, <1>12, <3>2, <4>1
    <3> QED BY <3>1, <3>2
  <2>2. \A k \in 1..T : k <= len <=> k \in 1..len
    BY <1>1
  <2>3. \A k \in 1..len : k \in 1..T
    BY <1>1
  <2> QED BY <1>12, <2>1, <2>2, <2>3
<1> HIDE DEF S
<1>15. S # {} /\ (CHOOSE k \in S : \A l \in S : l <= k) = len
  <2>1. len \in S /\ \A l \in S : l <= len
    BY <1>1, <1>14
  <2> DEFINE c == CHOOSE k \in S : \A l \in S : l <= k
  <2>2. c \in S /\ \A l \in S : l <= c
    BY <2>1
  <2> HIDE DEF c
  <2>3. c = len
    BY <1>1, <1>14, <2>1, <2>2
  <2> QED BY <2>1, <2>3 DEF c
<1>16. Trimmed(L) = SubSeq(L, 1, len)
  BY <1>15 DEF Trimmed, S
<1>17. SubSeq(L, 1, len) = mine
  <2> DEFINE u == SubSeq(L, 1, len)
  <2>1. u \in Seq(Frame) /\ Len(u) = len /\ \A k \in 1..len : u[k] = L[k]
    BY <1>1, <1>12, SubSeqProperties
  <2> HIDE DEF u
  <2>2. \A k \in 1..len : L[k] = mine[k]
    BY <1>1, <1>12
  <2>3. u = mine
    BY <1>11, <2>1, <2>2, SeqEqual
  <2> QED BY <2>3 DEF u
<1> QED BY <1>13, <1>16, <1>17 DEF mine, len

\* How many frames a text is answered with by the engines.
Capped(t) == IF FrameCount[t] > MaxFrames THEN MaxFrames ELSE FrameCount[t]

\* A batch of requests, each for a text with something to say.
IsBatchOf(requests, n, t) ==
    /\ DOMAIN requests = 1..n /\ Len(requests) = n
    /\ \A i \in 1..n : t[i] \in Texts /\ Cut(t[i]) # <<>> /\ RowShape(requests[i], Cut(t[i]))

\* The rows of a batch are those of its texts, padded.
LEMMA RowsOfBatch ==
    ASSUME NEW n \in Nat \ {0}, NEW t, NEW requests, IsBatchOf(requests, n, t)
    PROVE  /\ DOMAIN Rows(requests) = 1..n /\ Len(Rows(requests)) = n
           /\ \A i \in 1..n : RowShape(Rows(requests)[i], Cut(t[i]))
<1> DEFINE lens == [i \in 1..Len(requests) |-> Len(requests[i].duration)]
           smax == LongestOf(lens)
<1>1. /\ Len(requests) = n
      /\ \A i \in 1..n : t[i] \in Texts /\ RowShape(requests[i], Cut(t[i]))
  BY DEF IsBatchOf
<1>2. \A i \in 1..n : Len(requests[i].duration) \in Nat
  BY <1>1 DEF RowShape
<1>3. lens \in Seq(Nat) /\ lens # <<>>
  <2>1. lens = [i \in 1..n |-> Len(requests[i].duration)]
    BY <1>1
  <2> HIDE DEF lens
  <2>2. lens \in Seq(Nat) /\ Len(lens) = n
    BY <1>2, <2>1, IsASeq
  <2> QED BY <2>2
<1> HIDE DEF lens
<1>4. smax \in Nat
  BY <1>3, LongestIsMax
<1>5. Rows(requests) = [i \in 1..n |-> [duration |-> PadTo(requests[i].duration, smax),
                                        mask     |-> PadTo(requests[i].mask, smax)]]
  BY <1>1 DEF Rows, lens
<1> HIDE DEF smax
<1>6. ASSUME NEW i \in 1..n PROVE RowShape(Rows(requests)[i], Cut(t[i]))
  <2>1. Cut(t[i]) \in Seq(Nat)
    BY <1>1, CutType
  <2>2. RowShape([duration |-> PadTo(requests[i].duration, smax),
                  mask     |-> PadTo(requests[i].mask, smax)], Cut(t[i]))
    BY <1>1, <1>4, <2>1, PaddedShape
  <2> QED BY <1>5, <2>2
<1>7. DOMAIN Rows(requests) = 1..n /\ Len(Rows(requests)) = n
  BY <1>5
<1> QED BY <1>6, <1>7

\* Every request is answered with its own frames, by the engines and by PyTorch.
LEMMA AnswersAreOwn ==
    ASSUME NEW n \in Nat \ {0}, NEW t, NEW requests, IsBatchOf(requests, n, t), NEW i \in 1..n
    PROVE  /\ Answer(requests, i) = Said(Cut(t[i]), Capped(t[i]))
           /\ TorchAnswer(requests, i) = Said(Cut(t[i]), FrameCount[t[i]])
<1> DEFINE rows  == Rows(requests)
           preds == [j \in 1..Len(rows) |-> PredictedLength(rows[j])]
<1>1. /\ DOMAIN rows = 1..n /\ Len(rows) = n
      /\ \A j \in 1..n : RowShape(rows[j], Cut(t[j]))
  BY RowsOfBatch
<1> HIDE DEF rows
<1>2. ASSUME NEW j \in 1..n
      PROVE  /\ Cut(t[j]) \in Durs /\ Cut(t[j]) # <<>>
             /\ Alignment(rows[j]) = Spelled(Cut(t[j]))
             /\ Len(Spelled(Cut(t[j]))) = FrameCount[t[j]]
             /\ FrameCount[t[j]] \in Nat \ {0}
             /\ PredictedLength(rows[j]) = Capped(t[j])
             /\ PredictedLength(rows[j]) \in Nat
  <2>1. t[j] \in Texts /\ Cut(t[j]) # <<>>
    BY DEF IsBatchOf
  <2>2. Cut(t[j]) \in Durs
    BY <2>1, CutType
  <2>3. Alignment(rows[j]) = Spelled(Cut(t[j]))
    BY <1>1, <2>1, <2>2, AlignmentOfRow
  <2>4. Len(Spelled(Cut(t[j]))) = FrameCount[t[j]] /\ FrameCount[t[j]] \in Nat \ {0}
    BY <2>1, SpelledLength
  <2>5. /\ PredictedLength(rows[j]) = Capped(t[j])
        /\ PredictedLength(rows[j]) \in 1..Len(Spelled(Cut(t[j])))
    BY <2>1, <2>2, <2>3, <2>4, PredictedLengthOfRow DEF Capped
  <2>6. PredictedLength(rows[j]) \in Nat
    BY <2>4, <2>5
  <2> QED BY <2>1, <2>2, <2>3, <2>4, <2>5, <2>6
<1>3. preds \in Seq(Nat) /\ Len(preds) = n /\ preds # <<>>
  <2>1. preds = [j \in 1..n |-> PredictedLength(rows[j])]
    BY <1>1
  <2> HIDE DEF preds
  <2>2. \A j \in 1..n : PredictedLength(rows[j]) \in Nat
    BY <1>2
  <2> QED BY <2>1, <2>2, IsASeq
<1>4. preds[i] = PredictedLength(rows[i]) /\ BatchLength(rows) = LongestOf(preds)
  BY <1>1 DEF BatchLength
<1> HIDE DEF preds
<1>5. BatchLength(rows) \in Nat /\ PredictedLength(rows[i]) <= BatchLength(rows)
  BY <1>3, <1>4, LongestIsMax
<1>6. Trimmed(Latents(rows[i], BatchLength(rows))) = Said(Cut(t[i]), PredictedLength(rows[i]))
  <2>1. /\ Cut(t[i]) \in Durs /\ Cut(t[i]) # <<>>
        /\ Alignment(rows[i]) = Spelled(Cut(t[i]))
        /\ Len(Spelled(Cut(t[i]))) \in Nat \ {0}
    BY <1>2
  <2> DEFINE row == rows[i]  d == Cut(t[i])  T == BatchLength(rows)
  <2>2. d \in Durs /\ d # <<>> /\ Alignment(row) = Spelled(d) /\ Len(Spelled(d)) \in Nat \ {0}
        /\ T \in Nat /\ PredictedLength(row) <= T
    BY <1>5, <2>1
  <2> HIDE DEF row, d, T
  <2>3. Trimmed(Latents(row, T)) = Said(d, PredictedLength(row))
    BY <2>2, TrimmedRow
  <2> QED BY <2>3 DEF row, d, T
<1>7. Answer(requests, i) = Said(Cut(t[i]), Capped(t[i]))
  <2>1. Answer(requests, i) = Trimmed(Latents(rows[i], BatchLength(rows)))
    BY DEF Answer, rows
  <2> QED BY <1>2, <1>6, <2>1
<1>8. TorchAnswer(requests, i) = Said(Cut(t[i]), FrameCount[t[i]])
  <2>1. TorchAnswer(requests, i) =
          [k \in 1..Len(Alignment(rows[i])) |-> [token |-> Alignment(rows[i])[k], clean |-> TRUE]]
    BY DEF TorchAnswer, rows
  <2> QED BY <1>2, <2>1 DEF Said
<1> QED BY <1>7, <1>8

LEMMA SaidType ==
    ASSUME NEW t \in Texts, Cut(t) # <<>>, NEW n \in 1..FrameCount[t]
    PROVE  /\ Said(Cut(t), n) \in Seq(Frame) /\ Len(Said(Cut(t), n)) = n
           /\ Said(Cut(t), n) # <<>>
           /\ \A k \in 1..n : Said(Cut(t), n)[k].clean
<1> DEFINE d == Cut(t)
           s == Said(d, n)
<1>1. /\ Spelled(d) \in Seq(1..Len(d)) /\ Len(Spelled(d)) = FrameCount[t]
      /\ FrameCount[t] \in Nat \ {0} /\ Len(d) \in Nat
  <2>1. d \in Durs
    BY CutType
  <2> QED BY <2>1, SpelledType, SpelledLength DEF Durs
<1> HIDE DEF d
<1>2. n \in Nat \ {0} /\ \A k \in 1..n : k \in 1..Len(Spelled(d))
  BY <1>1
<1>3. \A k \in 1..n : Spelled(d)[k] \in Nat
  BY <1>1, <1>2
<1>4. \A k \in 1..n : [token |-> Spelled(d)[k], clean |-> TRUE] \in Frame
  BY <1>3 DEF Frame
<1>5. s = [k \in 1..n |-> [token |-> Spelled(d)[k], clean |-> TRUE]]
  BY DEF Said
<1> HIDE DEF s
<1>6. s \in Seq(Frame) /\ Len(s) = n /\ s # <<>>
  <2> DEFINE g(k) == [token |-> Spelled(d)[k], clean |-> TRUE]
  <2>1. \A k \in 1..n : g(k) \in Frame
    BY <1>4
  <2>2. s = [k \in 1..n |-> g(k)]
    BY <1>5
  <2> HIDE DEF g
  <2>3. s \in Seq(Frame) /\ Len(s) = n
    BY <1>2, <2>1, <2>2
  <2> QED BY <1>2, <2>3
<1>7. \A k \in 1..n : s[k].clean
  BY <1>5
<1> QED BY <1>6, <1>7 DEF s, d

------------------------------------------------------------------------------
(* The invariant. *)

\* The latents of an utterance, whoever it shares a batch with.
Own(r) == Said(Tokens(r), FramesOf(r))

\* Only a text with something to say gets past hop 1, and only its own latents
\* come back from hop 2.
TokensOK(r) == pc[r] \in {"acoustic", "start", "stream"} => Tokens(r) # <<>>
LatentsOK(r) == latents[r] # <<>> => Tokens(r) # <<>> /\ latents[r] = Own(r)

\* A caller's utterances do not overlap.
Turns ==
    \A q, r \in Utterances :
      q < r /\ CallerOf[q] = CallerOf[r] /\ pc[r] # "waiting" => pc[q] = "done"

\* A client that has a stream is in it.
InStream(r) == pc[r] \in {"stream", "stopping"}
StreamsHeld ==
    \A c \in Callers : open[c] => \E r \in Utterances : CallerOf[r] = c /\ InStream(r)

Position(r) == IF played[r] = <<>> THEN 0 ELSE played[r][Len(played[r])][2]
StartOf(r, k) == IF k = 1 THEN Position(r) ELSE wire[r][k - 1].piece[2]

\* Between frame x and frame y there is nothing that is not missing.
Gap(missing, x, y) == x <= y /\ \A n \in Nat : x <= n /\ n < y => n \in missing

\* A message on the wire is the next piece of the utterance that was not lost, or
\* an error, and then the last.
MessageOK(r, k) ==
    IF wire[r][k].error
      THEN k = Len(wire[r]) /\ sent[r] = Len(latents[r])
      ELSE /\ Gap(lost[r], StartOf(r, k), wire[r][k].piece[1])
           /\ wire[r][k].piece[1] < wire[r][k].piece[2]
           /\ wire[r][k].piece[2] <= Len(latents[r])
           /\ wire[r][k].final <=> wire[r][k].piece[2] = Len(latents[r])

OrderOK(r) ==
    /\ sent[r] <= Len(latents[r])
    /\ \A k \in 1..Len(wire[r]) : MessageOK(r, k)
    /\ IF wire[r] = <<>> THEN Gap(lost[r], Position(r), sent[r])
       ELSE \/ wire[r][Len(wire[r])].error
            \/ Gap(lost[r], wire[r][Len(wire[r])].piece[2], sent[r])

\* A loop that ended well has got to the end of the utterance.
WholeOK(r) == outcome[r] = "complete" => latents[r] # <<>> /\ Position(r) = Len(latents[r])

Underway == {"stream", "stopping", "done"}
StreamOK(r) ==
    /\ pc[r] \notin Underway => wire[r] = <<>> /\ sent[r] = 0 /\ played[r] = <<>>
    /\ pc[r] = "stream" => OrderOK(r)
    /\ WholeOK(r)

Inv ==
    /\ TypeOK /\ Turns /\ StreamsHeld
    /\ \A r \in Utterances : TokensOK(r) /\ LatentsOK(r) /\ StreamOK(r)

LEMMA BatchFacts ==
    ASSUME NEW batch \in Batches
    PROVE  /\ batch \in Seq(Waiting) /\ Len(batch) \in 1..MaxBatch
           /\ ToSet(batch) = {batch[i] : i \in 1..Len(batch)} /\ ToSet(batch) \subseteq Waiting
           /\ \A r \in ToSet(batch) : /\ Index(batch, r) \in 1..Len(batch)
                                      /\ batch[Index(batch, r)] = r
<1>1. PICK S \in SUBSET Waiting : batch \in SetToSeqs(S)
  BY DEF Batches
<1>2. Len(batch) \in 1..MaxBatch
  BY DEF Batches
<1>3. Cardinality(S) \in Nat
  <2>1. IsFiniteSet(Utterances)
    BY PipelineAssumption, FS_Interval DEF Utterances
  <2>2. S \subseteq Utterances
    BY DEF Waiting
  <2>3. IsFiniteSet(S)
    BY <2>1, <2>2, FS_Subset
  <2> QED BY <2>3, FS_CardinalityType
<1>4. batch \in [1..Cardinality(S) -> S]
  BY <1>1 DEF SetToSeqs
<1>5. batch \in Seq(Waiting)
  BY <1>3, <1>4
<1>6. ToSet(batch) = {batch[i] : i \in 1..Len(batch)} /\ ToSet(batch) \subseteq Waiting
  BY <1>5 DEF ToSet
<1>7. ASSUME NEW r \in ToSet(batch)
      PROVE  Index(batch, r) \in 1..Len(batch) /\ batch[Index(batch, r)] = r
  <2>1. \E i \in 1..Len(batch) : batch[i] = r
    BY <1>6
  <2> QED BY <2>1 DEF Index
<1> QED BY <1>2, <1>5, <1>6, <1>7

LEMMA FramesFacts ==
    ASSUME TypeOK, NEW r \in Utterances, Tokens(r) # <<>>
    PROVE  /\ FramesOf(r) \in 1..FrameCount[text[r]]
           /\ FrameCount[text[r]] \in Nat \ {0}
           /\ FramesOf(r) = IF engines THEN Capped(text[r]) ELSE FrameCount[text[r]]
<1>1. text[r] \in Texts
  BY DEF TypeOK
<1>2. FrameCount[text[r]] \in Nat \ {0}
  BY <1>1, SpelledLength DEF Tokens
<1> QED BY <1>2, FramesAssumption DEF FramesOf, Capped

LEMMA OwnType ==
    ASSUME TypeOK, NEW r \in Utterances, Tokens(r) # <<>>
    PROVE  /\ Own(r) \in Seq(Frame) /\ Len(Own(r)) = FramesOf(r) /\ Own(r) # <<>>
           /\ \A k \in 1..FramesOf(r) : Own(r)[k].clean
<1>1. text[r] \in Texts
  BY DEF TypeOK
<1>2. FramesOf(r) \in 1..FrameCount[text[r]]
  BY FramesFacts
<1> QED BY <1>1, <1>2, SaidType DEF Own, Tokens

\* What hop 2 answers each request of a batch.
LEMMA FusedAnswers ==
    ASSUME TypeOK, \A r \in Utterances : TokensOK(r),
           NEW batch \in Batches, NEW r \in ToSet(batch)
    PROVE  /\ r \in Utterances /\ Tokens(r) # <<>>
           /\ Fused(batch).answers[Index(batch, r)] = Own(r)
<1> DEFINE n    == Len(batch)
           rows == [k \in 1..Len(batch) |-> Row(batch[k])]
           t    == [k \in 1..n |-> text[batch[k]]]
           i    == Index(batch, r)
<1>1. n \in 1..MaxBatch /\ n \in Nat \ {0} /\ i \in 1..n /\ batch[i] = r
  BY BatchFacts, PipelineAssumption
<1>2. \A k \in 1..n : batch[k] \in Utterances /\ pc[batch[k]] = "acoustic"
  BY BatchFacts DEF Waiting
<1>3. ASSUME NEW k \in 1..n
      PROVE  /\ t[k] = text[batch[k]] /\ t[k] \in Texts /\ Cut(t[k]) # <<>>
             /\ rows[k] = RowOf(t[k], padding[batch[k]]) /\ padding[batch[k]] \in Pads
             /\ RowShape(rows[k], Cut(t[k]))
  <2>1. batch[k] \in Utterances /\ Tokens(batch[k]) # <<>>
    BY <1>2 DEF TokensOK
  <2>2. /\ t[k] = text[batch[k]] /\ t[k] \in Texts /\ Cut(t[k]) # <<>>
        /\ padding[batch[k]] \in Pads /\ padding[batch[k]] \in Nat
    BY <2>1, PipelineAssumption DEF TypeOK, Tokens
  <2>3. rows[k] = RowOf(t[k], padding[batch[k]])
    BY DEF Row
  <2> QED BY <2>2, <2>3, RowOfShape
<1>4. rows \in Batch
  <2>1. rows \in [1..n -> {RowOf(u, p) : u \in Texts, p \in Pads}]
    <3>1. \A k \in 1..n : rows[k] \in {RowOf(u, p) : u \in Texts, p \in Pads}
      BY <1>3
    <3>2. rows = [k \in 1..n |-> rows[k]]
      OBVIOUS
    <3> HIDE DEF rows
    <3> QED BY <3>1, <3>2
  <2> QED BY <1>1, <2>1 DEF Batch
<1>5. IsBatchOf(rows, n, t)
  <2>1. DOMAIN rows = 1..n /\ Len(rows) = n
    BY <1>1
  <2> HIDE DEF rows, t
  <2> QED BY <1>3, <2>1 DEF IsBatchOf
<1>6. Len(rows) = n
  BY <1>5 DEF IsBatchOf
<1>7. Fused(batch) = IF engines THEN Engines[rows] ELSE Torch[rows]
  BY DEF Fused
<1>8. t[i] = text[r] /\ r \in Utterances /\ Tokens(r) # <<>>
  BY <1>1, <1>2, <1>3 DEF Tokens
<1> HIDE DEF rows, t, i, n
<1>9. /\ Engines[rows].answers = [k \in 1..n |-> Answer(rows, k)]
      /\ Torch[rows].answers = [k \in 1..n |-> TorchAnswer(rows, k)]
  BY <1>4, <1>6 DEF Engines, Torch
<1>10. /\ Answer(rows, i) = Said(Cut(text[r]), Capped(text[r]))
       /\ TorchAnswer(rows, i) = Said(Cut(text[r]), FrameCount[text[r]])
  BY <1>1, <1>5, <1>8, AnswersAreOwn
<1>11. FramesOf(r) = IF engines THEN Capped(text[r]) ELSE FrameCount[text[r]]
  BY <1>8, FramesFacts
<1>12. Fused(batch).answers[i] = Own(r)
  <2>1. CASE engines
    BY <1>1, <1>7, <1>9, <1>10, <1>11, <2>1 DEF Own, Tokens
  <2>2. CASE ~engines
    BY <1>1, <1>7, <1>9, <1>10, <1>11, <2>2 DEF Own, Tokens
  <2> QED BY <2>1, <2>2
<1> QED BY <1>8, <1>12 DEF i

LEMMA Steady ==
    [Next]_vars => text' = text /\ padding' = padding /\ engines' = engines
BY DEF Next, vars, server, Initialize, TextFrontend, AcousticFrontend, Call, StartStream,
       Receive, Timeout, StopStream, Leave, SendChunk, LoseChunk, SendError, triton

\* What does not change keeps the meaning of what is made from it.
LEMMA SteadyMeaning ==
    ASSUME text' = text, padding' = padding, engines' = engines, NEW r \in Utterances
    PROVE  Tokens(r)' = Tokens(r) /\ FramesOf(r)' = FramesOf(r) /\ Own(r)' = Own(r)
BY DEF Tokens, FramesOf, Own

LEMMA InitType == Init => TypeOK
<1> SUFFICES ASSUME Init PROVE TypeOK
  OBVIOUS
<1>1. /\ text \in [Utterances -> Texts] /\ padding \in [Utterances -> Pads]
      /\ engines \in BOOLEAN /\ ready \in BOOLEAN
  BY DEF Init
<1>2. pc \in [Utterances -> {"waiting", "text", "acoustic", "start", "stream", "stopping", "done"}]
      /\ outcome \in [Utterances -> {"streaming", "complete", "failed"}]
      /\ sent \in [Utterances -> Nat] /\ lost \in [Utterances -> SUBSET Nat]
      /\ answered \in [Utterances -> BOOLEAN] /\ open \in [Callers -> BOOLEAN]
  BY DEF Init
<1>3. /\ latents \in [Utterances -> Seq([token : Nat, clean : BOOLEAN])]
      /\ wire \in [Utterances -> Seq([error : BOOLEAN, piece : Nat \X Nat, final : BOOLEAN])]
      /\ played \in [Utterances -> Seq(Nat \X Nat)]
  BY DEF Init
<1>4. \A r \in Utterances : (pc[r] \in {"stopping", "done"}) = (outcome[r] # "streaming")
  BY DEF Init
<1> QED BY <1>1, <1>2, <1>3, <1>4 DEF TypeOK

LEMMA InitInv == Init => Inv
<1> SUFFICES ASSUME Init PROVE Inv
  OBVIOUS
<1>1. TypeOK
  BY InitType
<1>2. Turns /\ StreamsHeld
  BY DEF Init, Turns, StreamsHeld, Callers
<1>3. ASSUME NEW r \in Utterances PROVE TokensOK(r) /\ LatentsOK(r) /\ StreamOK(r)
  BY DEF Init, TokensOK, LatentsOK, StreamOK, WholeOK, Underway
<1> QED BY <1>1, <1>2, <1>3 DEF Inv

Message == [error : BOOLEAN, piece : Nat \X Nat, final : BOOLEAN]

LEMMA TypeStep == Inv /\ [Next]_vars => TypeOK'
<1> SUFFICES ASSUME Inv, [Next]_vars PROVE TypeOK'
  OBVIOUS
<1> USE DEF server, triton
<1>t. TypeOK /\ \A r \in Utterances : TokensOK(r)
  BY DEF Inv
<1>0. /\ \A r \in Utterances : CallerOf[r] \in Callers
      /\ wire \in [Utterances -> Seq(Message)] /\ latents \in [Utterances -> Seq(Frame)]
  BY <1>t DEF Callers, TypeOK, Message, Frame
<1>1. CASE Initialize
  BY <1>t, <1>1 DEF TypeOK, Initialize
<1>2. ASSUME NEW S \in SUBSET Utterances, TextFrontend(S) PROVE TypeOK'
  <2> DEFINE bad == {r \in S : Tokens(r) = <<>>}
             mid == Set(pc, S, "acoustic")
             PCs == {"waiting", "text", "acoustic", "start", "stream", "stopping", "done"}
             Outs == {"streaming", "complete", "failed"}
  <2>1. /\ outcome' = Set(outcome, bad, "failed") /\ pc' = Set(mid, bad, "done")
        /\ \A r \in S : pc[r] = "text"
        /\ UNCHANGED <<text, padding, engines, ready, latents, wire, triton, open, played>>
    BY <1>2 DEF TextFrontend
  <2>2. pc \in [Utterances -> PCs] /\ outcome \in [Utterances -> Outs]
        /\ \A r \in Utterances : (pc[r] \in {"stopping", "done"}) = (outcome[r] # "streaming")
    BY <1>t DEF TypeOK
  <2>3. "acoustic" \in PCs /\ "done" \in PCs /\ "failed" \in Outs
    OBVIOUS
  <2>4. bad \subseteq S
    OBVIOUS
  <2> HIDE DEF bad, mid, PCs, Outs
  <2>5. mid \in [Utterances -> PCs] /\ \A r \in Utterances : mid[r] = IF r \in S THEN "acoustic" ELSE pc[r]
    BY <2>2, <2>3 DEF mid, Set
  <2>6. pc' \in [Utterances -> PCs] /\ \A r \in Utterances : pc'[r] = IF r \in bad THEN "done" ELSE mid[r]
    BY <2>1, <2>3, <2>5 DEF Set
  <2>7. outcome' \in [Utterances -> Outs]
        /\ \A r \in Utterances : outcome'[r] = IF r \in bad THEN "failed" ELSE outcome[r]
    BY <2>1, <2>2, <2>3 DEF Set
  <2>8. ASSUME NEW r \in Utterances PROVE (pc'[r] \in {"stopping", "done"}) = (outcome'[r] # "streaming")
    BY <2>1, <2>2, <2>4, <2>5, <2>6, <2>7
  <2> QED BY <1>t, <2>1, <2>6, <2>7, <2>8 DEF TypeOK, PCs, Outs
<1>3. ASSUME NEW batch \in Batches, AcousticFrontend(batch) PROVE TypeOK'
  <2> DEFINE S == ToSet(batch)
             PCs == {"waiting", "text", "acoustic", "start", "stream", "stopping", "done"}
             Outs == {"streaming", "complete", "failed"}
  <2>1. UNCHANGED <<text, padding, engines, ready, wire, triton, open, played>>
    BY <1>3 DEF AcousticFrontend
  <2>2. pc \in [Utterances -> PCs] /\ outcome \in [Utterances -> Outs]
        /\ \A r \in Utterances : (pc[r] \in {"stopping", "done"}) = (outcome[r] # "streaming")
    BY <1>t DEF TypeOK
  <2>3. "start" \in PCs /\ "done" \in PCs /\ "failed" \in Outs
    OBVIOUS
  <2>4. S \subseteq Utterances /\ \A r \in S : pc[r] = "acoustic"
    BY BatchFacts DEF Waiting
  <2>5. CASE /\ outcome' = Set(outcome, S, "failed")
             /\ pc' = Set(pc, S, "done") /\ UNCHANGED latents
    <3> HIDE DEF S, PCs, Outs
    <3>1. pc' \in [Utterances -> PCs] /\ \A r \in Utterances : pc'[r] = IF r \in S THEN "done" ELSE pc[r]
      BY <2>2, <2>3, <2>5 DEF Set
    <3>2. outcome' \in [Utterances -> Outs]
          /\ \A r \in Utterances : outcome'[r] = IF r \in S THEN "failed" ELSE outcome[r]
      BY <2>2, <2>3, <2>5 DEF Set
    <3>3. ASSUME NEW r \in Utterances PROVE (pc'[r] \in {"stopping", "done"}) = (outcome'[r] # "streaming")
      BY <2>2, <3>1, <3>2
    <3> QED BY <1>t, <2>1, <2>5, <3>1, <3>2, <3>3 DEF TypeOK, PCs, Outs
  <2>6. CASE /\ latents' = [r \in Utterances |->
                   IF r \in S THEN Fused(batch).answers[Index(batch, r)] ELSE latents[r]]
             /\ pc' = Set(pc, S, "start") /\ UNCHANGED outcome
    <3>a. \A r \in S : Own(r) \in Seq(Frame)
                       /\ Fused(batch).answers[Index(batch, r)] = Own(r)
      BY <1>t, FusedAnswers, OwnType
    <3>b. latents' \in [Utterances -> Seq(Frame)]
      <4>1. ASSUME NEW r \in Utterances PROVE latents'[r] \in Seq(Frame)
        BY <1>0, <2>6, <3>a
      <4> QED BY <2>6, <4>1
    <3> HIDE DEF S, PCs, Outs
    <3>1. pc' \in [Utterances -> PCs] /\ \A r \in Utterances : pc'[r] = IF r \in S THEN "start" ELSE pc[r]
      BY <2>2, <2>3, <2>6 DEF Set
    <3>3. ASSUME NEW r \in Utterances PROVE (pc'[r] \in {"stopping", "done"}) = (outcome'[r] # "streaming")
      BY <2>2, <2>4, <2>6, <3>1
    <3> QED BY <1>t, <2>1, <2>6, <3>b, <3>1, <3>3 DEF TypeOK, PCs, Frame
  <2> QED BY <1>3, <2>5, <2>6 DEF AcousticFrontend
<1>4. ASSUME NEW r \in Utterances, Call(r) \/ StartStream(r) PROVE TypeOK'
  <2>1. CASE Call(r)
    <3>1. /\ pc[r] = "waiting" /\ pc' = [pc EXCEPT ![r] = "text"]
          /\ UNCHANGED <<text, padding, server, latents, wire, triton, open, played, outcome>>
      BY <2>1 DEF Call
    <3> QED BY <1>t, <3>1 DEF TypeOK
  <2>2. CASE StartStream(r) /\ open[CallerOf[r]]
    <3>1. /\ pc[r] = "start" /\ pc' = [pc EXCEPT ![r] = "done"]
          /\ outcome' = [outcome EXCEPT ![r] = "failed"]
          /\ UNCHANGED <<text, padding, server, latents, wire, triton, open, played>>
      BY <2>2 DEF StartStream
    <3> QED BY <1>t, <3>1 DEF TypeOK
  <2>3. CASE StartStream(r) /\ ~open[CallerOf[r]]
    <3>1. /\ pc[r] = "start" /\ pc' = [pc EXCEPT ![r] = "stream"]
          /\ open' = [open EXCEPT ![CallerOf[r]] = TRUE]
          /\ UNCHANGED <<text, padding, server, latents, wire, triton, played, outcome>>
      BY <2>3 DEF StartStream
    <3> QED BY <1>t, <1>0, <3>1 DEF TypeOK
  <2> QED BY <1>4, <2>1, <2>2, <2>3
<1>l. ASSUME NEW r \in Utterances, pc[r] = "stream", NEW how \in {"complete", "failed"},
             Leave(r, how)
      PROVE  /\ pc' \in [Utterances -> {"waiting", "text", "acoustic", "start", "stream",
                                       "stopping", "done"}]
             /\ outcome' \in [Utterances -> {"streaming", "complete", "failed"}]
             /\ wire' \in [Utterances -> Seq(Message)]
             /\ \A q \in Utterances :
                  (pc'[q] \in {"stopping", "done"}) = (outcome'[q] # "streaming")
  BY <1>t, <1>0, <1>l DEF TypeOK, Leave
<1>5. ASSUME NEW r \in Utterances, Receive(r) PROVE TypeOK'
  <2>1. /\ pc[r] = "stream" /\ wire[r] # <<>> /\ wire[r] \in Seq(Message)
        /\ UNCHANGED <<text, padding, engines, ready, latents, sent, lost, answered, open>>
    BY <1>0, <1>5 DEF Receive
  <2>2. Head(wire[r]) \in Message /\ Tail(wire[r]) \in Seq(Message)
    BY <2>1
  <2>4. /\ \/ played' = [played EXCEPT ![r] = Append(@, Head(wire[r]).piece)]
           \/ UNCHANGED played
        /\ \/ Leave(r, "failed")
           \/ Leave(r, "complete")
           \/ wire' = [wire EXCEPT ![r] = Tail(@)] /\ UNCHANGED <<outcome, pc>>
    BY <1>5 DEF Receive
  <2>5. played' \in [Utterances -> Seq(Nat \X Nat)]
    <3>1. played \in [Utterances -> Seq(Nat \X Nat)] /\ Head(wire[r]).piece \in Nat \X Nat
      BY <1>t, <2>2 DEF TypeOK, Message
    <3>2. Append(played[r], Head(wire[r]).piece) \in Seq(Nat \X Nat)
      BY <3>1
    <3> QED BY <2>4, <3>1, <3>2
  <2>6. CASE wire' = [wire EXCEPT ![r] = Tail(@)] /\ UNCHANGED <<outcome, pc>>
    <3>1. wire' \in [Utterances -> Seq(Message)]
      BY <1>0, <2>2, <2>6
    <3> QED BY <1>t, <2>1, <2>5, <2>6, <3>1 DEF TypeOK, Message
  <2>7. ASSUME NEW how \in {"complete", "failed"}, Leave(r, how) PROVE TypeOK'
    BY <1>t, <1>l, <2>1, <2>5, <2>7 DEF TypeOK, Message
  <2> QED BY <2>4, <2>6, <2>7
<1>6. ASSUME NEW r \in Utterances, Timeout(r) PROVE TypeOK'
  <2>1. /\ pc[r] = "stream" /\ Leave(r, "failed")
        /\ UNCHANGED <<text, padding, engines, ready, latents, sent, lost, answered, open,
                       played>>
    BY <1>6 DEF Timeout
  <2> QED BY <1>t, <1>l, <2>1 DEF TypeOK, Message
<1>9. ASSUME NEW r \in Utterances, StopStream(r) PROVE TypeOK'
  <2>1. /\ pc[r] = "stopping" /\ pc' = [pc EXCEPT ![r] = "done"]
        /\ open' = [open EXCEPT ![CallerOf[r]] = FALSE]
        /\ UNCHANGED <<text, padding, engines, ready, latents, wire, sent, lost, answered,
                       played, outcome>>
    BY <1>9 DEF StopStream
  <2> QED BY <1>t, <1>0, <2>1 DEF TypeOK
<1>7. ASSUME NEW r \in Utterances, SendChunk(r) \/ LoseChunk(r) \/ SendError(r) PROVE TypeOK'
  <2>1. Len(latents[r]) \in Nat /\ sent \in [Utterances -> Nat] /\ wire[r] \in Seq(Message)
        /\ lost \in [Utterances -> SUBSET Nat] /\ answered \in [Utterances -> BOOLEAN]
        /\ sent[r] \in Nat /\ lost[r] \in SUBSET Nat
    BY <1>0, <1>t DEF TypeOK
  <2>e. \A end \in Ends(r) : end \in Nat /\ sent[r] < end /\ end <= Len(latents[r])
    BY <2>1 DEF Ends
  <2>p. ASSUME NEW m \in Message, Put(r, m) PROVE wire' \in [Utterances -> Seq(Message)]
    <3>1. Append(wire[r], m) \in Seq(Message)
      BY <2>1
    <3> QED BY <1>0, <2>p, <3>1 DEF Put
  <2>d. ASSUME NEW end \in Nat, Done(r, end) PROVE sent' \in [Utterances -> Nat]
    BY <2>1, <2>d DEF Done
  <2>2. CASE SendChunk(r)
    <3>1. PICK end \in Ends(r) :
            /\ Put(r, [error |-> FALSE, piece |-> <<sent[r], end>>,
                       final |-> end = Len(latents[r])])
            /\ Done(r, end)
            /\ answered' = [answered EXCEPT ![r] = end = Len(latents[r])]
      BY <2>2 DEF SendChunk
    <3>2. end \in Nat /\ [error |-> FALSE, piece |-> <<sent[r], end>>,
                          final |-> end = Len(latents[r])] \in Message
      BY <2>1, <2>e DEF Message
    <3>3. wire' \in [Utterances -> Seq(Message)] /\ sent' \in [Utterances -> Nat]
      BY <2>p, <2>d, <3>1, <3>2
    <3>4. answered' \in [Utterances -> BOOLEAN]
      <4> DEFINE b == (end = Len(latents[r]))
      <4>1. b \in BOOLEAN /\ answered' = [answered EXCEPT ![r] = b]
        BY <3>1
      <4> HIDE DEF b
      <4> QED BY <2>1, <4>1
    <3>5. UNCHANGED <<text, padding, engines, ready, pc, latents, lost, open, played, outcome>>
      BY <2>2 DEF SendChunk
    <3> QED BY <1>t, <3>3, <3>4, <3>5 DEF TypeOK, Message
  <2>3. CASE LoseChunk(r)
    <3>1. PICK end \in Ends(r) :
            /\ lost' = [lost EXCEPT ![r] = @ \union sent[r]..(end - 1)]
            /\ Done(r, end)
      BY <2>3 DEF LoseChunk
    <3>2. sent' \in [Utterances -> Nat] /\ sent[r]..(end - 1) \subseteq Nat
      BY <2>1, <2>d, <2>e, <3>1
    <3>3. lost' \in [Utterances -> SUBSET Nat]
      BY <2>1, <3>1, <3>2
    <3>5. UNCHANGED <<text, padding, engines, ready, pc, latents, wire, answered, open, played,
                      outcome>>
      BY <2>3 DEF LoseChunk
    <3> QED BY <1>t, <3>2, <3>3, <3>5 DEF TypeOK
  <2>4. CASE SendError(r)
    <3>1. [error |-> TRUE, piece |-> <<0, 0>>, final |-> FALSE] \in Message
      BY DEF Message
    <3>2. wire' \in [Utterances -> Seq(Message)] /\ sent' \in [Utterances -> Nat]
      BY <2>1, <2>p, <2>d, <2>4, <3>1 DEF SendError
    <3>3. answered' = [answered EXCEPT ![r] = TRUE]
          /\ UNCHANGED <<text, padding, engines, ready, pc, latents, lost, open, played, outcome>>
      BY <2>4 DEF SendError
    <3>4. answered' \in [Utterances -> BOOLEAN]
      BY <2>1, <3>3
    <3> QED BY <1>t, <3>2, <3>3, <3>4 DEF TypeOK, Message
  <2> QED BY <1>7, <2>2, <2>3, <2>4
<1>8. CASE UNCHANGED vars
  BY <1>t, <1>8 DEF TypeOK, vars
<1> QED BY <1>1, <1>2, <1>3, <1>4, <1>5, <1>6, <1>7, <1>8, <1>9 DEF Next

\* How an utterance moves on, and when it may.
MoveOK(r) ==
    \/ pc'[r] = pc[r]
    \/ /\ pc[r] = "waiting" /\ pc'[r] = "text"
       /\ \A q \in Utterances : (q < r /\ CallerOf[q] = CallerOf[r]) => pc[q] = "done"
    \/ pc[r] = "text" /\ pc'[r] = "acoustic" /\ Tokens(r) # <<>>
    \/ pc[r] = "acoustic" /\ pc'[r] = "start"
    \/ pc[r] = "start" /\ pc'[r] = "stream"
    \/ pc[r] = "stream" /\ pc'[r] = "stopping"
    \/ pc[r] \in {"text", "acoustic", "start", "stopping"} /\ pc'[r] = "done"

LEMMA Moves ==
    ASSUME TypeOK, [Next]_vars, NEW r \in Utterances
    PROVE  MoveOK(r)
<1> USE DEF server, triton
<1>0. pc \in [Utterances -> {"waiting", "text", "acoustic", "start", "stream", "stopping", "done"}]
  BY DEF TypeOK
<1>1. CASE Initialize
  BY <1>1 DEF Initialize, MoveOK
<1>2. ASSUME NEW S \in SUBSET Utterances, TextFrontend(S) PROVE MoveOK(r)
  <2> DEFINE bad == {q \in S : Tokens(q) = <<>>}
  <2>1. /\ pc' = Set(Set(pc, S, "acoustic"), bad, "done")
        /\ \A q \in S : pc[q] = "text"
    BY <1>2 DEF TextFrontend
  <2>2. r \in bad <=> r \in S /\ Tokens(r) = <<>>
    OBVIOUS
  <2> HIDE DEF bad
  <2>3. pc'[r] = IF r \in bad THEN "done" ELSE IF r \in S THEN "acoustic" ELSE pc[r]
    BY <1>0, <2>1 DEF Set
  <2> QED BY <2>1, <2>2, <2>3 DEF MoveOK
<1>3. ASSUME NEW batch \in Batches, AcousticFrontend(batch) PROVE MoveOK(r)
  <2> DEFINE S == ToSet(batch)
  <2>1. \A q \in S : pc[q] = "acoustic"
    BY BatchFacts DEF Waiting
  <2>2. PICK x \in {"start", "done"} : pc' = Set(pc, S, x)
    BY <1>3 DEF AcousticFrontend
  <2> HIDE DEF S
  <2>3. pc'[r] = IF r \in S THEN x ELSE pc[r]
    BY <1>0, <2>2 DEF Set
  <2> QED BY <2>1, <2>3 DEF MoveOK
<1>4. ASSUME NEW s \in Utterances, Call(s) PROVE MoveOK(r)
  BY <1>0, <1>4 DEF Call, MoveOK
<1>5. ASSUME NEW s \in Utterances, StartStream(s) PROVE MoveOK(r)
  BY <1>0, <1>5 DEF StartStream, MoveOK
<1>6. ASSUME NEW s \in Utterances, Receive(s) \/ Timeout(s) \/ StopStream(s) PROVE MoveOK(r)
  BY <1>0, <1>6 DEF Receive, Timeout, StopStream, Leave, MoveOK
<1>7. ASSUME NEW s \in Utterances, SendChunk(s) \/ LoseChunk(s) \/ SendError(s) PROVE MoveOK(r)
  BY <1>7 DEF SendChunk, LoseChunk, SendError, MoveOK
<1>8. CASE UNCHANGED vars
  BY <1>8 DEF vars, MoveOK
<1> QED BY <1>1, <1>2, <1>3, <1>4, <1>5, <1>6, <1>7, <1>8 DEF Next

LEMMA TurnsStep == Inv /\ [Next]_vars => Turns'
<1> SUFFICES ASSUME Inv, [Next]_vars,
                    NEW q \in Utterances, NEW r \in Utterances,
                    q < r, CallerOf[q] = CallerOf[r], pc'[r] # "waiting"
             PROVE  pc'[q] = "done"
  BY DEF Turns
<1>1. MoveOK(q) /\ MoveOK(r)
  BY Moves DEF Inv
<1>2. pc[q] = "done"
  BY <1>1 DEF Inv, Turns, MoveOK
<1> QED BY <1>1, <1>2 DEF MoveOK

LEMMA TokensStep ==
    ASSUME Inv, [Next]_vars, NEW r \in Utterances
    PROVE  TokensOK(r)'
<1>1. MoveOK(r) /\ TokensOK(r)
  BY Moves DEF Inv
<1>2. Tokens(r)' = Tokens(r)
  BY Steady, SteadyMeaning
<1> QED BY <1>1, <1>2 DEF MoveOK, TokensOK

LEMMA LatentsStep ==
    ASSUME Inv, [Next]_vars, NEW r \in Utterances
    PROVE  LatentsOK(r)'
<1> USE DEF server, triton
<1>t. TypeOK /\ LatentsOK(r) /\ \A q \in Utterances : TokensOK(q)
  BY DEF Inv
<1>m. Tokens(r)' = Tokens(r) /\ Own(r)' = Own(r)
  BY Steady, SteadyMeaning
<1>1. CASE latents' = latents
  BY <1>t, <1>m, <1>1 DEF LatentsOK
<1>2. ASSUME NEW batch \in Batches, AcousticFrontend(batch), latents' # latents
      PROVE  LatentsOK(r)'
  <2>1. latents' = [q \in Utterances |-> IF q \in ToSet(batch)
                      THEN Fused(batch).answers[Index(batch, q)] ELSE latents[q]]
    BY <1>2 DEF AcousticFrontend
  <2>2. CASE r \in ToSet(batch)
    <3>1. latents'[r] = Own(r) /\ Tokens(r) # <<>>
      BY <1>t, <2>1, <2>2, FusedAnswers
    <3> QED BY <1>m, <3>1 DEF LatentsOK
  <2>3. CASE r \notin ToSet(batch)
    <3>1. latents'[r] = latents[r]
      BY <2>1, <2>3
    <3> QED BY <1>t, <1>m, <3>1 DEF LatentsOK
  <2> QED BY <2>2, <2>3
<1>3. CASE \A batch \in Batches : ~AcousticFrontend(batch)
  <2>1. latents' = latents
    BY <1>3 DEF Next, vars, Initialize, TextFrontend, Call, StartStream, Receive, Timeout,
       StopStream, SendChunk, LoseChunk, SendError
  <2> QED BY <1>1, <2>1
<1> QED BY <1>1, <1>2, <1>3

LEMMA HeldStep == Inv /\ [Next]_vars => StreamsHeld'
<1> SUFFICES ASSUME Inv, [Next]_vars, NEW c \in Callers, open'[c]
             PROVE  \E r \in Utterances : CallerOf[r] = c /\ InStream(r)'
  BY DEF StreamsHeld, Callers
<1> USE DEF server, triton, InStream
<1>t. /\ TypeOK /\ StreamsHeld
      /\ pc \in [Utterances -> {"waiting", "text", "acoustic", "start", "stream", "stopping", "done"}]
      /\ open \in [Callers -> BOOLEAN]
  BY DEF Inv, TypeOK
<1>h. open[c] => \E r \in Utterances : CallerOf[r] = c /\ InStream(r)
  BY <1>t DEF StreamsHeld
<1>1. CASE Initialize
  BY <1>h, <1>1 DEF Initialize
<1>2. ASSUME NEW S \in SUBSET Utterances, TextFrontend(S)
      PROVE  \E r \in Utterances : CallerOf[r] = c /\ InStream(r)'
  <2>1. PICK r \in Utterances : CallerOf[r] = c /\ InStream(r)
    BY <1>h, <1>2 DEF TextFrontend
  <2>2. r \notin S /\ r \notin {q \in S : Tokens(q) = <<>>}
        /\ pc' = Set(Set(pc, S, "acoustic"), {q \in S : Tokens(q) = <<>>}, "done")
    BY <1>2, <2>1 DEF TextFrontend
  <2>3. pc'[r] = pc[r]
    BY <1>t, <2>2 DEF Set
  <2> QED BY <2>1, <2>3
<1>3. ASSUME NEW batch \in Batches, AcousticFrontend(batch)
      PROVE  \E r \in Utterances : CallerOf[r] = c /\ InStream(r)'
  <2>1. PICK r \in Utterances : CallerOf[r] = c /\ InStream(r)
    BY <1>h, <1>3 DEF AcousticFrontend
  <2>2. r \notin ToSet(batch)
    BY <2>1, BatchFacts DEF Waiting
  <2>3. PICK x : pc' = Set(pc, ToSet(batch), x)
    BY <1>3 DEF AcousticFrontend
  <2>4. pc'[r] = pc[r]
    BY <1>t, <2>2, <2>3 DEF Set
  <2> QED BY <2>1, <2>4
<1>4. ASSUME NEW s \in Utterances, Call(s)
      PROVE  \E r \in Utterances : CallerOf[r] = c /\ InStream(r)'
  BY <1>t, <1>h, <1>4 DEF Call
<1>5. ASSUME NEW s \in Utterances, StartStream(s)
      PROVE  \E r \in Utterances : CallerOf[r] = c /\ InStream(r)'
  <2>1. pc[s] = "start"
    BY <1>5 DEF StartStream
  <2>2. CASE open[CallerOf[s]]
    BY <1>t, <1>h, <1>5, <2>1, <2>2 DEF StartStream
  <2>3. CASE ~open[CallerOf[s]]
    <3>1. /\ open' = [open EXCEPT ![CallerOf[s]] = TRUE]
          /\ pc' = [pc EXCEPT ![s] = "stream"]
      BY <1>5, <2>3 DEF StartStream
    <3>2. CASE CallerOf[s] = c
      BY <1>t, <3>1, <3>2
    <3>3. CASE CallerOf[s] # c
      BY <1>t, <1>h, <3>1, <3>3
    <3> QED BY <3>2, <3>3
  <2> QED BY <2>2, <2>3
<1>6. ASSUME NEW s \in Utterances, Receive(s) \/ Timeout(s)
      PROVE  \E r \in Utterances : CallerOf[r] = c /\ InStream(r)'
  <2>1. open' = open /\ pc[s] = "stream" /\ (pc' = pc \/ pc' = [pc EXCEPT ![s] = "stopping"])
    BY <1>6 DEF Receive, Timeout, Leave
  <2> QED BY <1>t, <1>h, <2>1
<1>9. ASSUME NEW s \in Utterances, StopStream(s)
      PROVE  \E r \in Utterances : CallerOf[r] = c /\ InStream(r)'
  <2>1. CallerOf[s] \in Callers /\ open' = [open EXCEPT ![CallerOf[s]] = FALSE]
        /\ pc' = [pc EXCEPT ![s] = "done"]
    BY <1>9 DEF StopStream, Callers
  <2>2. CallerOf[s] # c /\ open[c]
    BY <1>t, <2>1
  <2> QED BY <1>t, <1>h, <2>1, <2>2
<1>7. ASSUME NEW s \in Utterances, SendChunk(s) \/ LoseChunk(s) \/ SendError(s)
      PROVE  \E r \in Utterances : CallerOf[r] = c /\ InStream(r)'
  BY <1>h, <1>7 DEF SendChunk, LoseChunk, SendError
<1>8. CASE UNCHANGED vars
  BY <1>h, <1>8 DEF vars
<1> QED BY <1>1, <1>2, <1>3, <1>4, <1>5, <1>6, <1>7, <1>8, <1>9 DEF Next

(* What is on the wire. *)

LEMMA GapGrows ==
    ASSUME NEW missing, NEW more, missing \subseteq more, NEW x, NEW y, Gap(missing, x, y)
    PROVE  Gap(more, x, y)
BY DEF Gap

LEMMA StreamKept ==
    ASSUME NEW r \in Utterances, StreamOK(r), UNCHANGED <<wire[r], played[r]>>,
           sent'[r] = sent[r], lost'[r] = lost[r],
           pc'[r] = "stream" => pc[r] = "stream" /\ latents'[r] = latents[r],
           pc'[r] \notin Underway => pc[r] \notin Underway,
           outcome'[r] = "complete" => outcome[r] = "complete" /\ latents'[r] = latents[r]
    PROVE  StreamOK(r)'
<1>1. WholeOK(r)'
  BY DEF StreamOK, WholeOK, Position
<1>2. CASE pc'[r] = "stream"
  <2>1. OrderOK(r)
    BY <1>2 DEF StreamOK
  <2>2. \A k \in 1..Len(wire[r]) : MessageOK(r, k)'
    BY <1>2, <2>1 DEF OrderOK, MessageOK, StartOf, Position
  <2>3. OrderOK(r)'
    BY <1>2, <2>1, <2>2 DEF OrderOK, Position
  <2> QED BY <1>1, <1>2, <2>3 DEF StreamOK, Underway
<1>3. CASE pc'[r] # "stream"
  BY <1>1, <1>3 DEF StreamOK
<1> QED BY <1>2, <1>3

LEMMA PositionType ==
    ASSUME TypeOK, NEW r \in Utterances
    PROVE  Position(r) \in Nat
<1>1. played[r] \in Seq(Nat \X Nat)
  BY DEF TypeOK
<1>2. CASE played[r] = <<>>
  BY <1>2 DEF Position
<1>3. CASE played[r] # <<>>
  <2>1. played[r][Len(played[r])] \in Nat \X Nat
    BY <1>1, <1>3
  <2>2. played[r][Len(played[r])][2] \in Nat
    BY ONLY <2>1
  <2> QED BY <1>3, <2>2 DEF Position
<1> QED BY <1>2, <1>3

LEMMA WholeLength ==
    ASSUME TypeOK, NEW r \in Utterances, LatentsOK(r), latents[r] # <<>>
    PROVE  FramesOf(r) = Len(latents[r]) /\ FramesOf(r) \in Nat
<1>1. Tokens(r) # <<>> /\ latents[r] = Own(r)
  BY DEF LatentsOK
<1> QED BY <1>1, OwnType, FramesFacts

\* A message is put on the wire behind the others.
LEMMA StreamSends ==
    ASSUME TypeOK, NEW r \in Utterances, StreamOK(r), pc[r] = "stream",
           SendChunk(r) \/ SendError(r)
    PROVE  StreamOK(r)'
<1>0. /\ wire \in [Utterances -> Seq(Message)] /\ wire[r] \in Seq(Message)
      /\ sent \in [Utterances -> Nat] /\ sent[r] \in Nat /\ latents[r] \in Seq(Frame)
  BY DEF TypeOK, Message, Frame
<1>n. PICK n \in Nat : n = Len(wire[r])
  BY <1>0
<1>L. PICK L \in Nat : L = Len(latents[r])
  BY <1>0
<1>1. /\ pc[r] = "stream" /\ sent[r] < L /\ OrderOK(r) /\ WholeOK(r)
      /\ UNCHANGED <<pc, latents, lost, played, outcome>>
  BY <1>L DEF SendChunk, SendError, Serving, StreamOK
<1>2. \A k \in 1..n : wire[r][k] \in Message
  BY <1>0, <1>n
<1>3. PICK end \in Nat, m \in Message :
        /\ wire' = [wire EXCEPT ![r] = Append(@, m)]
        /\ sent' = [sent EXCEPT ![r] = end]
        /\ \/ /\ m.error /\ end = L
           \/ /\ ~m.error /\ m.piece[1] = sent[r] /\ m.piece[2] = end
              /\ sent[r] < end /\ end <= L
              /\ m.final <=> end = L
  <2>1. CASE SendChunk(r)
    <3>1. PICK end \in Ends(r) :
            /\ wire' = [wire EXCEPT ![r] = Append(@,
                          [error |-> FALSE, piece |-> <<sent[r], end>>, final |-> end = L])]
            /\ sent' = [sent EXCEPT ![r] = end]
      BY <2>1, <1>L DEF SendChunk, Put, Done
    <3> DEFINE m == [error |-> FALSE, piece |-> <<sent[r], end>>, final |-> end = L]
    <3>2. end \in Nat /\ m \in Message /\ sent[r] < end /\ end <= L
      BY <1>0, <1>L DEF Message, Ends
    <3>3. /\ ~m.error /\ m.piece[1] = sent[r] /\ m.piece[2] = end
          /\ m.final <=> end = L
      OBVIOUS
    <3> QED BY <3>1, <3>2, <3>3
  <2>2. CASE SendError(r)
    <3> DEFINE m == [error |-> TRUE, piece |-> <<0, 0>>, final |-> FALSE]
    <3>1. m \in Message /\ m.error
      BY DEF Message
    <3> QED BY <1>L, <2>2, <3>1 DEF SendError, Put, Done
  <2> QED BY <2>1, <2>2
<1>4. /\ wire'[r] = Append(wire[r], m) /\ sent'[r] = end
      /\ Len(wire'[r]) = n + 1 /\ wire'[r][n + 1] = m
      /\ \A k \in 1..n : wire'[r][k] = wire[r][k]
  BY <1>0, <1>n, <1>3
<1>5. \A k \in 1..n : ~wire[r][k].error /\ MessageOK(r, k)
  BY <1>0, <1>n, <1>L, <1>1, <1>2 DEF OrderOK, MessageOK
<1>6. Position(r)' = Position(r) /\ Len(latents[r])' = L
  BY <1>1, <1>L DEF Position
<1>7. ASSUME NEW k \in 1..n PROVE MessageOK(r, k)'
  <2>1. k # 1 => k - 1 \in 1..n
    BY <1>2
  <2>2. StartOf(r, k)' = StartOf(r, k)
    BY <1>4, <1>6, <2>1 DEF StartOf
  <2>3. wire'[r][k] = wire[r][k]
    BY <1>4
  <2> QED BY <1>n, <1>L, <1>1, <1>4, <1>5, <1>6, <2>2, <2>3 DEF MessageOK
<1>8. MessageOK(r, n + 1)'
  <2>1. Gap(lost[r], StartOf(r, n + 1)', sent[r])
    <3>1. CASE n = 0
      <4>1. wire[r] = <<>>
        BY <1>0, <1>n, <3>1, EmptySeq
      <4>2. Gap(lost[r], Position(r), sent[r])
        BY <1>1, <4>1 DEF OrderOK
      <4> QED BY <1>6, <3>1, <4>2 DEF StartOf
    <3>2. CASE n # 0
      <4>1. n \in 1..n /\ wire[r] # <<>> /\ n + 1 # 1 /\ (n + 1) - 1 = n
        BY <1>0, <1>n, <3>2
      <4>2. Gap(lost[r], wire[r][n].piece[2], sent[r])
        BY <1>n, <1>1, <1>5, <4>1 DEF OrderOK
      <4> QED BY <1>4, <4>1, <4>2 DEF StartOf
    <3> QED BY <3>1, <3>2
  <2> QED BY <1>1, <1>3, <1>4, <1>6, <2>1 DEF MessageOK
<1>9. \A k \in 1..(n + 1) : MessageOK(r, k)'
  <2>1. \A k \in 1..(n + 1) : k \in 1..n \/ k = n + 1
    OBVIOUS
  <2> QED BY <1>7, <1>8, <2>1
<1>10. OrderOK(r)'
  <2>1. sent'[r] <= L
    BY <1>3, <1>4
  <2>2. wire'[r] # <<>>
    BY <1>4
  <2>3. wire'[r][n + 1].error \/ wire'[r][n + 1].piece[2] = sent'[r]
    BY <1>3, <1>4
  <2>4. Gap(lost'[r], sent'[r], sent'[r])
    BY <1>3, <1>4 DEF Gap
  <2> QED BY <1>4, <1>6, <1>9, <2>1, <2>2, <2>3, <2>4 DEF OrderOK
<1>11. WholeOK(r)'
  BY <1>1, <1>6 DEF WholeOK
<1> QED BY <1>1, <1>10, <1>11 DEF StreamOK, Underway

\* What is lost is a gap in front of what comes next.
LEMMA StreamLoses ==
    ASSUME TypeOK, NEW r \in Utterances, StreamOK(r), pc[r] = "stream", LoseChunk(r)
    PROVE  StreamOK(r)'
<1>0. /\ wire[r] \in Seq(Message) /\ latents[r] \in Seq(Frame)
      /\ sent \in [Utterances -> Nat] /\ sent[r] \in Nat
      /\ lost \in [Utterances -> SUBSET Nat]
  BY DEF TypeOK, Message, Frame
<1>1. /\ sent[r] < Len(latents[r]) /\ OrderOK(r) /\ WholeOK(r)
      /\ UNCHANGED <<pc, latents, wire, played, outcome>>
  BY DEF LoseChunk, Serving, StreamOK
<1>2. PICK end \in Ends(r) : /\ lost' = [lost EXCEPT ![r] = @ \union sent[r]..(end - 1)]
                             /\ sent' = [sent EXCEPT ![r] = end]
  BY DEF LoseChunk, Done
<1>L. Len(latents[r]) \in Nat
  BY <1>0
<1>3. end \in Nat /\ sent[r] < end /\ end <= Len(latents[r])
  BY <1>0, <1>L DEF Ends
<1>4. sent'[r] = end /\ lost'[r] = lost[r] \union sent[r]..(end - 1)
  BY <1>0, <1>2
<1>5. ASSUME NEW x, Gap(lost[r], x, sent[r]), x \in Int PROVE Gap(lost'[r], x, sent'[r])
  <2>1. x <= end
    BY <1>0, <1>3, <1>5 DEF Gap
  <2>2. ASSUME NEW n \in Nat, x <= n, n < end PROVE n \in lost'[r]
    <3>1. CASE n < sent[r]
      BY <1>4, <1>5, <2>2, <3>1 DEF Gap
    <3>2. CASE ~(n < sent[r])
      <4>1. n \in sent[r]..(end - 1)
        BY <1>0, <1>3, <2>2, <3>2
      <4> QED BY <1>4, <4>1
    <3> QED BY <3>1, <3>2
  <2> QED BY <1>4, <2>1, <2>2 DEF Gap
<1>6. \A k \in 1..Len(wire[r]) : wire[r][k] \in Message /\ ~wire[r][k].error
  BY <1>0, <1>1, <1>L DEF OrderOK, MessageOK
<1>7. Position(r)' = Position(r) /\ \A k \in 1..Len(wire[r]) : StartOf(r, k)' = StartOf(r, k)
  BY <1>1 DEF Position, StartOf
<1>8. ASSUME NEW k \in 1..Len(wire[r]) PROVE MessageOK(r, k)'
  <2>1. MessageOK(r, k) /\ ~wire[r][k].error
    BY <1>1, <1>6 DEF OrderOK
  <2>2. Gap(lost'[r], StartOf(r, k), wire[r][k].piece[1])
    BY <1>4, <2>1, GapGrows DEF MessageOK
  <2> QED BY <1>1, <1>7, <2>1, <2>2 DEF MessageOK
<1>9. Position(r) \in Int
  BY PositionType
<1>10. OrderOK(r)'
  <2>1. CASE wire[r] = <<>>
    <3>1. Gap(lost'[r], Position(r), sent'[r])
      BY <1>1, <1>5, <1>9, <2>1 DEF OrderOK
    <3> QED BY <1>1, <1>3, <1>4, <1>7, <1>8, <2>1, <3>1 DEF OrderOK
  <2>2. CASE wire[r] # <<>>
    <3>1. PICK n \in 1..Len(wire[r]) : n = Len(wire[r])
      BY <1>0, <2>2
    <3>2. Gap(lost[r], wire[r][n].piece[2], sent[r]) /\ wire[r][n] \in Message
      BY <1>1, <1>6, <2>2, <3>1 DEF OrderOK
    <3>3. wire[r][n].piece \in Nat \X Nat
      BY <3>2 DEF Message
    <3>4. wire[r][n].piece[2] \in Int
      BY ONLY <3>3
    <3>5. Gap(lost'[r], wire[r][n].piece[2], sent'[r])
      BY <1>5, <3>2, <3>4
    <3> QED BY <1>1, <1>3, <1>4, <1>7, <1>8, <2>2, <3>1, <3>5 DEF OrderOK
  <2> QED BY <2>1, <2>2
<1>11. WholeOK(r)'
  BY <1>1, <1>7 DEF WholeOK
<1> QED BY <1>1, <1>10, <1>11 DEF StreamOK, Underway

\* The first message on the wire is taken off and played, and the loop may be left.
LEMMA StreamReceives ==
    ASSUME TypeOK, NEW r \in Utterances, StreamOK(r), Receive(r)
    PROVE  StreamOK(r)'
<1>0. /\ wire \in [Utterances -> Seq(Message)] /\ wire[r] \in Seq(Message)
      /\ played \in [Utterances -> Seq(Nat \X Nat)] /\ played[r] \in Seq(Nat \X Nat)
      /\ pc \in [Utterances -> {"waiting", "text", "acoustic", "start", "stream", "stopping",
                             "done"}]
      /\ outcome \in [Utterances -> {"streaming", "complete", "failed"}]
      /\ latents[r] \in Seq(Frame)
  BY DEF TypeOK, Message, Frame
<1>n. PICK n \in Nat : n = Len(wire[r])
  BY <1>0
<1>1. /\ pc[r] = "stream" /\ wire[r] # <<>> /\ OrderOK(r)
      /\ latents' = latents /\ sent' = sent /\ lost' = lost /\ outcome[r] = "streaming"
  <2>1. outcome[r] = "streaming"
    BY DEF TypeOK, Receive
  <2> QED BY <2>1 DEF Receive, StreamOK, triton
<1>2. n # 0 /\ \A k \in 1..n : wire[r][k] \in Message
  BY <1>0, <1>n, <1>1
<1>h. Head(wire[r]) = wire[r][1]
  BY <1>0, <1>n, <1>1
<1>p. ASSUME played' = [played EXCEPT ![r] = Append(@, wire[r][1].piece)]
      PROVE  Position(r)' = wire[r][1].piece[2]
  <2>1. wire[r][1].piece \in Nat \X Nat
    BY <1>2 DEF Message
  <2>2. played'[r] = Append(played[r], wire[r][1].piece)
    BY <1>0, <1>p
  <2>3. PICK s \in Seq(Nat \X Nat) : s = played[r]
    BY <1>0
  <2>4. PICK x \in Nat \X Nat : x = wire[r][1].piece
    BY <2>1
  <2>5. Append(s, x) # <<>> /\ Append(s, x)[Len(Append(s, x))] = x
    BY AppendProperties
  <2>6. played'[r] = Append(s, x)
    BY <2>2, <2>3, <2>4
  <2> QED BY <2>4, <2>5, <2>6 DEF Position
<1>4. CASE Leave(r, "failed")
  BY <1>0, <1>4 DEF StreamOK, WholeOK, Leave, Underway
<1>6. CASE /\ ~wire[r][1].error /\ wire[r][1].final /\ Leave(r, "complete")
           /\ played' = [played EXCEPT ![r] = Append(@, wire[r][1].piece)]
  <2>1. MessageOK(r, 1)
    BY <1>n, <1>1, <1>2 DEF OrderOK
  <2>2. wire[r][1].piece[2] = Len(latents[r]) /\ wire[r][1].piece[1] < wire[r][1].piece[2]
    BY <1>6, <2>1 DEF MessageOK
  <2>3. wire[r][1].piece[1] \in Nat
    <3>1. wire[r][1].piece \in Nat \X Nat
      BY <1>2 DEF Message
    <3> QED BY ONLY <3>1
  <2>4. latents[r] # <<>>
    BY <1>0, <2>2, <2>3
  <2>5. WholeOK(r)'
    BY <1>1, <1>p, <1>6, <2>2, <2>4 DEF WholeOK
  <2>6. pc'[r] = "stopping"
    BY <1>0, <1>6 DEF Leave
  <2> QED BY <2>5, <2>6 DEF StreamOK, Underway
<1>5. CASE /\ ~wire[r][1].error /\ wire' = [wire EXCEPT ![r] = Tail(@)]
           /\ UNCHANGED <<outcome, pc>>
           /\ played' = [played EXCEPT ![r] = Append(@, wire[r][1].piece)]
  <2>0. /\ wire'[r] = Tail(wire[r])
        /\ Len(wire'[r]) = n - 1
        /\ \A k \in 1..(n - 1) : wire'[r][k] = wire[r][k + 1]
    BY <1>0, <1>n, <1>1, <1>5
  <2>2. Position(r)' = wire[r][1].piece[2]
    BY <1>p, <1>5
  <2>3. \A k \in 1..n : MessageOK(r, k)
    BY <1>n, <1>1 DEF OrderOK
  <2>4. ASSUME NEW k \in 1..(n - 1) PROVE MessageOK(r, k)'
    <3>1. k + 1 \in 1..n /\ k + 1 # 1 /\ (k + 1) - 1 = k /\ (k # 1 => k - 1 \in 1..(n - 1))
          /\ (k - 1) + 1 = k /\ (k + 1 = n <=> k = n - 1)
      BY <1>2
    <3>2. wire'[r][k] = wire[r][k + 1] /\ (k # 1 => wire'[r][k - 1] = wire[r][k])
      BY <2>0, <3>1
    <3>3. StartOf(r, k)' = StartOf(r, k + 1)
      BY <2>2, <3>1, <3>2 DEF StartOf
    <3>4. MessageOK(r, k + 1)
      BY <2>3, <3>1
    <3> QED BY <1>1, <2>0, <3>1, <3>2, <3>3, <3>4, <1>n DEF MessageOK
  <2>5. OrderOK(r)'
    <3>1. sent[r] <= Len(latents[r])
          /\ (wire[r][n].error \/ Gap(lost[r], wire[r][n].piece[2], sent[r]))
      BY <1>n, <1>1 DEF OrderOK
    <3>2. CASE n = 1
      <4>1. Len(wire'[r]) = 0 /\ wire'[r] \in Seq(Message)
        BY <1>0, <1>1, <2>0, <3>2
      <4>3. wire'[r] = <<>>
        BY <4>1, EmptySeq
      <4>2. Gap(lost[r], wire[r][1].piece[2], sent[r])
        BY <1>5, <3>1, <3>2
      <4> QED BY <1>1, <2>0, <2>2, <2>4, <3>1, <4>1, <4>2, <4>3 DEF OrderOK
    <3>3. CASE n # 1
      <4>1. n - 1 \in 1..(n - 1) /\ (n - 1) + 1 = n
        BY <1>2, <3>3
      <4>2. wire'[r][n - 1] = wire[r][n] /\ wire'[r] # <<>>
        BY <2>0, <4>1
      <4> QED BY <1>1, <2>0, <2>4, <3>1, <4>2 DEF OrderOK
    <3> QED BY <3>2, <3>3
  <2>6. outcome'[r] # "complete" /\ pc'[r] = "stream"
    BY <1>1, <1>5
  <2> QED BY <2>5, <2>6 DEF StreamOK, WholeOK, Underway
<1>7. \/ Leave(r, "failed")
      \/ /\ ~wire[r][1].error
         /\ played' = [played EXCEPT ![r] = Append(@, wire[r][1].piece)]
         /\ \/ wire[r][1].final /\ Leave(r, "complete")
            \/ wire' = [wire EXCEPT ![r] = Tail(@)] /\ UNCHANGED <<outcome, pc>>
  BY <1>h DEF Receive
<1> QED BY <1>4, <1>5, <1>6, <1>7

LEMMA StreamStep ==
    ASSUME Inv, [Next]_vars, NEW r \in Utterances
    PROVE  StreamOK(r)'
<1> USE DEF server, triton
<1>t. /\ TypeOK /\ StreamOK(r)
      /\ pc \in [Utterances -> {"waiting", "text", "acoustic", "start", "stream", "stopping",
                             "done"}]
      /\ wire \in [Utterances -> Seq(Message)] /\ sent \in [Utterances -> Nat]
      /\ lost \in [Utterances -> SUBSET Nat]
      /\ played \in [Utterances -> Seq(Nat \X Nat)]
      /\ outcome \in [Utterances -> {"streaming", "complete", "failed"}]
      /\ outcome[r] = "complete" => pc[r] \in {"stopping", "done"}
  BY DEF Inv, TypeOK, Message
<1>m. MoveOK(r)
  BY <1>t, Moves
<1>u. pc'[r] \notin Underway => pc[r] \notin Underway
  BY <1>m DEF MoveOK, Underway
<1>1. CASE \/ Initialize \/ \E S \in SUBSET Utterances : TextFrontend(S)
           \/ \E s \in Utterances : Call(s) \/ StopStream(s)
           \/ UNCHANGED vars
  <2>1. UNCHANGED <<wire, sent, lost, played, latents>>
    BY <1>1 DEF Initialize, TextFrontend, Call, StopStream, vars
  <2>2. (pc'[r] = "stream" => pc[r] = "stream")
        /\ (outcome'[r] = "complete" => outcome[r] = "complete")
    <3>1. ASSUME NEW S \in SUBSET Utterances, TextFrontend(S)
          PROVE  (pc'[r] = "stream" => pc[r] = "stream")
                 /\ (outcome'[r] = "complete" => outcome[r] = "complete")
      BY <1>t, <3>1 DEF TextFrontend, Set
    <3> QED BY <1>t, <1>1, <3>1 DEF Initialize, Call, StopStream, vars
  <2> QED BY <1>t, <1>u, <2>1, <2>2, StreamKept
<1>2. ASSUME NEW batch \in Batches, AcousticFrontend(batch) PROVE StreamOK(r)'
  <2>1. UNCHANGED <<wire, sent, lost, played>>
    BY <1>2 DEF AcousticFrontend
  <2>2. /\ pc'[r] = "stream" => pc[r] = "stream" /\ latents'[r] = latents[r]
        /\ outcome'[r] = "complete" => outcome[r] = "complete" /\ latents'[r] = latents[r]
    <3>1. CASE r \in ToSet(batch)
      <4>1. pc'[r] \in {"start", "done"}
        BY <1>t, <1>2, <3>1 DEF AcousticFrontend, Set
      <4>2. pc[r] = "acoustic"
        BY <1>2, <3>1, BatchFacts DEF Waiting
      <4>3. outcome'[r] # "complete"
        BY <1>t, <1>2, <3>1, <4>2 DEF AcousticFrontend, Set
      <4> QED BY <4>1, <4>3
    <3>2. CASE r \notin ToSet(batch)
      BY <1>t, <1>2, <3>2 DEF AcousticFrontend, Set
    <3> QED BY <3>1, <3>2
  <2> QED BY <1>t, <1>u, <2>1, <2>2, StreamKept
<1>3. ASSUME NEW s \in Utterances, StartStream(s) PROVE StreamOK(r)'
  <2>1. /\ UNCHANGED <<wire, sent, lost, played, latents>>
        /\ pc[s] = "start" /\ (r # s => pc'[r] = pc[r])
        /\ pc'[s] \in {"stream", "done"}
        /\ outcome'[r] = "complete" => outcome[r] = "complete"
    BY <1>t, <1>3 DEF StartStream
  <2>2. CASE pc'[r] = "stream" /\ pc[r] # "stream"
    <3>1. wire[r] = <<>> /\ sent[r] = 0 /\ played[r] = <<>>
      BY <2>1, <2>2, <1>t DEF StreamOK, Underway
    <3>2. Len(latents[r]) \in Nat /\ Len(wire'[r]) = 0
      BY <1>t, <2>1, <3>1 DEF TypeOK
    <3>3. OrderOK(r)'
      BY <2>1, <3>1, <3>2 DEF OrderOK, Position, Gap
    <3>4. outcome'[r] # "complete"
      BY <1>t, <2>1, <2>2
    <3> QED BY <2>2, <3>3, <3>4 DEF StreamOK, WholeOK, Underway
  <2>3. CASE ~(pc'[r] = "stream" /\ pc[r] # "stream")
    BY <1>t, <1>u, <2>1, <2>3, StreamKept
  <2> QED BY <2>2, <2>3
<1>4. ASSUME NEW s \in Utterances, Timeout(s) PROVE StreamOK(r)'
  <2>1. /\ UNCHANGED <<sent, lost, played, latents>> /\ wire[s] = <<>>
        /\ wire' = [wire EXCEPT ![s] = <<>>]
    BY <1>4 DEF Timeout, Leave
  <2>2. wire'[r] = wire[r]
    BY <1>t, <2>1
  <2>3. pc'[r] = "stream" => pc[r] = "stream"
    BY <1>t, <1>4 DEF Timeout, Leave
  <2>4. outcome'[r] = "complete" => outcome[r] = "complete"
    BY <1>t, <1>4 DEF Timeout, Leave
  <2> QED BY <1>t, <1>u, <2>1, <2>2, <2>3, <2>4, StreamKept
<1>5. ASSUME NEW s \in Utterances, s # r,
             Receive(s) \/ SendChunk(s) \/ LoseChunk(s) \/ SendError(s)
      PROVE  StreamOK(r)'
  <2>1. /\ wire'[r] = wire[r] /\ sent'[r] = sent[r] /\ lost'[r] = lost[r]
        /\ played'[r] = played[r] /\ latents' = latents
    BY <1>t, <1>5 DEF Receive, Leave, SendChunk, LoseChunk, SendError, Put, Done
  <2>2. pc'[r] = pc[r] /\ outcome'[r] = outcome[r]
    BY <1>t, <1>5 DEF Receive, Leave, SendChunk, LoseChunk, SendError
  <2> QED BY <1>t, <1>u, <2>1, <2>2, StreamKept
<1>6. CASE Receive(r)
  BY <1>t, <1>6, StreamReceives
<1>7. CASE (SendChunk(r) \/ LoseChunk(r) \/ SendError(r)) /\ pc[r] = "stream"
  BY <1>t, <1>7, StreamSends, StreamLoses
<1>8. CASE (SendChunk(r) \/ LoseChunk(r) \/ SendError(r)) /\ pc[r] # "stream"
  <2>1. pc[r] = "stopping" /\ UNCHANGED <<pc, latents, played, outcome>>
    BY <1>8 DEF SendChunk, LoseChunk, SendError, Serving
  <2> QED BY <1>t, <2>1 DEF StreamOK, WholeOK, Position, Underway
<1> QED BY <1>1, <1>2, <1>3, <1>4, <1>5, <1>6, <1>7, <1>8 DEF Next

LEMMA InvStep == Inv /\ [Next]_vars => Inv'
<1> SUFFICES ASSUME Inv, [Next]_vars PROVE Inv'
  OBVIOUS
<1>1. TypeOK' /\ Turns' /\ StreamsHeld'
  BY TypeStep, TurnsStep, HeldStep
<1>2. \A r \in Utterances : TokensOK(r)' /\ LatentsOK(r)' /\ StreamOK(r)'
  BY TokensStep, LatentsStep, StreamStep
<1> QED BY <1>1, <1>2 DEF Inv

\* The inductive invariant of the Python side holds in every state.
THEOREM Invariant == Spec => []Inv
<1> QED BY InitInv, InvStep, PTL DEF Spec

(* What the caller can rely on. *)

\* A request that is the only one of its batch, and not padded.
LEMMA AnsweredAlone ==
    ASSUME TypeOK, NEW r \in Utterances, Tokens(r) # <<>>
    PROVE  Own(r) = IF engines
                      THEN Answer(<<[duration |-> Tokens(r),
                                     mask |-> [j \in 1..Len(Tokens(r)) |-> 1]]>>, 1)
                      ELSE TorchAnswer(<<Row(r)>>, 1)
<1> DEFINE alone == [duration |-> Tokens(r), mask |-> [j \in 1..Len(Tokens(r)) |-> 1]]
           t == <<text[r]>>
<1>1. text[r] \in Texts /\ Tokens(r) = Cut(text[r]) /\ Tokens(r) # <<>>
      /\ padding[r] \in Nat
  BY PipelineAssumption DEF TypeOK, Tokens
<1>2. RowShape(alone, Cut(text[r]))
  <2> DEFINE d == Tokens(r)
             ones == [j \in 1..Len(d) |-> 1]
  <2>1. d \in Seq(Nat) /\ Len(d) \in Nat
    BY <1>1, CutType
  <2> HIDE DEF d
  <2>2. ones \in Seq(Nat) /\ Len(ones) = Len(d) /\ \A j \in 1..Len(d) : ones[j] = 1
    BY <2>1, IsASeq
  <2>3. alone = [duration |-> d, mask |-> ones]
    BY DEF d
  <2> HIDE DEF ones, alone
  <2>4. RowShape(alone, d)
    BY <2>1, <2>2, <2>3 DEF RowShape
  <2> QED BY <1>1, <2>4 DEF d
<1>3. RowShape(Row(r), Cut(text[r]))
  BY <1>1, RowOfShape DEF Row
<1> HIDE DEF alone
<1>4. IsBatchOf(<<alone>>, 1, t) /\ IsBatchOf(<<Row(r)>>, 1, t) /\ t[1] = text[r]
  <2>1. \A i \in 1..1 : i = 1
    OBVIOUS
  <2>2. /\ t[1] = text[r] /\ <<alone>>[1] = alone /\ <<Row(r)>>[1] = Row(r)
        /\ DOMAIN <<alone>> = 1..1 /\ Len(<<alone>>) = 1
        /\ DOMAIN <<Row(r)>> = 1..1 /\ Len(<<Row(r)>>) = 1
    OBVIOUS
  <2> HIDE DEF t
  <2> QED BY <1>1, <1>2, <1>3, <2>1, <2>2 DEF IsBatchOf
<1> HIDE DEF t
<1>5. /\ Answer(<<alone>>, 1) = Said(Cut(text[r]), Capped(text[r]))
      /\ TorchAnswer(<<Row(r)>>, 1) = Said(Cut(text[r]), FrameCount[text[r]])
  <2>1. 1 \in 1..1 /\ 1 \in Nat \ {0}
    OBVIOUS
  <2> QED BY <1>4, <2>1, AnswersAreOwn
<1>6. FramesOf(r) = IF engines THEN Capped(text[r]) ELSE FrameCount[text[r]]
  BY <1>1, FramesFacts
<1>7. Own(r) = IF engines THEN Answer(<<alone>>, 1) ELSE TorchAnswer(<<Row(r)>>, 1)
  BY <1>1, <1>5, <1>6 DEF Own
<1> QED BY <1>7 DEF alone

\* A request's latents do not depend on the batch, its order or its padding, and
\* no stream of a client is left open (BatchingDoesNotShow).
THEOREM BatchingIsInvisible == Spec => []BatchingDoesNotShow
<1>1. Inv => BatchingDoesNotShow
  <2> SUFFICES ASSUME Inv PROVE BatchingDoesNotShow
    OBVIOUS
  <2>1. TypeOK /\ Turns /\ StreamsHeld
    BY DEF Inv
  <2>2. ASSUME NEW r \in Utterances, pc[r] = "start", open[CallerOf[r]] PROVE FALSE
    <3>1. PICK q \in Utterances : CallerOf[q] = CallerOf[r] /\ InStream(q)
      BY <2>1, <2>2 DEF StreamsHeld, Callers
    <3>2. q \in Nat /\ r \in Nat
      BY PipelineAssumption DEF Utterances
    <3>3. q < r \/ r < q
      BY <2>2, <3>1, <3>2 DEF InStream
    <3>4. pc[q] = "done" \/ pc[r] = "done"
      BY <2>1, <2>2, <3>1, <3>3 DEF Turns, InStream
    <3> QED BY <2>2, <3>1, <3>4 DEF InStream
  <2>3. ASSUME NEW r \in Utterances, latents[r] # <<>>
        PROVE  /\ Len(latents[r]) = FramesOf(r)
               /\ \A k \in 1..Len(latents[r]) : latents[r][k].clean
               /\ latents[r] = IF engines
                            THEN Answer(<<[duration |-> Tokens(r),
                                           mask |-> [j \in 1..Len(Tokens(r)) |-> 1]]>>, 1)
                            ELSE TorchAnswer(<<Row(r)>>, 1)
    <3>1. Tokens(r) # <<>> /\ latents[r] = Own(r)
      BY <2>3 DEF Inv, LatentsOK
    <3>2. Len(latents[r]) = FramesOf(r) /\ \A k \in 1..Len(latents[r]) : latents[r][k].clean
      BY <2>1, <3>1, OwnType
    <3> QED BY <2>1, <3>1, <3>2, AnsweredAlone
  <2> QED BY <2>1, <2>2, <2>3 DEF BatchingDoesNotShow
<1> QED BY <1>1, Invariant, PTL

LEMMA FramesStay ==
    [Next]_vars => [r \in Utterances |-> FramesOf(r)]' = [r \in Utterances |-> FramesOf(r)]
BY Steady, SteadyMeaning

LEMMA InitPromise == Init => Promise!Init
<1> SUFFICES ASSUME Init PROVE Promise!Init
  OBVIOUS
<1>1. ASSUME NEW r \in Utterances PROVE FramesOf(r) \in Int
  <2>1. text[r] \in Texts
    BY DEF Init
  <2>2. CASE Cut(text[r]) = <<>>
    <3> DEFINE d == Cut(text[r])
               F == CHOOSE f : f = [k \in 0..Len(d) |-> IF k = 0 THEN 0 ELSE f[k - 1] + d[k]]
    <3>1. Len(d) = 0 /\ \A k \in 0..0 : k = 0
      BY <2>2
    <3> HIDE DEF d
    <3>2. \E f : f = [k \in 0..Len(d) |-> IF k = 0 THEN 0 ELSE f[k - 1] + d[k]]
      <4> DEFINE f == [k \in 0..Len(d) |-> 0]
      <4>1. f = [k \in 0..Len(d) |-> IF k = 0 THEN 0 ELSE f[k - 1] + d[k]]
        BY <3>1
      <4> QED BY <4>1
    <3>3. F = [k \in 0..Len(d) |-> IF k = 0 THEN 0 ELSE F[k - 1] + d[k]]
      BY <3>2, Zenon
    <3>4. FrameCount[text[r]] = F[Len(d)]
      BY <2>1, Zenon DEF FrameCount, d
    <3> HIDE DEF F
    <3>5. F[Len(d)] = 0
      BY <3>1, <3>3
    <3> QED BY <3>4, <3>5, FramesAssumption DEF FramesOf
  <2>3. CASE Cut(text[r]) # <<>>
    <3>1. FrameCount[text[r]] \in Nat
      BY <2>1, <2>3, SpelledLength
    <3> QED BY <3>1, FramesAssumption DEF FramesOf
  <2> QED BY <2>2, <2>3
<1>2. [r \in Utterances |-> FramesOf(r)] \in [Utterances -> Int]
  BY <1>1
<1> QED BY <1>2 DEF Init, Promise!Init

\* What the caller has been told: nothing before stream() returns or raises.
Told == [r \in Utterances |-> IF pc[r] = "done" THEN outcome[r] ELSE "streaming"]
Frames == [r \in Utterances |-> FramesOf(r)]

\* What is handed over is the next piece of the utterance that was not lost.
LEMMA ReceivePromise ==
    ASSUME Inv, NEW r \in Utterances, Receive(r), Frames' = Frames, Told' = Told
    PROVE  Promise!Play(r) \/ UNCHANGED Promise!vars
<1> DEFINE h == wire[r][1]
<1>1. /\ TypeOK /\ OrderOK(r) /\ LatentsOK(r) /\ pc[r] = "stream" /\ wire[r] # <<>>
      /\ wire[r] \in Seq(Message) /\ Head(wire[r]) = h /\ 1 \in 1..Len(wire[r])
      /\ h \in Message
  <2>1. /\ TypeOK /\ OrderOK(r) /\ LatentsOK(r) /\ pc[r] = "stream" /\ wire[r] # <<>>
    BY DEF Inv, StreamOK, Receive
  <2>2. wire[r] \in Seq(Message)
    BY <2>1 DEF TypeOK, Message
  <2>3. Len(wire[r]) \in Nat \ {0} /\ Head(wire[r]) = h
    BY <2>1, <2>2
  <2>4. 1 \in 1..Len(wire[r]) /\ h \in Message
    BY <2>2, <2>3
  <2> QED BY <2>1, <2>2, <2>3, <2>4
<1>2. Told[r] = "streaming" /\ lost' = lost
  BY <1>1 DEF Told, Receive, triton
<1>3. CASE h.error
  <2>1. played' = played
    BY <1>1, <1>3 DEF Receive
  <2> QED BY <1>2, <2>1 DEF Promise!vars, Told, Frames
<1>4. CASE ~h.error
  <2>1. played' = [played EXCEPT ![r] = Append(@, h.piece)]
    BY <1>1, <1>4 DEF Receive
  <2>2. MessageOK(r, 1)
    BY <1>1 DEF OrderOK
  <2>3. /\ Gap(lost[r], Position(r), h.piece[1]) /\ h.piece[1] < h.piece[2]
        /\ h.piece[2] <= Len(latents[r])
    BY <1>4, <2>2 DEF MessageOK, StartOf
  <2>4. h.piece[1] \in Nat /\ h.piece[2] \in Nat /\ h.piece = <<h.piece[1], h.piece[2]>>
    <3>1. h.piece \in Nat \X Nat
      BY <1>1 DEF Message
    <3> QED BY ONLY <3>1
  <2>5. latents[r] # <<>>
    BY <2>3, <2>4
  <2>6. Frames[r] = Len(latents[r]) /\ Frames[r] \in Nat
    BY <1>1, <2>5, WholeLength DEF Frames
  <2>7. Position(r) = Promise!Position(r) /\ Position(r) \in Nat
    BY <1>1, PositionType DEF Position, Promise!Position
  <2>8. PICK from \in Nat, end \in Nat : from = h.piece[1] /\ end = h.piece[2]
    BY <2>4
  <2>9. from < end /\ end <= Frames[r] /\ Gap(lost[r], Position(r), from)
    BY <2>3, <2>6, <2>8
  <2>10. from \in Position(r)..Frames[r] /\ end \in (from + 1)..Frames[r]
    BY <2>6, <2>7, <2>9 DEF Gap
  <2>11. Position(r)..(from - 1) \subseteq lost[r]
    <3>1. \A n \in Position(r)..(from - 1) : n \in Nat /\ Position(r) <= n /\ n < from
      BY <2>7
    <3> QED BY <2>9, <3>1 DEF Gap
  <2>12. from \in Promise!Starts(r)
    BY <2>7, <2>10, <2>11 DEF Promise!Starts, Frames
  <2>13. played' = [played EXCEPT ![r] = Append(@, <<from, end>>)]
    BY <2>1, <2>4, <2>8
  <2>14. Promise!Deliver(r)
    BY <2>10, <2>12, <2>13 DEF Promise!Deliver, Frames
  <2> QED BY <1>2, <2>14 DEF Promise!Play, Told, Frames
<1> QED BY <1>3, <1>4

LEMMA PromiseStep == Inv /\ [Next]_vars => [Promise!Next]_(Promise!vars)
<1> SUFFICES ASSUME Inv, [Next]_vars PROVE Promise!Next \/ UNCHANGED Promise!vars
  OBVIOUS
<1> USE DEF server, triton
<1>t. /\ TypeOK
      /\ pc \in [Utterances -> {"waiting", "text", "acoustic", "start", "stream", "stopping",
                             "done"}]
      /\ outcome \in [Utterances -> {"streaming", "complete", "failed"}]
      /\ \A r \in Utterances : pc[r] \notin {"stopping", "done"} => outcome[r] = "streaming"
  BY DEF Inv, TypeOK
<1>f. UNCHANGED Frames
  BY FramesStay DEF Frames
<1>d. /\ Told = [r \in Utterances |-> IF pc[r] = "done" THEN outcome[r] ELSE "streaming"]
      /\ Told' = [r \in Utterances |-> IF pc'[r] = "done" THEN outcome'[r] ELSE "streaming"]
  BY DEF Told
<1>s. ASSUME NEW S \in SUBSET Utterances, \A r \in S : pc[r] # "done",
             Told' = Set(Told, S, "failed"), UNCHANGED <<played, lost>>
      PROVE  Promise!Next
  <2>1. \A r \in S : Told[r] = "streaming"
    BY <1>d, <1>s
  <2>2. Told' = [r \in Utterances |-> IF r \in S THEN "failed" ELSE Told[r]]
    BY <1>d, <1>s DEF Set
  <2>3. Promise!FailTogether(S)
    BY <1>f, <1>s, <2>1, <2>2 DEF Promise!FailTogether, Told, Frames
  <2> QED BY <2>3 DEF Promise!Next
<1>u. UNCHANGED <<played, lost, Told>> => UNCHANGED Promise!vars
  BY <1>f DEF Promise!vars, Told, Frames
<1>k. UNCHANGED <<pc, outcome>> => Told' = Told
  BY <1>d
<1>1. CASE Initialize
  BY <1>u, <1>k, <1>1 DEF Initialize
<1>2. ASSUME NEW S \in SUBSET Utterances, TextFrontend(S) PROVE Promise!Next
  <2> DEFINE bad == {r \in S : Tokens(r) = <<>>}
  <2>1. /\ outcome' = Set(outcome, bad, "failed") /\ UNCHANGED <<played, lost>>
        /\ pc' = Set(Set(pc, S, "acoustic"), bad, "done")
        /\ \A r \in S : pc[r] = "text"
    BY <1>2 DEF TextFrontend
  <2>2. bad \in SUBSET Utterances /\ \A r \in bad : r \in S
    OBVIOUS
  <2> HIDE DEF bad
  <2>3. \A r \in bad : pc[r] # "done"
    BY <2>1, <2>2
  <2>4. ASSUME NEW r \in Utterances
        PROVE  Told'[r] = IF r \in bad THEN "failed" ELSE Told[r]
    <3>1. /\ pc'[r] = IF r \in bad THEN "done" ELSE IF r \in S THEN "acoustic" ELSE pc[r]
          /\ outcome'[r] = IF r \in bad THEN "failed" ELSE outcome[r]
      BY <1>t, <2>1 DEF Set
    <3> QED BY <1>d, <2>1, <3>1
  <2>5. Told' = Set(Told, bad, "failed")
    BY <1>d, <2>4 DEF Set
  <2> QED BY <1>s, <2>1, <2>2, <2>3, <2>5
<1>3. ASSUME NEW batch \in Batches, AcousticFrontend(batch)
      PROVE  Promise!Next \/ UNCHANGED Promise!vars
  <2>1. PICK S \in SUBSET Utterances : S = ToSet(batch) /\ \A r \in S : pc[r] = "acoustic"
    BY BatchFacts DEF Waiting
  <2>2. UNCHANGED <<played, lost>>
    BY <1>3 DEF AcousticFrontend
  <2>3. CASE outcome' = Set(outcome, S, "failed") /\ pc' = Set(pc, S, "done")
    <3>1. ASSUME NEW r \in Utterances
          PROVE  Told'[r] = IF r \in S THEN "failed" ELSE Told[r]
      <4>1. /\ pc'[r] = IF r \in S THEN "done" ELSE pc[r]
            /\ outcome'[r] = IF r \in S THEN "failed" ELSE outcome[r]
        BY <1>t, <2>3 DEF Set
      <4> QED BY <1>d, <4>1
    <3>2. Told' = Set(Told, S, "failed")
      BY <1>d, <3>1 DEF Set
    <3> QED BY <1>s, <2>1, <2>2, <3>2
  <2>4. CASE outcome' = outcome /\ pc' = Set(pc, S, "start")
    <3>1. ASSUME NEW r \in Utterances PROVE Told'[r] = Told[r]
      <4>1. pc'[r] = IF r \in S THEN "start" ELSE pc[r]
        BY <1>t, <2>4 DEF Set
      <4> QED BY <1>d, <2>1, <2>4, <4>1
    <3>2. Told' = Told
      BY <1>d, <3>1
    <3> QED BY <1>u, <2>2, <3>2
  <2> QED BY <1>3, <2>1, <2>3, <2>4 DEF AcousticFrontend
<1>5. ASSUME NEW r \in Utterances, StartStream(r)
      PROVE  Promise!Next \/ UNCHANGED Promise!vars
  <2>1. pc[r] = "start" /\ UNCHANGED <<played, lost>>
    BY <1>5 DEF StartStream
  <2>2. CASE outcome' = [outcome EXCEPT ![r] = "failed"] /\ pc' = [pc EXCEPT ![r] = "done"]
    <3>1. Told' = [Told EXCEPT ![r] = "failed"]
      BY <1>t, <1>d, <2>2
    <3>2. Promise!Fail(r)
      BY <1>d, <1>f, <2>1, <3>1 DEF Promise!Fail, Promise!Ends, Told, Frames
    <3> QED BY <3>2 DEF Promise!Next
  <2>3. CASE outcome' = outcome /\ pc' = [pc EXCEPT ![r] = "stream"]
    <3>1. Told' = Told
      BY <1>t, <1>d, <2>1, <2>3
    <3> QED BY <1>u, <2>1, <3>1
  <2> QED BY <1>5, <2>2, <2>3 DEF StartStream
<1>l. ASSUME NEW r \in Utterances, Receive(r) \/ Timeout(r) PROVE Told' = Told
  <2>1. pc[r] = "stream" /\ (UNCHANGED <<pc, outcome>>
          \/ \E how : /\ outcome' = [outcome EXCEPT ![r] = how]
                      /\ pc' = [pc EXCEPT ![r] = "stopping"])
    BY <1>l DEF Receive, Timeout, Leave
  <2>2. \A q \in Utterances : Told'[q] = Told[q]
    BY <1>t, <1>d, <2>1
  <2> QED BY <1>d, <2>2
<1>6. ASSUME NEW r \in Utterances, Timeout(r) PROVE UNCHANGED Promise!vars
  BY <1>u, <1>l, <1>6 DEF Timeout
<1>7. ASSUME NEW r \in Utterances, Receive(r) PROVE Promise!Next \/ UNCHANGED Promise!vars
  BY <1>f, <1>l, <1>7, ReceivePromise DEF Promise!Next
<1>8. ASSUME NEW r \in Utterances, Call(r) PROVE UNCHANGED Promise!vars
  <2>1. pc[r] = "waiting" /\ pc' = [pc EXCEPT ![r] = "text"] /\ UNCHANGED <<played, lost, outcome>>
    BY <1>8 DEF Call
  <2>2. Told' = Told
    BY <1>t, <1>d, <2>1
  <2> QED BY <1>u, <2>1, <2>2
<1>10. ASSUME NEW r \in Utterances, SendChunk(r) \/ SendError(r) PROVE UNCHANGED Promise!vars
  BY <1>u, <1>k, <1>10 DEF SendChunk, SendError
<1>11. ASSUME NEW r \in Utterances, LoseChunk(r) PROVE Promise!Next
  <2>1. PICK end \in Ends(r) : lost' = [lost EXCEPT ![r] = @ \union sent[r]..(end - 1)]
    BY <1>11 DEF LoseChunk
  <2>2. /\ sent[r] \in Nat /\ latents[r] \in Seq(Frame) /\ sent[r] < Len(latents[r])
        /\ LatentsOK(r)
    BY <1>11 DEF LoseChunk, Serving, Inv, TypeOK, Frame
  <2>3. PICK L \in Nat : L = Len(latents[r])
    BY <2>2
  <2>4. latents[r] # <<>>
    BY <2>2
  <2>5. Frames[r] = L
    BY <1>t, <2>2, <2>3, <2>4, WholeLength DEF Frames
  <2>6. sent[r] \in 0..Frames[r] /\ end \in 0..Frames[r]
    BY <2>2, <2>3, <2>5 DEF Ends
  <2>7. UNCHANGED <<played, Told>>
    BY <1>k, <1>11 DEF LoseChunk
  <2>8. Promise!Lose(r)
    BY <1>f, <2>1, <2>6, <2>7 DEF Promise!Lose, Told, Frames
  <2> QED BY <2>8 DEF Promise!Next
<1>12. ASSUME NEW r \in Utterances, StopStream(r) PROVE Promise!Next
  <2>1. /\ pc[r] = "stopping" /\ pc' = [pc EXCEPT ![r] = "done"]
        /\ UNCHANGED <<played, lost, outcome>> /\ outcome[r] \in {"complete", "failed"}
    BY <1>12 DEF StopStream, Inv, TypeOK
  <2>2. Told[r] = "streaming" /\ Told' = [Told EXCEPT ![r] = outcome[r]]
    BY <1>t, <1>d, <2>1
  <2>3. CASE outcome[r] = "failed"
    <3>1. Promise!Fail(r)
      BY <1>f, <2>1, <2>2, <2>3 DEF Promise!Fail, Promise!Ends, Told, Frames
    <3> QED BY <3>1 DEF Promise!Next
  <2>4. CASE outcome[r] = "complete"
    <3>1. latents[r] # <<>> /\ Position(r) = Len(latents[r]) /\ LatentsOK(r)
      BY <2>4 DEF Inv, StreamOK, WholeOK
    <3>2. Position(r) = Frames[r]
      BY <1>t, <3>1, WholeLength DEF Frames
    <3>3. Promise!Position(r) = Frames[r]
      BY <3>2 DEF Position, Promise!Position
    <3>4. Promise!Complete(r)
      BY <1>f, <2>1, <2>2, <2>4, <3>3 DEF Promise!Complete, Promise!Ends, Told, Frames
    <3> QED BY <3>4 DEF Promise!Next
  <2> QED BY <2>1, <2>3, <2>4
<1>9. CASE UNCHANGED vars
  BY <1>u, <1>k, <1>9 DEF vars
<1> QED BY <1>1, <1>2, <1>3, <1>5, <1>6, <1>7, <1>8, <1>9, <1>10, <1>11, <1>12 DEF Next

\* Whatever fails on the way, stream() raises or returns the whole utterance in
\* order, but for chunks the streaming backend could not send (KeepsPromise).
THEOREM Refinement == Spec => KeepsPromise
<1>1. Init => Promise!Init BY InitPromise
<1>2. Spec => []Inv BY Invariant
<1> QED BY <1>1, <1>2, PromiseStep, PTL DEF Spec, KeepsPromise, Promise!Spec
=============================================================================
