--------------------------- MODULE SequenceFacts ----------------------------
(***************************************************************************)
(* Facts about sequences of values that are in no set known beforehand,    *)
(* as the lines of the legacy programs' files are: their fields come from  *)
(* whatever the machine answered.  Then induction, the sums that a fold    *)
(* makes of a sequence, and those over finite sets, in whatever order.     *)
(***************************************************************************)
EXTENDS Values, SequenceTheorems, FiniteSetTheorems, TLAPS

IsSeq(s) == s \in Seq(Range(s))

\* Every sequence is one of its own elements.
LEMMA AnySeq == ASSUME NEW S, NEW s \in Seq(S) PROVE IsSeq(s)
BY SeqOfRange DEF IsSeq

\* The empty sequence and those of one element.
LEMMA ShortSeq ==
  ASSUME NEW e
  PROVE  /\ IsSeq(<<>>) /\ Len(<<>>) = 0
         /\ IsSeq(<<e>>) /\ Len(<<e>>) = 1 /\ <<e>>[1] = e
<1>1. <<>> \in Seq({e}) /\ Len(<<>>) = 0
  BY EmptySeq
<1>2. <<e>> \in Seq({e}) /\ Len(<<e>>) = 1 /\ <<e>>[1] = e
  OBVIOUS
<1> QED BY <1>1, <1>2, AnySeq

\* A sequence's indices are a beginning of the natural numbers.
LEMMA SeqDomain ==
  ASSUME NEW s, IsSeq(s)
  PROVE  Len(s) \in Nat /\ DOMAIN s = 1 .. Len(s)
BY LenProperties DEF IsSeq

\* There is nothing in the empty sequence.
LEMMA EmptySeqIs == IsSeq(<<>>) /\ Len(<<>>) = 0 /\ DOMAIN <<>> = {}
<1>1. IsSeq(<<>>) /\ Len(<<>>) = 0
  BY ShortSeq
<1>2. DOMAIN <<>> = 1 .. 0
  BY <1>1, SeqDomain
<1> QED BY <1>1, <1>2

\* Two sequences are sequences over one set.
LEMMA CommonSet ==
  ASSUME NEW s, IsSeq(s), NEW t, IsSeq(t)
  PROVE  s \in Seq(Range(s) \cup Range(t)) /\ t \in Seq(Range(s) \cup Range(t))
<1>1. Range(s) \subseteq Range(s) \cup Range(t) /\ Range(t) \subseteq Range(s) \cup Range(t)
  OBVIOUS
<1> QED BY <1>1, SeqMonotonic DEF IsSeq

\* Adding an element keeps those before it.
LEMMA AppendSeq ==
  ASSUME NEW s, IsSeq(s), NEW e
  PROVE  /\ IsSeq(Append(s, e))
         /\ Len(s) \in Nat /\ Len(Append(s, e)) = Len(s) + 1
         /\ \A i \in 1 .. Len(s) : Append(s, e)[i] = s[i]
         /\ Append(s, e)[Len(s) + 1] = e
         /\ Append(s, e) = s \o <<e>>
<1> DEFINE S == Range(s) \cup {e}
<1>1. s \in Seq(S) /\ e \in S
  <2>1. Range(s) \subseteq S
    OBVIOUS
  <2> QED BY <2>1, SeqMonotonic DEF IsSeq
<1> HIDE DEF S
<1>2. /\ Append(s, e) \in Seq(S) /\ Len(Append(s, e)) = Len(s) + 1
      /\ \A i \in 1 .. Len(s) : Append(s, e)[i] = s[i]
      /\ Append(s, e)[Len(s) + 1] = e
  BY <1>1, AppendProperties
<1>3. Append(s, e) = s \o <<e>> /\ Len(s) \in Nat
  BY <1>1, AppendIsConcat, LenProperties
<1>4. IsSeq(Append(s, e))
  BY <1>2, AnySeq
<1> QED BY <1>2, <1>3, <1>4

\* The elements of a concatenation are those of its parts, in their order.
LEMMA ConcatSeq ==
  ASSUME NEW s, IsSeq(s), NEW t, IsSeq(t)
  PROVE  /\ IsSeq(s \o t)
         /\ Len(s) \in Nat /\ Len(t) \in Nat /\ Len(s \o t) = Len(s) + Len(t)
         /\ \A i \in 1 .. Len(s) : (s \o t)[i] = s[i]
         /\ \A i \in 1 .. Len(t) : (s \o t)[Len(s) + i] = t[i]
         /\ s \o <<>> = s /\ <<>> \o s = s
<1> DEFINE S == Range(s) \cup Range(t)
<1>1. s \in Seq(S) /\ t \in Seq(S)
  BY CommonSet
<1> HIDE DEF S
<1>2. /\ s \o t \in Seq(S) /\ Len(s \o t) = Len(s) + Len(t)
      /\ Len(s) \in Nat /\ Len(t) \in Nat
      /\ \A i \in 1 .. Len(s) + Len(t) : (s \o t)[i] = IF i <= Len(s) THEN s[i] ELSE t[i - Len(s)]
  BY <1>1, ConcatProperties, LenProperties
<1>3. IsSeq(s \o t)
  BY <1>2, AnySeq
<1>4. \A i \in 1 .. Len(s) : (s \o t)[i] = s[i]
  BY <1>2
<1>5. ASSUME NEW i \in 1 .. Len(t)
      PROVE  (s \o t)[Len(s) + i] = t[i]
  <2>1. Len(s) + i \in 1 .. Len(s) + Len(t) /\ ~(Len(s) + i <= Len(s)) /\ Len(s) + i - Len(s) = i
    BY <1>2
  <2> QED BY <1>2, <2>1
<1> QED BY <1>1, <1>2, <1>3, <1>4, <1>5, ConcatEmptySeq

\* Concatenation is associative, and appending to the second part of one is
\* appending to the whole.
LEMMA ConcatThree ==
  ASSUME NEW s, IsSeq(s), NEW t, IsSeq(t), NEW u, IsSeq(u)
  PROVE  (s \o t) \o u = s \o (t \o u)
<1> DEFINE S == Range(s) \cup Range(t) \cup Range(u)
<1>1. Range(s) \subseteq S /\ Range(t) \subseteq S /\ Range(u) \subseteq S
  OBVIOUS
<1>2. s \in Seq(S) /\ t \in Seq(S) /\ u \in Seq(S)
  <2> HIDE DEF S
  <2> QED BY <1>1, SeqMonotonic DEF IsSeq
<1> HIDE DEF S
<1> QED BY <1>2, ConcatAssociative

LEMMA AppendToSecond ==
  ASSUME NEW s, IsSeq(s), NEW t, IsSeq(t), NEW e
  PROVE  s \o Append(t, e) = Append(s \o t, e)
<1>1. Append(t, e) = t \o <<e>> /\ IsSeq(<<e>>) /\ IsSeq(s \o t)
  BY AppendSeq, ShortSeq, ConcatSeq
<1>2. Append(s \o t, e) = (s \o t) \o <<e>>
  BY <1>1, AppendSeq
<1> QED BY <1>1, <1>2, ConcatThree

\* A sequence is any beginning of it and the rest.
LEMMA SplitSeq ==
  ASSUME NEW s, IsSeq(s), NEW n \in 0 .. Len(s)
  PROVE  /\ IsSeq(SubSeq(s, 1, n)) /\ IsSeq(SubSeq(s, n + 1, Len(s)))
         /\ SubSeq(s, 1, n) \o SubSeq(s, n + 1, Len(s)) = s
<1>1. s \in Seq(Range(s)) /\ Len(s) \in Nat /\ n \in Nat /\ n <= Len(s)
  BY SeqDomain DEF IsSeq
<1>2. 1 \in 1 .. Len(s) + 1 /\ n \in 1 - 1 .. Len(s) /\ Len(s) \in n .. Len(s)
  BY <1>1
<1>3. SubSeq(s, 1, n) \o SubSeq(s, n + 1, Len(s)) = SubSeq(s, 1, Len(s))
  BY <1>1, <1>2, ConcatAdjacentSubSeq
<1>4. SubSeq(s, 1, Len(s)) = s
  BY <1>1, SubSeqFull
<1>5. \A i \in 1 .. Len(s) : s[i] \in Range(s)
  BY <1>1, ElementOfSeq
<1>6. SubSeq(s, 1, n) \in Seq(Range(s))
  <2>1. \A i \in 1 .. n : s[i] \in Range(s)
    BY <1>1, <1>5
  <2> QED BY <1>1, <2>1, SubSeqProperties
<1>7. SubSeq(s, n + 1, Len(s)) \in Seq(Range(s))
  <2>1. n + 1 \in Int /\ \A i \in n + 1 .. Len(s) : s[i] \in Range(s)
    BY <1>1, <1>5
  <2> QED BY <1>1, <2>1, SubSeqProperties
<1> QED BY <1>3, <1>4, <1>6, <1>7, AnySeq

-----------------------------------------------------------------------------
(* Induction, and what it says of sums. *)

\* Induction, stated with a set: a number n outside S would leave in S \cap 0..n
\* a finite set that the successor maps into itself without its 0.
LEMMA Induction ==
  ASSUME NEW S, 0 \in S, \A n \in Nat : n \in S => n + 1 \in S
  PROVE  Nat \subseteq S
<1> SUFFICES ASSUME NEW n \in Nat, n \notin S PROVE FALSE
  OBVIOUS
<1> DEFINE A == S \cap (0 .. n)
           T == A \ {0}
           f == [x \in A |-> x + 1]
<1>1. IsFiniteSet(A)
  <2>1. IsFiniteSet(0 .. n)
    BY FS_Interval
  <2>2. A \in SUBSET (0 .. n)
    OBVIOUS
  <2> QED BY <2>1, <2>2, FS_Subset
<1>2. 0 \in A
  OBVIOUS
<1>3. /\ IsFiniteSet(T) /\ Cardinality(T) = Cardinality(A) - 1
      /\ Cardinality(A) \in Nat
  BY <1>1, <1>2, FS_RemoveElement, FS_CardinalityType
<1>4. f \in [A -> T]
  OBVIOUS
<1>5. \E x, y \in A : x # y /\ f[x] = f[y]
  <2> HIDE DEF A, f, T
  <2>1. Cardinality(T) < Cardinality(A)
    BY <1>3
  <2> QED BY <1>1, <1>3, <1>4, <2>1, FS_PigeonHole
<1>6. PICK x \in A, y \in A : x # y /\ f[x] = f[y]
  BY <1>5
<1>7. x + 1 = y + 1 /\ x \in Nat /\ y \in Nat
  BY <1>6
<1> QED BY <1>6, <1>7

\* Numbers up to a bound have a greatest one.
LEMMA MaxOfSome ==
  ASSUME NEW n \in Nat, NEW t \in SUBSET (1 .. n), t # {}
  PROVE  Max(t) \in t /\ \A y \in t : y <= Max(t)
<1> DEFINE Has(u) == \E x \in u : \A y \in u : x >= y
           S == {k \in Nat : \A u \in SUBSET (1 .. k) : u # {} => Has(u)}
<1>1. 0 \in S
  <2>1. \A u \in SUBSET (1 .. 0) : u = {}
    OBVIOUS
  <2> HIDE DEF Has
  <2> QED BY <2>1
<1>2. ASSUME NEW k \in Nat, k \in S PROVE k + 1 \in S
  <2>1. ASSUME NEW u \in SUBSET (1 .. k + 1), u # {} PROVE Has(u)
    <3>1. CASE k + 1 \in u
      BY <3>1
    <3>2. CASE k + 1 \notin u
      <4>1. u \in SUBSET (1 .. k)
        BY <3>2
      <4> QED BY <1>2, <2>1, <4>1
    <3> QED BY <3>1, <3>2
  <2> HIDE DEF Has
  <2> QED BY <2>1
<1>3. Nat \subseteq S
  <2> HIDE DEF S
  <2> QED BY <1>1, <1>2, Induction
<1>4. \E x \in t : \A y \in t : x >= y
  BY <1>3
<1>5. Max(t) \in t /\ \A y \in t : Max(t) >= y
  BY <1>4 DEF Max
<1> QED BY <1>5

\* F sums the elements of s at every set of indices up to n, as Total does.
Sums(F, s, n) ==
  F = [t \in SUBSET (1 .. n) |-> IF t = {} THEN 0 ELSE F[t \ {Max(t)}] + s[Max(t)]]

\* There are such sums.
LEMMA SumsExist == ASSUME NEW s, NEW n \in Nat PROVE \E F : Sums(F, s, n)
<1> DEFINE S == {k \in Nat : \E F : Sums(F, s, k)}
<1>1. 0 \in S
  <2> DEFINE F == [t \in SUBSET (1 .. 0) |-> 0]
  <2>1. \A t \in SUBSET (1 .. 0) : t = {}
    OBVIOUS
  <2>2. F = [t \in SUBSET (1 .. 0) |-> IF t = {} THEN 0 ELSE F[t \ {Max(t)}] + s[Max(t)]]
    BY <2>1
  <2>3. Sums(F, s, 0)
    BY <2>2 DEF Sums
  <2> QED BY <2>3
<1>2. ASSUME NEW k \in Nat, k \in S PROVE k + 1 \in S
  <2>1. PICK F : Sums(F, s, k)
    BY <1>2
  <2> DEFINE G == [t \in SUBSET (1 .. k + 1) |->
                    IF k + 1 \in t THEN F[t \ {k + 1}] + s[k + 1] ELSE F[t]]
  <2>2. ASSUME NEW t \in SUBSET (1 .. k + 1)
        PROVE  G[t] = IF t = {} THEN 0 ELSE G[t \ {Max(t)}] + s[Max(t)]
    <3>1. CASE t = {}
      <4>1. {} \in SUBSET (1 .. k) /\ F[{}] = 0
        BY <2>1 DEF Sums
      <4> QED BY <3>1, <4>1
    <3>2. CASE k + 1 \in t
      <4>1. Max(t) \in t /\ k + 1 <= Max(t)
        <5>1. k + 1 \in Nat /\ t # {}
          BY <3>2
        <5>2. Max(t) \in t /\ \A y \in t : y <= Max(t)
          BY ONLY <2>2, <5>1, MaxOfSome
        <5> QED BY <3>2, <5>2
      <4>2. Max(t) = k + 1
        <5>1. Max(t) \in 1 .. k + 1
          BY <4>1
        <5> HIDE DEF G
        <5> QED BY <4>1, <5>1
      <4>3. /\ t \ {k + 1} \in SUBSET (1 .. k + 1) /\ k + 1 \notin t \ {k + 1}
        OBVIOUS
      <4>4. G[t \ {k + 1}] = F[t \ {k + 1}]
        BY <4>3
      <4>5. G[t] = F[t \ {k + 1}] + s[k + 1]
        BY <3>2
      <4> HIDE DEF G
      <4> QED BY <3>2, <4>2, <4>4, <4>5
    <3>3. CASE t # {} /\ k + 1 \notin t
      <4>1. t \in SUBSET (1 .. k)
        BY <3>3
      <4>2. Max(t) \in t
        BY <3>3, <4>1, MaxOfSome
      <4>3. F[t] = F[t \ {Max(t)}] + s[Max(t)]
        BY <2>1, <3>3, <4>1 DEF Sums
      <4>4. t \ {Max(t)} \in SUBSET (1 .. k + 1) /\ k + 1 \notin t \ {Max(t)}
        BY <3>3
      <4>5. G[t] = F[t] /\ G[t \ {Max(t)}] = F[t \ {Max(t)}]
        BY <3>3, <4>4
      <4> HIDE DEF G
      <4> QED BY <3>3, <4>3, <4>5
    <3> QED BY <3>1, <3>2, <3>3
  <2>3. G = [t \in SUBSET (1 .. k + 1) |-> G[t]]
    OBVIOUS
  <2>4. Sums(G, s, k + 1)
    <3> HIDE DEF G
    <3> QED BY <2>2, <2>3 DEF Sums
  <2> QED BY <2>4
<1> HIDE DEF S
<1>3. Nat \subseteq S
  BY <1>1, <1>2, Induction
<1> QED BY <1>3 DEF S

\* Each sum is the one before it and the next element.
LEMMA SumsStep ==
  ASSUME NEW F, NEW s, NEW n \in Nat, Sums(F, s, n)
  PROVE  /\ F[1 .. 0] = 0
         /\ \A k \in 1 .. n : F[1 .. k] = F[1 .. k - 1] + s[k]
<1>1. F[1 .. 0] = 0
  <2>1. 1 .. 0 = {} /\ {} \in SUBSET (1 .. n)
    OBVIOUS
  <2> QED BY <2>1 DEF Sums
<1>2. ASSUME NEW k \in 1 .. n PROVE F[1 .. k] = F[1 .. k - 1] + s[k]
  <2>1. 1 .. k \in SUBSET (1 .. n) /\ k \in 1 .. k /\ 1 .. k # {}
    OBVIOUS
  <2>2. Max(1 .. k) \in 1 .. k /\ k <= Max(1 .. k)
    BY <2>1, MaxOfSome
  <2>3. Max(1 .. k) = k
    BY <2>2
  <2>4. (1 .. k) \ {k} = 1 .. k - 1
    OBVIOUS
  <2>5. F[1 .. k] = F[(1 .. k) \ {Max(1 .. k)}] + s[Max(1 .. k)]
    BY <2>1 DEF Sums
  <2> QED BY <2>3, <2>4, <2>5
<1> QED BY <1>1, <1>2

\* Total is the last of these sums.
LEMMA TotalSums ==
  ASSUME NEW s, IsSeq(s)
  PROVE  \E F : Sums(F, s, Len(s)) /\ Total(s) = F[1 .. Len(s)]
<1>1. DOMAIN s = 1 .. Len(s) /\ Len(s) \in Nat
  BY SeqDomain
<1> DEFINE F == CHOOSE F : Sums(F, s, Len(s))
<1>2. Sums(F, s, Len(s))
  BY <1>1, SumsExist
<1>3. Total(s) = F[1 .. Len(s)]
  BY <1>1 DEF Total, FoldLeft, MapThenFoldSet, Sums
<1> QED BY <1>2, <1>3

\* Sums of sequences that begin alike do so, too.
LEMMA SumsAgree ==
  ASSUME NEW F, NEW s, NEW n \in Nat, Sums(F, s, n),
         NEW G, NEW t, NEW m \in Nat, Sums(G, t, m),
         n <= m, \A i \in 1 .. n : s[i] = t[i]
  PROVE  F[1 .. n] = G[1 .. n]
<1> DEFINE S == {k \in Nat : k <= n => F[1 .. k] = G[1 .. k]}
<1>1. 0 \in S
  BY SumsStep
<1>2. ASSUME NEW k \in Nat, k \in S PROVE k + 1 \in S
  <2>1. CASE k + 1 <= n
    <3>1. k + 1 \in 1 .. n /\ k + 1 \in 1 .. m /\ (k + 1) - 1 = k
      BY <2>1
    <3>2. F[1 .. k + 1] = F[1 .. k] + s[k + 1]
      BY <3>1, SumsStep
    <3>3. G[1 .. k + 1] = G[1 .. k] + t[k + 1]
      BY <3>1, SumsStep
    <3>4. s[k + 1] = t[k + 1] /\ F[1 .. k] = G[1 .. k]
      BY <1>2, <2>1, <3>1
    <3> QED BY <3>2, <3>3, <3>4
  <2> QED BY <2>1
<1> HIDE DEF S
<1>3. Nat \subseteq S
  BY <1>1, <1>2, Induction
<1> QED BY <1>3 DEF S

\* The sum of no elements is 0, and an element more adds itself.
LEMMA TotalAppend ==
  /\ Total(<<>>) = 0
  /\ \A s, e : IsSeq(s) => Total(Append(s, e)) = Total(s) + e
<1>1. Total(<<>>) = 0
  <2>1. PICK F : Sums(F, <<>>, Len(<<>>)) /\ Total(<<>>) = F[1 .. Len(<<>>)]
    BY ShortSeq, TotalSums
  <2>2. Len(<<>>) = 0
    OBVIOUS
  <2>3. Sums(F, <<>>, 0) /\ Total(<<>>) = F[1 .. 0]
    BY <2>1, <2>2
  <2> QED BY <2>3, SumsStep
<1>2. ASSUME NEW s, NEW e, IsSeq(s)
      PROVE  Total(Append(s, e)) = Total(s) + e
  <2> DEFINE t == Append(s, e)
             n == Len(s)
  <2>1. /\ IsSeq(t) /\ n \in Nat /\ Len(t) = n + 1
        /\ t[n + 1] = e /\ \A i \in 1 .. n : s[i] = t[i]
    BY ONLY <1>2, AppendSeq, ZenonT(40)
  <2> HIDE DEF t, n
  <2>2. PICK F : Sums(F, s, n) /\ Total(s) = F[1 .. n]
    BY <1>2, TotalSums DEF n
  <2>3. PICK G : Sums(G, t, n + 1) /\ Total(t) = G[1 .. n + 1]
    BY <2>1, TotalSums
  <2>4. n + 1 \in Nat /\ n <= n + 1 /\ n + 1 \in 1 .. n + 1 /\ (n + 1) - 1 = n
    BY <2>1
  <2>5. F[1 .. n] = G[1 .. n]
    BY <2>1, <2>2, <2>3, <2>4, SumsAgree
  <2>6. G[1 .. n + 1] = G[1 .. n] + t[n + 1]
    BY <2>3, <2>4, SumsStep
  <2>7. Total(t) = Total(s) + e
    BY <2>1, <2>2, <2>3, <2>5, <2>6
  <2> QED BY <2>7 DEF t
<1> QED BY <1>1, <1>2

\* A beginning is unchanged by what follows, and all of a sequence is one.
LEMMA Beginning ==
  ASSUME NEW s, IsSeq(s), NEW t, IsSeq(t)
  PROVE  /\ SubSeq(s, 1, Len(s)) = s
         /\ \A n \in 0 .. Len(s) : SubSeq(s \o t, 1, n) = SubSeq(s, 1, n)
<1> DEFINE S == Range(s) \cup Range(t)
           u == s \o t
<1>1. s \in Seq(S) /\ t \in Seq(S)
  BY CommonSet
<1>2. /\ u \in Seq(S) /\ Len(s) \in Nat /\ Len(t) \in Nat /\ Len(u) = Len(s) + Len(t)
      /\ \A i \in 1 .. Len(s) : u[i] = s[i]
  <2> HIDE DEF S
  <2>1. u \in Seq(S)
    BY <1>1, ConcatProperties
  <2> QED BY ONLY <2>1, ConcatSeq, IsSeq(s), IsSeq(t)
<1>3. ASSUME NEW n \in 0 .. Len(s) PROVE SubSeq(u, 1, n) = SubSeq(s, 1, n)
  <2> HIDE DEF u, S
  <2>1. n \in Nat /\ n <= Len(s) /\ n <= Len(u)
    BY <1>2
  <2>2. /\ SubSeq(u, 1, n) \in Seq(S) /\ Len(SubSeq(u, 1, n)) = n
        /\ \A i \in 1 .. n : SubSeq(u, 1, n)[i] = u[i]
    BY <1>2, <2>1, SubSeqProperties
  <2>3. /\ SubSeq(s, 1, n) \in Seq(S) /\ Len(SubSeq(s, 1, n)) = n
        /\ \A i \in 1 .. n : SubSeq(s, 1, n)[i] = s[i]
    BY <1>1, <1>2, <2>1, SubSeqProperties
  <2>4. \A i \in 1 .. n : SubSeq(u, 1, n)[i] = SubSeq(s, 1, n)[i]
    BY <1>2, <2>1, <2>2, <2>3
  <2> QED BY <2>2, <2>3, <2>4, SeqEqual
<1>4. SubSeq(s, 1, Len(s)) = s
  <2> HIDE DEF S
  <2>1. /\ SubSeq(s, 1, Len(s)) \in Seq(S) /\ Len(SubSeq(s, 1, Len(s))) = Len(s)
        /\ \A i \in 1 .. Len(s) : SubSeq(s, 1, Len(s))[i] = s[i]
    BY <1>1, <1>2, SubSeqProperties
  <2> QED BY <1>1, <2>1, SeqEqual
<1> QED BY <1>3, <1>4

\* u has a value for each element of s.
Maps(u, s) == u = [i \in DOMAIN s |-> u[i]]

\* The values of a sequence's elements, and the value of one element more.
LEMMA TotalOneMore ==
  ASSUME NEW s, IsSeq(s), NEW e,
         NEW u, Maps(u, s), NEW v, Maps(v, Append(s, e)),
         \A i \in 1 .. Len(s) : v[i] = u[i]
  PROVE  Total(v) = Total(u) + v[Len(s) + 1]
<1> DEFINE n == Len(s)
           x == v[n + 1]
           S == Range(u) \cup {x}
<1> USE DEF Maps
<1>1. n \in Nat /\ DOMAIN s = 1 .. n
  BY SeqDomain
<1>2. DOMAIN Append(s, e) = 1 .. n + 1
  <2>1. IsSeq(Append(s, e)) /\ Len(Append(s, e)) = n + 1
    BY AppendSeq
  <2> QED BY <2>1, SeqDomain
<1> HIDE DEF n
<1>3. u \in Seq(S) /\ Len(u) = n
  <2>1. DOMAIN u = 1 .. n
    BY <1>1
  <2>2. \A i \in 1 .. n : u[i] \in S
    BY <2>1 DEF Range
  <2> HIDE DEF S
  <2>3. u \in [1 .. n -> S]
    BY <1>1, <2>2
  <2> QED BY <1>1, <2>1, <2>3
<1>4. v \in Seq(S) /\ Len(v) = n + 1
  <2>1. DOMAIN u = 1 .. n /\ DOMAIN v = 1 .. n + 1
    BY <1>1, <1>2
  <2>2. \A i \in 1 .. n : v[i] \in S
    BY <2>1 DEF Range, n
  <2>3. \A i \in 1 .. n + 1 : i \in 1 .. n \/ i = n + 1
    BY <1>1
  <2>4. \A i \in 1 .. n + 1 : v[i] \in S
    BY <2>2, <2>3
  <2> HIDE DEF S
  <2>5. v \in [1 .. n + 1 -> S]
    BY <1>2, <2>4
  <2> QED BY <1>1, <2>1, <2>5
<1>5. IsSeq(u) /\ IsSeq(Append(u, x)) /\ Len(Append(u, x)) = n + 1
      /\ (\A i \in 1 .. n : Append(u, x)[i] = u[i]) /\ Append(u, x)[n + 1] = x
  <2> HIDE DEF S, x
  <2>1. IsSeq(u)
    BY <1>3, AnySeq
  <2>2. IsSeq(Append(u, x)) /\ Len(Append(u, x)) = n + 1
    BY ONLY <1>3, <2>1, AppendSeq
  <2>3. (\A i \in 1 .. n : Append(u, x)[i] = u[i]) /\ Append(u, x)[n + 1] = x
    BY ONLY <1>3, <2>1, AppendSeq
  <2> QED BY <2>1, <2>2, <2>3
<1>6. Append(u, x) \in Seq(S)
  <2>1. x \in S
    OBVIOUS
  <2> HIDE DEF S, x
  <2> QED BY <1>3, <2>1, AppendProperties
<1>7. \A i \in 1 .. n + 1 : v[i] = Append(u, x)[i]
  <2>1. \A i \in 1 .. n + 1 : i \in 1 .. n \/ i = n + 1
    BY <1>1
  <2>2. \A i \in 1 .. n : v[i] = Append(u, x)[i]
    BY <1>5 DEF n
  <2> QED BY <1>5, <2>1, <2>2
<1>8. v = Append(u, x)
  <2> HIDE DEF S, x
  <2> QED BY <1>4, <1>5, <1>6, <1>7, SeqEqual
<1>9. Total(v) = Total(u) + x
  <2> HIDE DEF x
  <2> QED BY <1>5, <1>8, TotalAppend
<1> QED BY <1>9 DEF n

\* A sum of zeros is zero.
LEMMA TotalOfZeros ==
  ASSUME NEW s, IsSeq(s), NEW u, Maps(u, s), \A i \in DOMAIN s : u[i] = 0
  PROVE  Total(u) = 0
<1> DEFINE n == Len(s)
<1>1. n \in Nat /\ DOMAIN s = 1 .. n
  BY SeqDomain
<1> HIDE DEF n
<1>2. u \in Seq({0}) /\ Len(u) = n
  <2>1. DOMAIN u = 1 .. n /\ u \in [1 .. n -> {0}]
    BY <1>1 DEF Maps
  <2> QED BY <1>1, <2>1
<1>3. PICK F : Sums(F, u, n) /\ Total(u) = F[1 .. n]
  <2>1. IsSeq(u)
    BY <1>2, AnySeq
  <2> QED BY <1>2, <2>1, TotalSums
<1> DEFINE S == {k \in Nat : k <= n => F[1 .. k] = 0}
<1>4. 0 \in S
  BY <1>1, <1>3, SumsStep
<1>5. ASSUME NEW k \in Nat, k \in S PROVE k + 1 \in S
  <2>1. CASE k + 1 <= n
    <3>1. k + 1 \in 1 .. n /\ (k + 1) - 1 = k
      BY <1>1, <2>1
    <3>2. F[1 .. k + 1] = F[1 .. k] + u[k + 1]
      BY <1>1, <1>3, <3>1, SumsStep
    <3>3. F[1 .. k] = 0 /\ u[k + 1] = 0
      BY <1>1, <1>5, <2>1, <3>1
    <3> QED BY <3>2, <3>3
  <2> QED BY <2>1
<1> HIDE DEF S
<1>6. Nat \subseteq S
  BY <1>4, <1>5, Induction
<1> QED BY <1>1, <1>3, <1>6 DEF S

\* What the remainder does when the next number is no multiple.
LEMMA NextRemainder ==
  ASSUME NEW n \in Nat, NEW m \in Nat \ {0}, (n + 1) % m # 0
  PROVE  (n + 1) % m = (n % m) + 1
<1> DEFINE q == n \div m
           r == n % m
           p == (n + 1) \div m
           s == (n + 1) % m
<1>1. q \in Int /\ r \in 0 .. m - 1 /\ n = m * q + r
  OBVIOUS
<1>2. p \in Int /\ s \in 0 .. m - 1 /\ n + 1 = m * p + s /\ s # 0
  OBVIOUS
<1> HIDE DEF q, r, p, s
<1>3. m * p - m * q = r + 1 - s /\ m * p - m * q < m /\ m * q - m * p < m
  <2>1. m * p \in Int /\ m * q \in Int
    BY <1>1, <1>2
  <2> QED BY <1>1, <1>2, <2>1
<1>4. m * p - m * q = m * (p - q)
  BY <1>1, <1>2
<1>5. p - q \in Int /\ m * (p - q) < m /\ 0 - m * (p - q) < m
  BY <1>1, <1>2, <1>3, <1>4
<1>6. p - q = 0
  <2> DEFINE d == p - q
  <2>1. d \in Int /\ m * d < m /\ 0 - m * d < m
    BY <1>5
  <2> HIDE DEF d
  <2>2. ~(d >= 1)
    <3>1. d >= 1 => m * d >= m
      BY <2>1
    <3> QED BY <2>1, <3>1
  <2>3. ~(d <= -1)
    <3>1. d <= -1 => 0 - m * d >= m
      BY <2>1
    <3> QED BY <2>1, <3>1
  <2> QED BY <2>1, <2>2, <2>3 DEF d
<1>7. s = r + 1
  BY <1>1, <1>2, <1>3, <1>4, <1>6
<1> QED BY <1>7 DEF r, s

-----------------------------------------------------------------------------
(* Sums over finite sets. *)

\* Induction over the parts of a finite set: D is in every set of them that
\* has the empty one and with each part the part that has one element more.
LEMMA PartInduction ==
  ASSUME NEW D, IsFiniteSet(D), NEW P, {} \in P,
         \A t \in SUBSET D : \A x \in D \ t : t \in P => t \cup {x} \in P
  PROVE  D \in P
<1> DEFINE S == {n \in Nat : \A t \in SUBSET D : Cardinality(t) = n => t \in P}
<1>1. \A t \in SUBSET D : IsFiniteSet(t)
  BY FS_Subset
<1>2. 0 \in S
  BY <1>1, FS_EmptySet
<1>3. ASSUME NEW n \in Nat, n \in S PROVE n + 1 \in S
  <2>1. ASSUME NEW t \in SUBSET D, Cardinality(t) = n + 1 PROVE t \in P
    <3>1. IsFiniteSet(t) /\ t # {}
      BY <1>1, <2>1, FS_EmptySet
    <3>2. PICK x \in t : TRUE
      BY <3>1
    <3>3. Cardinality(t \ {x}) = n
      <4>1. Cardinality(t \ {x}) = Cardinality(t) - 1
        BY <3>1, <3>2, FS_RemoveElement
      <4> QED BY <2>1, <4>1
    <3>4. t \ {x} \in P
      BY <1>3, <3>3
    <3>5. t = (t \ {x}) \cup {x} /\ x \in D \ (t \ {x})
      BY <3>2
    <3> QED BY <3>4, <3>5
  <2> QED BY <2>1
<1> HIDE DEF S
<1>4. Nat \subseteq S
  BY <1>2, <1>3, Induction
<1>5. Cardinality(D) \in Nat
  BY FS_CardinalityType
<1> QED BY <1>4, <1>5 DEF S

\* F sums the values of f over the parts of D, whichever is added last.
PartSums(F, f, D) ==
  /\ F \in [SUBSET D -> Int]
  /\ F[{}] = 0
  /\ \A t \in SUBSET D : \A x \in t : F[t] = F[t \ {x}] + f[x]

LEMMA PartSumsExist ==
  ASSUME NEW D, IsFiniteSet(D), NEW f \in [D -> Int]
  PROVE  \E F : PartSums(F, f, D)
<1> DEFINE P == {t \in SUBSET D : \E F : PartSums(F, f, t)}
<1>1. {} \in P
  <2> DEFINE F == [t \in SUBSET {} |-> 0]
  <2>1. PartSums(F, f, {})
    BY DEF PartSums
  <2> QED BY <2>1
<1>2. ASSUME NEW t \in SUBSET D, NEW d \in D \ t, t \in P PROVE t \cup {d} \in P
  <2>1. PICK F : PartSums(F, f, t)
    BY <1>2
  <2> DEFINE u == t \cup {d}
             G == [a \in SUBSET u |-> IF d \in a THEN F[a \ {d}] + f[d] ELSE F[a]]
  <2>2. \A a \in SUBSET u : a \ {d} \in SUBSET t /\ (d \notin a => a \in SUBSET t)
    OBVIOUS
  <2>3. G \in [SUBSET u -> Int]
    BY <2>1, <2>2 DEF PartSums
  <2>4. G[{}] = 0
    BY <2>1 DEF PartSums
  <2>5. ASSUME NEW a \in SUBSET u, NEW x \in a PROVE G[a] = G[a \ {x}] + f[x]
    <3>1. CASE x = d
      <4>1. a \ {x} \in SUBSET u /\ d \notin a \ {x} /\ a \ {d} = a \ {x}
        BY <3>1
      <4>2. G[a] = F[a \ {d}] + f[d] /\ G[a \ {x}] = F[a \ {x}]
        BY <3>1, <4>1
      <4> QED BY <3>1, <4>1, <4>2
    <3>2. CASE x # d /\ d \in a
      <4>1. a \ {x} \in SUBSET u /\ d \in a \ {x} /\ (a \ {x}) \ {d} = (a \ {d}) \ {x}
            /\ a \ {d} \in SUBSET t /\ x \in a \ {d} /\ (a \ {d}) \ {x} \in SUBSET t
        BY <3>2
      <4>2. G[a] = F[a \ {d}] + f[d] /\ G[a \ {x}] = F[(a \ {d}) \ {x}] + f[d]
        BY <3>2, <4>1
      <4>3. F[a \ {d}] = F[(a \ {d}) \ {x}] + f[x]
        BY <2>1, <4>1 DEF PartSums
      <4>4. f[d] \in Int /\ f[x] \in Int /\ F[(a \ {d}) \ {x}] \in Int
        BY <2>1, <4>1 DEF PartSums
      <4> HIDE DEF G
      <4> QED BY <4>2, <4>3, <4>4
    <3>3. CASE d \notin a
      <4>1. a \in SUBSET t /\ d \notin a \ {x} /\ a \ {x} \in SUBSET u
        BY <3>3
      <4>2. G[a] = F[a] /\ G[a \ {x}] = F[a \ {x}]
        BY <3>3, <4>1
      <4>3. F[a] = F[a \ {x}] + f[x]
        BY <2>1, <4>1 DEF PartSums
      <4> HIDE DEF G
      <4> QED BY <4>2, <4>3
    <3> QED BY <3>1, <3>2, <3>3
  <2>6. PartSums(G, f, u)
    <3> HIDE DEF G
    <3> QED BY <2>3, <2>4, <2>5 DEF PartSums
  <2> QED BY <2>6
<1> HIDE DEF P
<1>3. D \in P
  BY <1>1, <1>2, PartInduction
<1> QED BY <1>3 DEF P

\* SumFunction is such a sum.
LEMMA SumOfParts ==
  ASSUME NEW D, IsFiniteSet(D), NEW f \in [D -> Int], NEW F, PartSums(F, f, D)
  PROVE  SumFunction(f) = F[D]
<1> DEFINE e(t) == CHOOSE x \in t : TRUE
           Eq(G) == G = [t \in SUBSET D |-> IF t = {} THEN 0 ELSE f[e(t)] + G[t \ {e(t)}]]
           G == CHOOSE H : Eq(H)
<1>1. Eq(F)
  <2>1. F = [t \in SUBSET D |-> F[t]]
    BY DEF PartSums
  <2>2. ASSUME NEW t \in SUBSET D PROVE F[t] = IF t = {} THEN 0 ELSE f[e(t)] + F[t \ {e(t)}]
    <3>1. CASE t = {}
      BY <3>1 DEF PartSums
    <3>2. CASE t # {}
      <4>1. e(t) \in t
        BY <3>2
      <4> HIDE DEF e
      <4>2. f[e(t)] \in Int /\ F[t \ {e(t)}] \in Int /\ F[t] = F[t \ {e(t)}] + f[e(t)]
        BY <4>1 DEF PartSums
      <4> QED BY <3>2, <4>2
    <3> QED BY <3>1, <3>2
  <2> HIDE DEF e
  <2> QED BY <2>1, <2>2
<1>2. Eq(G)
  BY <1>1
<1>3. SumFunction(f) = G[D]
  BY DEF SumFunction, SumFunctionOnSet, FoldFunctionOnSet, MapThenFoldSet
<1> HIDE DEF G
<1> DEFINE S == {n \in Nat : \A t \in SUBSET D : Cardinality(t) = n => G[t] = F[t]}
<1>4. \A t \in SUBSET D : IsFiniteSet(t)
  BY FS_Subset
<1> HIDE DEF e
<1>5. /\ G[{}] = F[{}]
      /\ \A t \in SUBSET D : t # {} => G[t] = f[e(t)] + G[t \ {e(t)}] /\ F[t] = f[e(t)] + F[t \ {e(t)}]
  BY <1>1, <1>2
<1>6. \A t \in SUBSET D : t # {} => e(t) \in t
  BY DEF e
<1> HIDE DEF Eq
<1>7. 0 \in S
  BY <1>4, <1>5, FS_EmptySet
<1>8. ASSUME NEW n \in Nat, n \in S PROVE n + 1 \in S
  <2>1. ASSUME NEW t \in SUBSET D, Cardinality(t) = n + 1 PROVE G[t] = F[t]
    <3>1. IsFiniteSet(t) /\ t # {}
      BY <1>4, <2>1, FS_EmptySet
    <3>2. e(t) \in t
      BY <1>6, <3>1
    <3>3. Cardinality(t \ {e(t)}) = n
      <4>1. Cardinality(t \ {e(t)}) = Cardinality(t) - 1
        BY <3>1, <3>2, FS_RemoveElement
      <4> QED BY <2>1, <4>1
    <3>4. G[t \ {e(t)}] = F[t \ {e(t)}]
      BY <1>8, <3>3
    <3> QED BY <1>5, <3>1, <3>4
  <2> QED BY <2>1
<1> HIDE DEF S
<1>9. Nat \subseteq S
  BY <1>7, <1>8, Induction
<1>10. Cardinality(D) \in Nat
  BY FS_CardinalityType
<1>11. G[D] = F[D]
  BY <1>9, <1>10 DEF S
<1> QED BY <1>3, <1>11

\* A sum of integers is one, that of nothing is 0.
LEMMA SumType ==
  ASSUME NEW D, IsFiniteSet(D), NEW f \in [D -> Int]
  PROVE  SumFunction(f) \in Int /\ (D = {} => SumFunction(f) = 0)
<1>1. PICK F : PartSums(F, f, D)
  BY PartSumsExist
<1>2. SumFunction(f) = F[D]
  BY <1>1, SumOfParts
<1> QED BY <1>1, <1>2 DEF PartSums

\* The sum of f over the parts of its domain.
LEMMA SumOfPart ==
  ASSUME NEW D, IsFiniteSet(D), NEW f \in [D -> Int], NEW F, PartSums(F, f, D), NEW E \in SUBSET D
  PROVE  SumFunction([x \in E |-> f[x]]) = F[E]
<1> DEFINE g == [x \in E |-> f[x]]
           G == [t \in SUBSET E |-> F[t]]
<1>1. IsFiniteSet(E)
  BY FS_Subset
<1>2. g \in [E -> Int]
  OBVIOUS
<1>3. PartSums(G, g, E)
  <2>1. G \in [SUBSET E -> Int] /\ G[{}] = 0
    BY DEF PartSums
  <2>2. ASSUME NEW t \in SUBSET E, NEW x \in t PROVE G[t] = G[t \ {x}] + g[x]
    <3>1. F[t] = F[t \ {x}] + f[x] /\ t \ {x} \in SUBSET E
      BY DEF PartSums
    <3> QED BY <3>1
  <2> HIDE DEF G, g
  <2> QED BY <2>1, <2>2 DEF PartSums
<1>4. SumFunction(g) = G[E]
  <2> HIDE DEF G, g
  <2> QED BY <1>1, <1>2, <1>3, SumOfParts
<1> QED BY <1>4

\* Larger values have a larger sum.
LEMMA SumMonotone ==
  ASSUME NEW D, IsFiniteSet(D), NEW f \in [D -> Int], NEW g \in [D -> Int],
         \A x \in D : f[x] <= g[x]
  PROVE  SumFunction(f) <= SumFunction(g)
<1>1. PICK F : PartSums(F, f, D)
  BY PartSumsExist
<1>2. PICK G : PartSums(G, g, D)
  BY PartSumsExist
<1> DEFINE P == {t \in SUBSET D : F[t] <= G[t]}
<1>3. {} \in P
  BY <1>1, <1>2 DEF PartSums
<1>4. ASSUME NEW t \in SUBSET D, NEW x \in D \ t, t \in P PROVE t \cup {x} \in P
  <2> DEFINE u == t \cup {x}
  <2>1. u \in SUBSET D /\ x \in u /\ u \ {x} = t /\ F[t] <= G[t]
    BY <1>4
  <2>2. F[u] = F[t] + f[x]
    BY <1>1, <2>1 DEF PartSums
  <2>3. G[u] = G[t] + g[x]
    BY <1>2, <2>1 DEF PartSums
  <2>4. F[t] \in Int /\ G[t] \in Int /\ f[x] \in Int /\ g[x] \in Int
    BY <1>1, <1>2 DEF PartSums
  <2> QED BY <2>1, <2>2, <2>3, <2>4
<1> HIDE DEF P
<1>5. D \in P
  BY <1>3, <1>4, PartInduction
<1> QED BY <1>1, <1>2, <1>5, SumOfParts DEF P

\* The sum of sums.
LEMMA SumOfSums ==
  ASSUME NEW D, IsFiniteSet(D), NEW f \in [D -> Int], NEW g \in [D -> Int]
  PROVE  SumFunction([x \in D |-> f[x] + g[x]]) = SumFunction(f) + SumFunction(g)
<1>1. PICK F : PartSums(F, f, D)
  BY PartSumsExist
<1>2. PICK G : PartSums(G, g, D)
  BY PartSumsExist
<1> DEFINE h == [x \in D |-> f[x] + g[x]]
           H == [t \in SUBSET D |-> F[t] + G[t]]
<1>3. h \in [D -> Int]
  OBVIOUS
<1>4. PartSums(H, h, D)
  <2>1. H \in [SUBSET D -> Int] /\ H[{}] = 0
    BY <1>1, <1>2 DEF PartSums
  <2>2. ASSUME NEW t \in SUBSET D, NEW x \in t PROVE H[t] = H[t \ {x}] + h[x]
    <3>1. F[t] = F[t \ {x}] + f[x] /\ G[t] = G[t \ {x}] + g[x] /\ t \ {x} \in SUBSET D
      BY <1>1, <1>2 DEF PartSums
    <3>2. F[t \ {x}] \in Int /\ G[t \ {x}] \in Int /\ f[x] \in Int /\ g[x] \in Int
      BY <1>1, <1>2 DEF PartSums
    <3>3. H[t] = F[t] + G[t] /\ H[t \ {x}] = F[t \ {x}] + G[t \ {x}] /\ h[x] = f[x] + g[x]
      BY <3>1
    <3> HIDE DEF H, h
    <3> QED BY <3>1, <3>2, <3>3
  <2> HIDE DEF H, h
  <2> QED BY <2>1, <2>2 DEF PartSums, H
<1>5. H[D] = F[D] + G[D]
  OBVIOUS
<1>6. SumFunction(h) = H[D]
  <2> HIDE DEF h, H
  <2> QED BY <1>3, <1>4, SumOfParts
<1>7. SumFunction(f) = F[D] /\ SumFunction(g) = G[D]
  BY <1>1, <1>2, SumOfParts
<1> QED BY <1>5, <1>6, <1>7

\* The sum of multiples.
LEMMA SumOfMultiples ==
  ASSUME NEW D, IsFiniteSet(D), NEW f \in [D -> Int], NEW c \in Int
  PROVE  SumFunction([x \in D |-> c * f[x]]) = c * SumFunction(f)
<1>1. PICK F : PartSums(F, f, D)
  BY PartSumsExist
<1> DEFINE m == [x \in D |-> c * f[x]]
           H == [t \in SUBSET D |-> c * F[t]]
<1>2. m \in [D -> Int]
  OBVIOUS
<1>3. PartSums(H, m, D)
  <2>1. H \in [SUBSET D -> Int] /\ H[{}] = 0
    BY <1>1 DEF PartSums
  <2>2. ASSUME NEW t \in SUBSET D, NEW x \in t PROVE H[t] = H[t \ {x}] + m[x]
    <3>1. F[t] = F[t \ {x}] + f[x] /\ t \ {x} \in SUBSET D
      BY <1>1 DEF PartSums
    <3>2. F[t \ {x}] \in Int /\ f[x] \in Int
      BY <1>1 DEF PartSums
    <3>3. H[t] = c * F[t] /\ H[t \ {x}] = c * F[t \ {x}] /\ m[x] = c * f[x]
      BY <3>1
    <3> HIDE DEF H, m
    <3>4. c * (F[t \ {x}] + f[x]) = c * F[t \ {x}] + c * f[x]
      BY <3>2
    <3> QED BY <3>1, <3>3, <3>4
  <2> HIDE DEF H, m
  <2> QED BY <2>1, <2>2 DEF PartSums, H
<1>4. H[D] = c * F[D]
  OBVIOUS
<1>5. SumFunction(m) = H[D]
  <2> HIDE DEF m, H
  <2> QED BY <1>2, <1>3, SumOfParts
<1>6. SumFunction(f) = F[D]
  BY <1>1, SumOfParts
<1> QED BY <1>4, <1>5, <1>6

\* The sum of ones is their number.
LEMMA SumOfOnes ==
  ASSUME NEW D, IsFiniteSet(D)
  PROVE  SumFunction([x \in D |-> 1]) = Cardinality(D)
<1> DEFINE f == [x \in D |-> 1]
           F == [t \in SUBSET D |-> Cardinality(t)]
<1>1. f \in [D -> Int]
  OBVIOUS
<1>2. \A t \in SUBSET D : IsFiniteSet(t) /\ Cardinality(t) \in Nat
  BY FS_Subset, FS_CardinalityType
<1>3. PartSums(F, f, D)
  <2>1. F \in [SUBSET D -> Int] /\ F[{}] = 0
    BY <1>2, FS_EmptySet
  <2>2. ASSUME NEW t \in SUBSET D, NEW x \in t PROVE F[t] = F[t \ {x}] + f[x]
    <3>1. Cardinality(t \ {x}) = Cardinality(t) - 1 /\ t \ {x} \in SUBSET D
      BY <1>2, FS_RemoveElement
    <3> QED BY <1>2, <3>1
  <2> HIDE DEF F, f
  <2> QED BY <2>1, <2>2 DEF PartSums
<1>4. SumFunction(f) = F[D]
  <2> HIDE DEF F, f
  <2> QED BY <1>1, <1>3, SumOfParts
<1> QED BY <1>4

\* Values that are 0 add nothing.
LEMMA SumOfSome ==
  ASSUME NEW D, IsFiniteSet(D), NEW f \in [D -> Int],
         NEW E \in SUBSET D, \A x \in D \ E : f[x] = 0
  PROVE  SumFunction(f) = SumFunction([x \in E |-> f[x]])
<1>1. PICK F : PartSums(F, f, D)
  BY PartSumsExist
<1> DEFINE P == {t \in SUBSET D : F[t] = F[t \cap E]}
<1>2. {} \in P
  <2>1. {} \cap E = {}
    OBVIOUS
  <2> QED BY <2>1
<1>3. ASSUME NEW t \in SUBSET D, NEW x \in D \ t, t \in P PROVE t \cup {x} \in P
  <2> DEFINE u == t \cup {x}
  <2>1. u \in SUBSET D /\ x \in u /\ u \ {x} = t /\ F[t] = F[t \cap E]
    BY <1>3
  <2>2. F[u] = F[t] + f[x] /\ F[t] \in Int /\ f[x] \in Int
    BY <1>1, <2>1 DEF PartSums
  <2>3. CASE x \in E
    <3>1. u \cap E \in SUBSET D /\ x \in u \cap E /\ (u \cap E) \ {x} = t \cap E
      BY <2>3
    <3>2. F[u \cap E] = F[t \cap E] + f[x]
      BY <1>1, <3>1 DEF PartSums
    <3> QED BY <2>1, <2>2, <3>2
  <2>4. CASE x \notin E
    <3>1. u \cap E = t \cap E /\ f[x] = 0
      BY <2>4
    <3> QED BY <2>1, <2>2, <3>1
  <2> QED BY <2>3, <2>4
<1> HIDE DEF P
<1>4. D \in P
  BY <1>2, <1>3, PartInduction
<1>5. F[D] = F[E]
  <2>1. D \cap E = E
    OBVIOUS
  <2> QED BY <1>4, <2>1 DEF P
<1>6. SumFunction(f) = F[D] /\ SumFunction([x \in E |-> f[x]]) = F[E]
  BY <1>1, SumOfParts, SumOfPart
<1> QED BY <1>5, <1>6

\* The greatest and the least number of a finite set.
LEMMA Extremes ==
  ASSUME NEW S, IsFiniteSet(S), S \in SUBSET Int, S # {}
  PROVE  /\ Max(S) \in S /\ \A y \in S : y <= Max(S)
         /\ Min(S) \in S /\ \A y \in S : Min(S) <= y
<1> DEFINE P == {t \in SUBSET S : t # {} => /\ \E x \in t : \A y \in t : x >= y
                                          /\ \E x \in t : \A y \in t : x <= y}
<1>1. {} \in P
  OBVIOUS
<1>2. ASSUME NEW t \in SUBSET S, NEW z \in S \ t, t \in P PROVE t \cup {z} \in P
  <2>1. CASE t = {}
    <3>1. \A y \in t \cup {z} : y = z
      BY <2>1
    <3> QED BY <3>1
  <2>2. CASE t # {}
    <3>1. PICK a \in t : \A y \in t : a >= y
      BY <1>2, <2>2
    <3>2. PICK b \in t : \A y \in t : b <= y
      BY <1>2, <2>2
    <3>3. \E x \in t \cup {z} : \A y \in t \cup {z} : x >= y
      <4>1. CASE a >= z
        BY <3>1, <4>1
      <4>2. CASE ~(a >= z)
        <5>1. \A y \in t \cup {z} : z >= y
          BY <3>1, <4>2
        <5> QED BY <5>1
      <4> QED BY <4>1, <4>2
    <3>4. \E x \in t \cup {z} : \A y \in t \cup {z} : x <= y
      <4>1. CASE b <= z
        BY <3>2, <4>1
      <4>2. CASE ~(b <= z)
        <5>1. \A y \in t \cup {z} : z <= y
          BY <3>2, <4>2
        <5> QED BY <5>1
      <4> QED BY <4>1, <4>2
    <3> QED BY <3>3, <3>4
  <2> QED BY <2>1, <2>2
<1> HIDE DEF P
<1>3. S \in P
  BY <1>1, <1>2, PartInduction
<1>4. (\E x \in S : \A y \in S : x >= y) /\ (\E x \in S : \A y \in S : x <= y)
  BY <1>3 DEF P
<1>5. Max(S) \in S /\ \A y \in S : Max(S) >= y
  BY <1>4 DEF Max
<1>6. Min(S) \in S /\ \A y \in S : Min(S) <= y
  BY <1>4 DEF Min
<1> QED BY <1>5, <1>6

\* A quotient is between the bounds of what is divided.
LEMMA Quotient ==
  ASSUME NEW a \in Int, NEW b \in Int, b > 0,
         NEW low \in Int, NEW high \in Int, low * b <= a, a <= high * b
  PROVE  a \div b \in Int /\ low <= a \div b /\ a \div b <= high
<1> DEFINE q == a \div b
<1>1. q \in Int /\ q * b <= a /\ a < (q + 1) * b
  OBVIOUS
<1> HIDE DEF q
<1>2. low * b < (q + 1) * b /\ q * b <= high * b
  BY <1>1
<1>3. low < q + 1
  BY <1>1, <1>2
<1>4. q <= high
  BY <1>1, <1>2
<1> QED BY <1>1, <1>3, <1>4 DEF q

\* A weighted average is within the bounds of its values.
LEMMA WeightedAverage ==
  ASSUME NEW D, IsFiniteSet(D), D # {}, NEW v \in [D -> Int], NEW w \in [D -> Nat \ {0}],
         NEW low \in Int, NEW high \in Int, \A x \in D : low <= v[x] /\ v[x] <= high
  PROVE  LET average == SumFunction([x \in D |-> v[x] * w[x]]) \div SumFunction([x \in D |-> w[x]])
         IN  average \in Int /\ low <= average /\ average <= high
<1> DEFINE m == [x \in D |-> v[x] * w[x]]
           l == [x \in D |-> low * w[x]]
           h == [x \in D |-> high * w[x]]
           one == [x \in D |-> 1]
<1>1. /\ w \in [D -> Int] /\ w = [x \in D |-> w[x]] /\ one \in [D -> Int]
      /\ \A x \in D : w[x] \in Int /\ w[x] >= 1 /\ v[x] \in Int
  OBVIOUS
<1>2. l \in [D -> Int] /\ h \in [D -> Int] /\ m \in [D -> Int]
  BY <1>1
<1>3. \A x \in D : l[x] <= m[x] /\ m[x] <= h[x]
  <2>1. ASSUME NEW a \in Int, NEW b \in Int, NEW c \in Int, c >= 1, a <= b PROVE a * c <= b * c
    BY <2>1
  <2>2. ASSUME NEW x \in D PROVE low * w[x] <= v[x] * w[x] /\ v[x] * w[x] <= high * w[x]
    BY <1>1, <2>1
  <2> QED BY <2>2
<1>4. SumFunction(l) = low * SumFunction(w) /\ SumFunction(h) = high * SumFunction(w)
  BY <1>1, SumOfMultiples
<1>5. SumFunction(one) = Cardinality(D)
  BY SumOfOnes
<1>6. Cardinality(D) \in Nat /\ Cardinality(D) # 0
  BY FS_CardinalityType, FS_EmptySet
<1>7. \A x \in D : one[x] <= w[x]
  BY <1>1
<1> HIDE DEF one, l, h, m
<1>8. SumFunction(w) \in Int /\ SumFunction(m) \in Int /\ SumFunction(w) > 0
  <2>1. SumFunction(one) <= SumFunction(w)
    BY <1>1, <1>7, SumMonotone
  <2>2. SumFunction(w) \in Int /\ SumFunction(m) \in Int
    BY <1>1, <1>2, SumType
  <2> QED BY <1>5, <1>6, <2>1, <2>2
<1>9. SumFunction(l) <= SumFunction(m) /\ SumFunction(m) <= SumFunction(h)
  BY <1>2, <1>3, SumMonotone
<1>10. low * SumFunction(w) <= SumFunction(m) /\ SumFunction(m) <= high * SumFunction(w)
  BY <1>4, <1>9
<1>11. LET q == SumFunction(m) \div SumFunction(w) IN q \in Int /\ low <= q /\ q <= high
  BY <1>8, <1>10, Quotient
<1> QED BY <1>1, <1>11 DEF m

\* A sum of what is not negative is at least 0, and at least each of its terms.
LEMMA SumOfTerm ==
  ASSUME NEW D, IsFiniteSet(D), NEW f \in [D -> Int], \A x \in D : 0 <= f[x]
  PROVE  0 <= SumFunction(f) /\ \A x \in D : f[x] <= SumFunction(f)
<1>1. PICK F : PartSums(F, f, D)
  BY PartSumsExist
<1> DEFINE P == {t \in SUBSET D : 0 <= F[t] /\ \A x \in t : f[x] <= F[t]}
<1>2. {} \in P
  BY <1>1 DEF PartSums
<1>3. ASSUME NEW t \in SUBSET D, NEW x \in D \ t, t \in P PROVE t \cup {x} \in P
  <2> DEFINE u == t \cup {x}
  <2>1. u \in SUBSET D /\ x \in u /\ u \ {x} = t /\ 0 <= F[t] /\ \A y \in t : f[y] <= F[t]
    BY <1>3
  <2>2. F[u] = F[t] + f[x] /\ F[t] \in Int /\ f[x] \in Int /\ \A y \in D : f[y] \in Int
    BY <1>1, <2>1 DEF PartSums
  <2>3. 0 <= F[u] /\ f[x] <= F[u] /\ F[t] <= F[u] /\ F[u] \in Int
    BY <2>1, <2>2
  <2>4. \A y \in t : f[y] <= F[u]
    BY <2>1, <2>2, <2>3
  <2> QED BY <2>1, <2>3, <2>4
<1> HIDE DEF P
<1>4. D \in P
  BY <1>2, <1>3, PartInduction
<1>5. SumFunction(f) = F[D]
  BY <1>1, SumOfParts
<1> QED BY <1>4, <1>5 DEF P

\* A sum of steps, each of which g covers, is covered by g.
LEMMA SumOfSteps ==
  ASSUME NEW n \in Nat, NEW f \in [1 .. n -> Int], NEW g \in [0 .. n -> Int],
         \A m \in 1 .. n : g[m - 1] + f[m] <= g[m]
  PROVE  g[0] + SumFunction(f) <= g[n]
<1>1. IsFiniteSet(1 .. n)
  BY FS_Interval
<1>2. PICK F : PartSums(F, f, 1 .. n)
  BY <1>1, PartSumsExist
<1> DEFINE S == {m \in Nat : m <= n => g[0] + F[1 .. m] <= g[m]}
<1>3. 0 \in S
  <2>1. 1 .. 0 = {} /\ g[0] \in Int
    OBVIOUS
  <2>2. F[1 .. 0] = 0
    BY <1>2, <2>1 DEF PartSums
  <2> QED BY <2>1, <2>2
<1>4. ASSUME NEW m \in Nat, m \in S PROVE m + 1 \in S
  <2>1. CASE m + 1 <= n
    <3>1. /\ 1 .. m + 1 \in SUBSET (1 .. n) /\ m + 1 \in 1 .. m + 1
          /\ (1 .. m + 1) \ {m + 1} = 1 .. m /\ 1 .. m \in SUBSET (1 .. n) /\ m <= n
      <4>1. m <= n /\ m + 1 \in Nat
        BY <2>1
      <4>2. 1 .. m + 1 \in SUBSET (1 .. n) /\ 1 .. m \in SUBSET (1 .. n)
        BY <2>1
      <4>3. (1 .. m + 1) \ {m + 1} = 1 .. m /\ m + 1 \in 1 .. m + 1
        OBVIOUS
      <4> QED BY <4>1, <4>2, <4>3
    <3>2. F[1 .. m + 1] = F[1 .. m] + f[m + 1] /\ F[1 .. m] \in Int
      <4>1. F[1 .. m + 1] = F[(1 .. m + 1) \ {m + 1}] + f[m + 1]
        BY <1>2, <3>1 DEF PartSums
      <4>2. F[1 .. m] \in Int
        BY <1>2, <3>1 DEF PartSums
      <4> QED BY <3>1, <4>1, <4>2
    <3>3. m + 1 \in 1 .. n /\ (m + 1) - 1 = m /\ m \in 0 .. n /\ m + 1 \in 0 .. n /\ 0 \in 0 .. n
      BY <2>1
    <3>4. g[m] + f[m + 1] <= g[m + 1]
      BY <3>3
    <3>5. g[m] \in Int /\ g[m + 1] \in Int /\ f[m + 1] \in Int /\ g[0] \in Int
      BY <3>3
    <3>6. g[0] + F[1 .. m] <= g[m]
      BY <1>4, <3>1
    <3>7. g[0] + F[1 .. m + 1] <= g[m + 1]
      <4>1. ASSUME NEW a \in Int, NEW b \in Int, NEW c \in Int, NEW d \in Int, NEW e \in Int,
                   a + b <= c, c + d <= e
            PROVE  a + (b + d) <= e
        BY <4>1
      <4> QED BY <3>2, <3>4, <3>5, <3>6, <4>1
    <3> QED BY <3>7
  <2> QED BY <2>1
<1> HIDE DEF S
<1>5. Nat \subseteq S
  BY <1>3, <1>4, Induction
<1>6. g[0] + F[1 .. n] <= g[n]
  BY <1>5 DEF S
<1> QED BY <1>1, <1>2, <1>6, SumOfParts

\* A function of the first numbers is a sequence, also with one value replaced.
LEMMA FunctionSeq ==
  ASSUME NEW n \in Nat, NEW s, s = [i \in 1 .. n |-> s[i]]
  PROVE  IsSeq(s) /\ Len(s) = n
<1>1. DOMAIN s = 1 .. n
  OBVIOUS
<1>2. s \in [1 .. n -> Range(s)]
  BY <1>1 DEF Range
<1>3. s \in Seq(Range(s))
  BY <1>2
<1>4. Len(s) = n
  BY <1>1, <1>3
<1> QED BY <1>3, <1>4 DEF IsSeq

LEMMA ReplaceSeq ==
  ASSUME NEW s, IsSeq(s), NEW k, NEW e
  PROVE  LET t == [s EXCEPT ![k] = e]
         IN  IsSeq(t) /\ Len(t) = Len(s) /\ \A i \in DOMAIN s : t[i] = IF i = k THEN e ELSE s[i]
<1> DEFINE t == [s EXCEPT ![k] = e]
<1>1. Len(s) \in Nat /\ DOMAIN s = 1 .. Len(s)
  BY SeqDomain
<1>2. /\ t = [i \in 1 .. Len(s) |-> IF i = k THEN e ELSE s[i]]
      /\ \A i \in DOMAIN s : t[i] = IF i = k THEN e ELSE s[i]
  BY <1>1
<1>3. t = [i \in 1 .. Len(s) |-> t[i]]
  BY <1>1
<1> HIDE DEF t
<1>4. IsSeq(t) /\ Len(t) = Len(s)
  BY <1>1, <1>3, FunctionSeq
<1> QED BY <1>2, <1>4 DEF t
-----------------------------------------------------------------------------
(* Lists put in another order. *)

\* p puts the elements of P in the order of the first numbers.
Order(p, P) ==
  /\ p \in [1 .. Cardinality(P) -> P]
  /\ \A m, n \in 1 .. Cardinality(P) : p[m] = p[n] => m = n
  /\ \A x \in P : \E n \in 1 .. Cardinality(P) : p[n] = x

\* Different ranks from 1 to their number are all of these.
LEMMA RanksAreAll ==
  ASSUME NEW P, IsFiniteSet(P), NEW r \in [P -> 1 .. Cardinality(P)],
         \A x, y \in P : r[x] = r[y] => x = y
  PROVE  \A n \in 1 .. Cardinality(P) : \E x \in P : r[x] = n
<1> DEFINE N == 1 .. Cardinality(P)
<1>1. Cardinality(P) \in Nat
  BY FS_CardinalityType
<1>2. IsFiniteSet(N) /\ Cardinality(N) = Cardinality(P)
  BY <1>1, FS_Interval
<1>3. r \in Injection(P, N)
  BY DEF Injection, IsInjective
<1> HIDE DEF N
<1>4. r \in Surjection(P, N)
  BY <1>2, <1>3, FS_Injection
<1> QED BY <1>4 DEF Surjection, N

\* The element of each rank, where the ranks are different.
LEMMA RanksGiveOrder ==
  ASSUME NEW P, IsFiniteSet(P), NEW r \in [P -> 1 .. Cardinality(P)],
         \A x, y \in P : r[x] = r[y] => x = y
  PROVE  LET p == [n \in 1 .. Cardinality(P) |-> CHOOSE x \in P : r[x] = n]
         IN  Order(p, P) /\ \A n \in 1 .. Cardinality(P) : r[p[n]] = n
<1> DEFINE p == [n \in 1 .. Cardinality(P) |-> CHOOSE x \in P : r[x] = n]
<1>1. \A n \in 1 .. Cardinality(P) : \E x \in P : r[x] = n
  BY RanksAreAll
<1>2. \A n \in 1 .. Cardinality(P) : p[n] \in P /\ r[p[n]] = n
  BY <1>1
<1>3. p \in [1 .. Cardinality(P) -> P]
  BY <1>2
<1> HIDE DEF p
<1>4. \A m, n \in 1 .. Cardinality(P) : p[m] = p[n] => m = n
  BY <1>2
<1>5. ASSUME NEW x \in P PROVE \E n \in 1 .. Cardinality(P) : p[n] = x
  <2>1. r[x] \in 1 .. Cardinality(P)
    OBVIOUS
  <2>2. p[r[x]] \in P /\ r[p[r[x]]] = r[x]
    BY <1>2, <2>1
  <2>3. p[r[x]] = x
    BY <2>2
  <2> QED BY <2>1, <2>3
<1>6. Order(p, P)
  BY <1>3, <1>4, <1>5 DEF Order
<1> QED BY <1>2, <1>6 DEF p

\* The places of At, in their order.
Places(P) == [n \in 1 .. Cardinality(P) |-> Nth(P, n)]

LEMMA NthOrder ==
  ASSUME NEW P, IsFiniteSet(P), P \subseteq Int
  PROVE  Order(Places(P), P)
<1> DEFINE upTo(i) == {j \in P : j <= i}
           r == [i \in P |-> Cardinality(upTo(i))]
<1>1. ASSUME NEW i \in P PROVE IsFiniteSet(upTo(i)) /\ r[i] \in 1 .. Cardinality(P)
  <2>1. upTo(i) \in SUBSET P /\ i \in upTo(i)
    OBVIOUS
  <2> HIDE DEF upTo
  <2>2. /\ IsFiniteSet(upTo(i)) /\ Cardinality(upTo(i)) <= Cardinality(P)
        /\ Cardinality(upTo(i)) \in Nat /\ Cardinality(P) \in Nat
    BY <2>1, FS_Subset, FS_CardinalityType
  <2>3. Cardinality(upTo(i)) # 0
    BY <2>1, <2>2, FS_EmptySet
  <2> QED BY <2>2, <2>3
<1>2. ASSUME NEW i \in P, NEW k \in P, i < k PROVE r[i] < r[k]
  <2>1. upTo(i) \in SUBSET upTo(k) /\ k \in upTo(k) /\ k \notin upTo(i)
    <3>1. i \in Int /\ k \in Int /\ \A j \in P : j \in Int
      OBVIOUS
    <3>2. \A j \in upTo(i) : j \in upTo(k)
      BY <1>2, <3>1
    <3>3. k \in upTo(k) /\ k \notin upTo(i)
      BY <1>2, <3>1
    <3> QED BY <3>2, <3>3
  <2>2. IsFiniteSet(upTo(k)) /\ IsFiniteSet(upTo(i))
    BY <1>1
  <2> HIDE DEF upTo
  <2>3. /\ Cardinality(upTo(i)) <= Cardinality(upTo(k)) /\ Cardinality(upTo(i)) # Cardinality(upTo(k))
        /\ Cardinality(upTo(i)) \in Nat /\ Cardinality(upTo(k)) \in Nat
    BY <2>1, <2>2, FS_Subset, FS_CardinalityType
  <2> QED BY <2>3
<1>3. r \in [P -> 1 .. Cardinality(P)]
  <2> HIDE DEF r
  <2>1. r = [i \in P |-> r[i]]
    BY DEF r
  <2> QED BY <1>1, <2>1
<1>4. \A i, k \in P : r[i] = r[k] => i = k
  <2> HIDE DEF r
  <2>1. \A i \in P : r[i] \in Int /\ i \in Int
    BY <1>3
  <2> QED BY <1>2, <2>1
<1>5. Order([n \in 1 .. Cardinality(P) |-> CHOOSE x \in P : r[x] = n], P)
  <2> HIDE DEF r
  <2> QED BY <1>3, <1>4, RanksGiveOrder
<1>6. ASSUME NEW n \in 1 .. Cardinality(P) PROVE Nth(P, n) = CHOOSE x \in P : r[x] = n
  BY DEF Nth
<1>7. [n \in 1 .. Cardinality(P) |-> Nth(P, n)] = [n \in 1 .. Cardinality(P) |-> CHOOSE x \in P : r[x] = n]
  <2> HIDE DEF r
  <2> QED BY <1>6
<1> HIDE DEF r
<1> QED BY <1>5, <1>7 DEF Places

\* A list that has n elements, each of them the given one.
LEMMA ListOf ==
  ASSUME NEW n \in Nat, NEW s, s = [i \in 1 .. n |-> s[i]]
  PROVE  IsSeq(s) /\ Len(s) = n /\ Evaluated(s) = s
<1>1. IsSeq(s) /\ Len(s) = n
  BY FunctionSeq
<1>2. IsSeq(<<>>)
  BY ShortSeq
<1> QED BY <1>1, <1>2, ConcatSeq DEF Evaluated

\* At has the elements at its places, in some order.
LEMMA AtPlaces ==
  ASSUME NEW s, NEW P, IsFiniteSet(P), P \subseteq Int
  PROVE  /\ IsSeq(At(s, P)) /\ Len(At(s, P)) = Cardinality(P) /\ Cardinality(P) \in Nat
         /\ Order(Places(P), P)
         /\ \A n \in 1 .. Cardinality(P) : At(s, P)[n] = s[Places(P)[n]]
<1> DEFINE N == Cardinality(P)
           u == [n \in 1 .. N |-> s[Nth(P, n)]]
<1>1. N \in Nat
  BY FS_CardinalityType
<1>2. Order(Places(P), P)
  BY NthOrder
<1>3. u = [n \in 1 .. N |-> u[n]] /\ \A n \in 1 .. N : u[n] = s[Places(P)[n]]
  BY DEF Places
<1>4. At(s, P) = Evaluated(u)
  BY DEF At
<1> HIDE DEF u, N
<1>5. IsSeq(u) /\ Len(u) = N /\ Evaluated(u) = u
  BY <1>1, <1>3, ListOf
<1> QED BY <1>1, <1>2, <1>3, <1>4, <1>5 DEF N

\* The places of Descending are different.
LEMMA DescendingOrder ==
  ASSUME NEW s, IsSeq(s), NEW rank \in [DOMAIN s -> Int]
  PROVE  LET t == Descending(s, rank)
         IN  /\ IsSeq(t) /\ Len(t) = Len(s) /\ Cardinality(DOMAIN s) = Len(s) /\ IsFiniteSet(DOMAIN s)
             /\ \E p : Order(p, DOMAIN s) /\ \A n \in 1 .. Len(s) : t[n] = s[p[n]]
<1> DEFINE P == DOMAIN s
           N == Len(s)
           before(i) == {j \in P : rank[j] > rank[i] \/ (rank[j] = rank[i] /\ j <= i)}
           r == [i \in P |-> Cardinality(before(i))]
           p == [n \in 1 .. N |-> CHOOSE x \in P : r[x] = n]
           u == [n \in P |-> s[CHOOSE i \in P : Place(rank, i) = n]]
<1>1. N \in Nat /\ P = 1 .. N
  BY SeqDomain
<1>2. IsFiniteSet(P) /\ Cardinality(P) = N /\ P \subseteq Int
  <2> HIDE DEF P, N
  <2>1. IsFiniteSet(1 .. N) /\ Cardinality(1 .. N) = N
    BY <1>1, FS_Interval
  <2> QED BY <1>1, <2>1
<1>3. ASSUME NEW i \in P PROVE IsFiniteSet(before(i)) /\ r[i] \in 1 .. Cardinality(P)
  <2>1. rank[i] \in Int /\ i \in Int
    BY <1>2
  <2>2. before(i) \in SUBSET P /\ i \in before(i)
    BY <2>1
  <2> HIDE DEF before
  <2>3. /\ IsFiniteSet(before(i)) /\ Cardinality(before(i)) <= Cardinality(P)
        /\ Cardinality(before(i)) \in Nat /\ Cardinality(P) \in Nat
    BY <1>2, <2>2, FS_Subset, FS_CardinalityType
  <2>4. Cardinality(before(i)) # 0
    BY <2>2, <2>3, FS_EmptySet
  <2> QED BY <2>3, <2>4
<1>4. ASSUME NEW i \in P, NEW k \in P, rank[i] > rank[k] \/ (rank[i] = rank[k] /\ i < k) PROVE r[i] < r[k]
  <2>1. /\ rank[i] \in Int /\ rank[k] \in Int /\ i \in Int /\ k \in Int
        /\ \A j \in P : rank[j] \in Int /\ j \in Int
    BY <1>2
  <2>2. \A j \in before(i) : j \in before(k)
    BY <1>4, <2>1
  <2>3. before(i) \in SUBSET before(k) /\ k \in before(k) /\ k \notin before(i)
    BY <1>4, <2>1, <2>2
  <2>4. IsFiniteSet(before(k)) /\ IsFiniteSet(before(i))
    BY <1>3
  <2> HIDE DEF before
  <2>5. /\ Cardinality(before(i)) <= Cardinality(before(k)) /\ Cardinality(before(i)) # Cardinality(before(k))
        /\ Cardinality(before(i)) \in Nat /\ Cardinality(before(k)) \in Nat
    BY <2>3, <2>4, FS_Subset, FS_CardinalityType
  <2> QED BY <2>5
<1>5. r \in [P -> 1 .. Cardinality(P)]
  <2>1. r = [i \in P |-> r[i]]
    OBVIOUS
  <2> HIDE DEF r, P
  <2> QED BY <1>3, <2>1
<1>6. \A i, k \in P : r[i] = r[k] => i = k
  <2> HIDE DEF r
  <2>1. \A i \in P : r[i] \in Int /\ i \in Int /\ rank[i] \in Int
    BY <1>1, <1>2, <1>5
  <2> HIDE DEF P
  <2> QED BY <1>4, <2>1
<1>7. Order(p, P)
  <2> HIDE DEF r, P
  <2> QED BY <1>2, <1>5, <1>6, RanksGiveOrder
<1>8. ASSUME NEW i \in P PROVE Place(rank, i) = r[i]
  BY DEF Place
<1>9. \A n \in P : (CHOOSE i \in P : Place(rank, i) = n) = p[n]
  <2> HIDE DEF r, P
  <2> QED BY <1>1, <1>8
<1>10. u = [n \in 1 .. N |-> u[n]] /\ \A n \in 1 .. N : u[n] = s[p[n]]
  <2> DEFINE q(n) == CHOOSE i \in P : Place(rank, i) = n
  <2>1. u = [n \in P |-> s[q(n)]] /\ \A n \in P : q(n) = p[n]
    BY <1>9
  <2> HIDE DEF q, p, u, P, N
  <2> QED BY <1>1, <2>1
<1>11. Descending(s, rank) = Evaluated(u)
  BY DEF Descending
<1> HIDE DEF u, p, r, before
<1>12. IsSeq(u) /\ Len(u) = N /\ Evaluated(u) = u
  BY <1>1, <1>10, ListOf
<1>13. \E q : Order(q, DOMAIN s) /\ \A n \in 1 .. Len(s) : u[n] = s[q[n]]
  BY <1>7, <1>10
<1> QED BY <1>2, <1>11, <1>12, <1>13

\* The values of a function on a finite set are finitely many.
LEMMA RangeFinite ==
  ASSUME NEW D, IsFiniteSet(D), NEW S, NEW f \in [D -> S]
  PROVE  IsFiniteSet(Range(f)) /\ Range(f) \subseteq S /\ (D # {} => Range(f) # {})
<1>1. f \in Surjection(D, Range(f))
  BY DEF Surjection, Range
<1> QED BY <1>1, FS_Surjection DEF Range

\* The n-th value is there.
LEMMA NthLeastType ==
  ASSUME NEW D, IsFiniteSet(D), NEW f \in [D -> Int], NEW n \in 1 .. Cardinality(D)
  PROVE  NthLeast(f, n) \in Int
<1> DEFINE below(v) == {i \in D : f[i] < v}
           upTo(v) == {i \in D : f[i] <= v}
           Enough == {v \in Range(f) : n <= Cardinality(upTo(v))}
           least == Min(Enough)
<1>1. Cardinality(D) \in Nat /\ D # {}
  BY FS_CardinalityType, FS_EmptySet
<1>2. IsFiniteSet(Range(f)) /\ Range(f) \in SUBSET Int /\ Range(f) # {}
  BY <1>1, RangeFinite
<1>3. Max(Range(f)) \in Range(f) /\ \A y \in Range(f) : y <= Max(Range(f))
  BY <1>2, Extremes
<1>4. upTo(Max(Range(f))) = D
  BY <1>3 DEF Range
<1>5. Max(Range(f)) \in Enough
  BY <1>3, <1>4
<1>6. Enough \in SUBSET Range(f)
  OBVIOUS
<1>7. IsFiniteSet(Enough) /\ Enough \in SUBSET Int /\ Enough # {}
  BY <1>2, <1>5, <1>6, FS_Subset
<1>8. least \in Enough /\ \A y \in Enough : least <= y
  <2> HIDE DEF Enough
  <2> QED BY <1>7, Extremes
<1> HIDE DEF least
<1>9. Cardinality(below(least)) < n
  <2> SUFFICES ASSUME ~(Cardinality(below(least)) < n) PROVE FALSE
    OBVIOUS
  <2> DEFINE low == {v \in Range(f) : v < least}
  <2>1. below(least) \in SUBSET D
    OBVIOUS
  <2>2. IsFiniteSet(below(least)) /\ Cardinality(below(least)) \in Nat
    BY <2>1, FS_Subset, FS_CardinalityType
  <2>3. below(least) # {}
    BY <2>2, FS_EmptySet
  <2>4. low \in SUBSET Range(f) /\ low # {}
    BY <2>3 DEF Range
  <2>5. IsFiniteSet(low) /\ low \in SUBSET Int
    BY <1>2, <2>4, FS_Subset
  <2>6. Max(low) \in low /\ \A y \in low : y <= Max(low)
    <3> HIDE DEF low
    <3> QED BY <2>4, <2>5, Extremes
  <2>7. \A i \in D : f[i] < least => f[i] \in low
    BY DEF Range
  <2>8. Max(low) < least /\ Max(low) \in Int /\ least \in Int
    BY <1>7, <1>8, <2>5, <2>6
  <2>9. \A i \in D : f[i] < least <=> f[i] <= Max(low)
    <3>1. ASSUME NEW i \in D, f[i] < least PROVE f[i] <= Max(low)
      BY <2>6, <2>7, <3>1
    <3>2. ASSUME NEW i \in D, f[i] <= Max(low) PROVE f[i] < least
      <4>1. f[i] \in Int
        OBVIOUS
      <4> HIDE DEF low
      <4> QED BY <2>8, <3>2, <4>1
    <3> QED BY <3>1, <3>2
  <2>10. upTo(Max(low)) = below(least)
    BY <2>9
  <2>11. Max(low) \in Enough
    <3>1. n <= Cardinality(below(least))
      BY <2>2
    <3> QED BY <2>6, <2>10, <3>1
  <2> HIDE DEF Enough
  <2>12. least <= Max(low)
    BY <1>8, <2>11
  <2> QED BY <2>12, <2>8
<1>10. least \in Range(f) /\ n <= Cardinality(upTo(least))
  BY <1>8
<1>11. NthLeast(f, n) \in Range(f)
  <2>1. DOMAIN f = D
    OBVIOUS
  <2>2. \E v \in Range(f) : /\ Cardinality({i \in DOMAIN f : f[i] < v}) < n
                            /\ n <= Cardinality({i \in DOMAIN f : f[i] <= v})
    BY <1>9, <1>10, <2>1
  <2> QED BY <2>2 DEF NthLeast
<1> QED BY <1>2, <1>11

-----------------------------------------------------------------------------
(* Sums in another order, sums of classes, and sums of parts of a whole. *)

\* A sum is the same in every order.
LEMMA SumInOrder ==
  ASSUME NEW P, IsFiniteSet(P), NEW p, Order(p, P), NEW g \in [P -> Int]
  PROVE  /\ [n \in 1 .. Cardinality(P) |-> g[p[n]]] \in [1 .. Cardinality(P) -> Int]
         /\ SumFunction([n \in 1 .. Cardinality(P) |-> g[p[n]]]) = SumFunction(g)
<1> DEFINE N == 1 .. Cardinality(P)
           f == [n \in N |-> g[p[n]]]
           image(t) == {p[n] : n \in t}
<1>1. /\ p \in [N -> P] /\ \A m, n \in N : p[m] = p[n] => m = n
      /\ \A x \in P : \E n \in N : p[n] = x
  BY DEF Order
<1>2. IsFiniteSet(N)
  BY FS_CardinalityType, FS_Interval
<1> HIDE DEF N
<1>3. PICK G : PartSums(G, g, P)
  BY PartSumsExist
<1> DEFINE F == [t \in SUBSET N |-> G[image(t)]]
<1>4. f \in [N -> Int]
  BY <1>1
<1>5. \A t \in SUBSET N : image(t) \in SUBSET P
  BY <1>1
<1>6. PartSums(F, f, N)
  <2>1. F \in [SUBSET N -> Int]
    BY <1>3, <1>5 DEF PartSums
  <2>2. F[{}] = 0
    <3>1. image({}) = {}
      OBVIOUS
    <3> QED BY <1>3, <3>1 DEF PartSums
  <2>3. ASSUME NEW t \in SUBSET N, NEW n \in t PROVE F[t] = F[t \ {n}] + f[n]
    <3>1. image(t \ {n}) = image(t) \ {p[n]} /\ p[n] \in image(t)
      BY <1>1
    <3>2. image(t) \in SUBSET P /\ t \ {n} \in SUBSET N
      BY <1>5
    <3>3. F[t] = G[image(t)] /\ F[t \ {n}] = G[image(t \ {n})] /\ f[n] = g[p[n]]
      BY <3>2
    <3> HIDE DEF image, f, F
    <3>4. G[image(t)] = G[image(t) \ {p[n]}] + g[p[n]]
      BY <1>3, <3>1, <3>2 DEF PartSums
    <3> QED BY <3>1, <3>3, <3>4
  <2> HIDE DEF F, f
  <2> QED BY <2>1, <2>2, <2>3 DEF PartSums
<1>7. image(N) = P
  BY <1>1
<1>8. SumFunction(f) = F[N] /\ SumFunction(g) = G[P]
  <2> HIDE DEF F, f
  <2> QED BY <1>2, <1>3, <1>4, <1>6, SumOfParts
<1>9. F[N] = G[image(N)]
  OBVIOUS
<1> HIDE DEF F, image
<1>10. SumFunction(f) = SumFunction(g)
  BY <1>7, <1>8, <1>9
<1> QED BY <1>4, <1>10 DEF f, N

\* The sum of one number.
LEMMA SumOfOne ==
  ASSUME NEW x, NEW f \in [{x} -> Int]
  PROVE  SumFunction(f) = f[x]
<1> DEFINE F == [t \in SUBSET {x} |-> IF t = {} THEN 0 ELSE f[x]]
<1>1. IsFiniteSet({x})
  BY FS_Singleton
<1>2. PartSums(F, f, {x})
  <2>1. F \in [SUBSET {x} -> Int] /\ F[{}] = 0
    OBVIOUS
  <2>2. ASSUME NEW t \in SUBSET {x}, NEW y \in t PROVE F[t] = F[t \ {y}] + f[y]
    <3>1. y = x /\ t = {x} /\ t \ {y} = {}
      OBVIOUS
    <3>2. F[t] = f[x] /\ F[t \ {y}] = 0 /\ f[x] \in Int
      BY <3>1
    <3> QED BY <3>1, <3>2
  <2> QED BY <2>1, <2>2 DEF PartSums
<1>3. F[{x}] = f[x]
  OBVIOUS
<1> QED BY <1>1, <1>2, <1>3, SumOfParts

\* A sum over classes is the sum of the sums of the classes.
ClassSums(f, k, D, C) == [c \in C |-> SumFunction([x \in {y \in D : k[y] = c} |-> f[x]])]

LEMMA SumOfClasses ==
  ASSUME NEW D, IsFiniteSet(D), NEW f \in [D -> Int],
         NEW C, IsFiniteSet(C), NEW k \in [D -> C]
  PROVE  ClassSums(f, k, D, C) \in [C -> Int] /\ SumFunction(ClassSums(f, k, D, C)) = SumFunction(f)
<1>1. PICK F : PartSums(F, f, D)
  BY PartSumsExist
<1> DEFINE cls(t, c) == {y \in t : k[y] = c}
           h(t) == [c \in C |-> F[cls(t, c)]]
           P == {t \in SUBSET D : F[t] = SumFunction(h(t))}
<1>2. F \in [SUBSET D -> Int] /\ F[{}] = 0
  BY <1>1 DEF PartSums
<1>3. \A t \in SUBSET D : h(t) \in [C -> Int]
  BY <1>2
<1>4. {} \in P
  <2>1. h({}) = [c \in C |-> 0 * 0]
    <3>1. \A c \in C : cls({}, c) = {}
      OBVIOUS
    <3> QED BY <1>2, <3>1
  <2>2. [c \in C |-> 0 * [d \in C |-> 0][c]] = [c \in C |-> 0 * 0]
    OBVIOUS
  <2> DEFINE z == [d \in C |-> 0]
  <2>3. z \in [C -> Int]
    OBVIOUS
  <2>4. SumFunction([c \in C |-> 0 * z[c]]) = 0 * SumFunction(z) /\ SumFunction(z) \in Int
    <3> HIDE DEF z
    <3> QED BY <2>3, SumOfMultiples, SumType
  <2>5. SumFunction(h({})) = 0
    <3>1. SumFunction(h({})) = 0 * SumFunction(z)
      BY <2>1, <2>2, <2>4
    <3> HIDE DEF z, h
    <3> QED BY <2>4, <3>1
  <2> QED BY <1>2, <2>5
<1>5. ASSUME NEW t \in SUBSET D, NEW x \in D \ t, t \in P PROVE t \cup {x} \in P
  <2> DEFINE u == t \cup {x}
             delta == [c \in C |-> IF c = k[x] THEN f[x] ELSE 0]
  <2>1. u \in SUBSET D /\ x \in u /\ u \ {x} = t /\ k[x] \in C /\ f[x] \in Int
    OBVIOUS
  <2>2. F[u] = F[t] + f[x]
    BY <1>1, <2>1 DEF PartSums
  <2>3. ASSUME NEW c \in C PROVE h(u)[c] = h(t)[c] + delta[c]
    <3>1. CASE c = k[x]
      <4>1. cls(u, c) \in SUBSET D /\ x \in cls(u, c) /\ cls(u, c) \ {x} = cls(t, c)
        BY <3>1
      <4>2. F[cls(u, c)] = F[cls(t, c)] + f[x]
        <5> HIDE DEF cls
        <5> QED BY <1>1, <4>1 DEF PartSums
      <4> QED BY <3>1, <4>2
    <3>2. CASE c # k[x]
      <4>1. cls(u, c) = cls(t, c) /\ cls(t, c) \in SUBSET D
        BY <3>2
      <4>2. F[cls(t, c)] \in Int
        <5> HIDE DEF cls
        <5> QED BY <1>2, <4>1
      <4> HIDE DEF cls
      <4>3. h(u)[c] = h(t)[c] /\ h(t)[c] \in Int /\ delta[c] = 0
        BY <3>2, <4>1, <4>2
      <4> QED BY <4>3
    <3> QED BY <3>1, <3>2
  <2>4. h(u) = [c \in C |-> h(t)[c] + delta[c]]
    BY <2>3
  <2>5. delta \in [C -> Int] /\ h(t) \in [C -> Int]
    BY <1>3, <2>1
  <2>6. SumFunction(h(u)) = SumFunction(h(t)) + SumFunction(delta)
    <3> DEFINE a == h(t)
    <3>1. h(u) = [c \in C |-> a[c] + delta[c]] /\ a \in [C -> Int]
      BY <2>4, <2>5
    <3> HIDE DEF a, delta, h
    <3>2. SumFunction([c \in C |-> a[c] + delta[c]]) = SumFunction(a) + SumFunction(delta)
      BY <2>5, <3>1, SumOfSums
    <3> QED BY <3>1, <3>2 DEF a
  <2>7. SumFunction(delta) = f[x]
    <3> DEFINE one == [c \in {k[x]} |-> delta[c]]
    <3>1. {k[x]} \in SUBSET C /\ \A c \in C \ {k[x]} : delta[c] = 0
      BY <2>1
    <3>2. one \in [{k[x]} -> Int] /\ one[k[x]] = f[x]
      BY <2>1
    <3>3. SumFunction(delta) = SumFunction(one)
      <4> HIDE DEF delta
      <4> QED BY <2>5, <3>1, SumOfSome
    <3>4. SumFunction(one) = one[k[x]]
      <4> HIDE DEF one
      <4> QED BY <3>2, SumOfOne
    <3> QED BY <3>2, <3>3, <3>4
  <2>8. F[t] = SumFunction(h(t))
    BY <1>5
  <2> HIDE DEF h, delta
  <2> QED BY <2>1, <2>2, <2>6, <2>7, <2>8
<1>6. D \in P
  <2> HIDE DEF P
  <2> QED BY <1>4, <1>5, PartInduction
<1>7. h(D) = ClassSums(f, k, D, C)
  <2>1. ASSUME NEW c \in C PROVE SumFunction([x \in cls(D, c) |-> f[x]]) = F[cls(D, c)]
    <3>1. cls(D, c) \in SUBSET D
      OBVIOUS
    <3> HIDE DEF cls
    <3> QED BY <1>1, <3>1, SumOfPart
  <2> QED BY <2>1 DEF ClassSums
<1>8. h(D) \in [C -> Int] /\ F[D] = SumFunction(h(D)) /\ F[D] = SumFunction(f)
  <2>1. D \in SUBSET D
    OBVIOUS
  <2>2. F[D] = SumFunction(f)
    BY <1>1, SumOfParts
  <2>3. h(D) \in [C -> Int]
    BY <1>3, <2>1
  <2>4. F[D] = SumFunction(h(D))
    BY <1>6
  <2> QED BY <2>2, <2>3, <2>4
<1> QED BY <1>7, <1>8

\* A positive factor of both sides can go.
LEMMA Cancel ==
  ASSUME NEW a \in Int, NEW b \in Int, NEW c \in Int, c > 0, c * a <= c * b
  PROVE  a <= b
<1> SUFFICES ASSUME a >= b + 1 PROVE FALSE
  OBVIOUS
<1>1. c * a >= c * (b + 1)
  <2>1. a - b - 1 >= 0 /\ c >= 0 /\ a - b - 1 \in Int
    OBVIOUS
  <2> DEFINE d == a - b - 1
  <2>2. a = b + 1 + d /\ d >= 0 /\ d \in Int
    BY <2>1
  <2> HIDE DEF d
  <2>3. c * d >= 0
    BY <2>2
  <2>4. c * a = c * (b + 1) + c * d
    BY <2>2
  <2> QED BY <2>3, <2>4
<1>2. c * (b + 1) = c * b + c
  OBVIOUS
<1> QED BY <1>1, <1>2

\* The shares of w in the proportions f, each rounded down, are together no
\* more than w, and less by no more than one for each.
SharesOf(D, f, w) == [x \in D |-> (w * f[x]) \div SumFunction(f)]

LEMMA SharesFill ==
  ASSUME NEW D, IsFiniteSet(D), NEW f \in [D -> Nat], SumFunction(f) > 0, NEW w \in Nat
  PROVE  /\ SharesOf(D, f, w) \in [D -> Nat]
         /\ SumFunction(SharesOf(D, f, w)) <= w /\ w <= SumFunction(SharesOf(D, f, w)) + Cardinality(D)
<1> DEFINE W == SumFunction(f)
           q == [x \in D |-> (w * f[x]) \div W]
           n == Cardinality(D)
           one == [x \in D |-> 1]
           wf == [x \in D |-> w * f[x]]
           Wq == [x \in D |-> W * q[x]]
           Wone == [x \in D |-> W * one[x]]
           up == [x \in D |-> Wq[x] + Wone[x]]
<1>1. f \in [D -> Int] /\ W \in Int /\ W > 0 /\ n \in Nat
  BY SumType, FS_CardinalityType
<1> HIDE DEF W
<1>2. ASSUME NEW x \in D
      PROVE  q[x] \in Nat /\ W * q[x] <= w * f[x] /\ w * f[x] <= W * q[x] + W
  <2> DEFINE a == w * f[x]
             d == a \div W
  <2>1. f[x] \in Nat
    OBVIOUS
  <2>2. a \in Int /\ a >= 0
    BY <2>1
  <2> HIDE DEF a
  <2>3. d \in Int /\ W * d <= a /\ a <= W * d + W /\ d >= 0
    BY <1>1, <2>2
  <2>4. q[x] = d
    BY DEF a
  <2> HIDE DEF q, d
  <2> QED BY <2>3, <2>4 DEF a
<1>3. q \in [D -> Nat] /\ q \in [D -> Int] /\ one \in [D -> Int]
  <2>1. q = [x \in D |-> q[x]]
    OBVIOUS
  <2> HIDE DEF q
  <2>2. q \in [D -> Nat]
    BY <1>2, <2>1
  <2> QED BY <2>2
<1> HIDE DEF q
<1>4. wf \in [D -> Int] /\ Wq \in [D -> Int] /\ Wone \in [D -> Int]
  <2>1. \A x \in D : f[x] \in Int /\ q[x] \in Int /\ one[x] \in Int
    BY <1>3
  <2>2. \A x \in D : w * f[x] \in Int /\ W * q[x] \in Int /\ W * one[x] \in Int
    BY <1>1, <2>1
  <2> HIDE DEF one
  <2> QED BY <2>2
<1>5. SumFunction(wf) = w * W
  BY <1>1, SumOfMultiples DEF W
<1>6. SumFunction(Wq) = W * SumFunction(q) /\ SumFunction(q) \in Int
  BY <1>1, <1>3, SumOfMultiples, SumType
<1>7. SumFunction(Wone) = W * n
  <2>1. SumFunction(one) = n
    BY SumOfOnes
  <2> HIDE DEF one
  <2>2. SumFunction(Wone) = W * SumFunction(one)
    BY <1>1, <1>3, SumOfMultiples
  <2> QED BY <2>1, <2>2
<1>8. SumFunction(up) = W * SumFunction(q) + W * n /\ up \in [D -> Int]
  <2> HIDE DEF Wq, Wone
  <2>1. SumFunction(up) = SumFunction(Wq) + SumFunction(Wone)
    BY <1>4, SumOfSums
  <2>2. up \in [D -> Int]
    BY <1>4
  <2> QED BY <1>6, <1>7, <2>1, <2>2
<1>9. \A x \in D : Wq[x] <= wf[x] /\ wf[x] <= up[x]
  <2>1. \A x \in D : Wq[x] = W * q[x] /\ wf[x] = w * f[x] /\ up[x] = W * q[x] + W * 1
    OBVIOUS
  <2> HIDE DEF Wq, wf, up
  <2>2. W * 1 = W
    BY <1>1
  <2> QED BY <1>2, <2>1, <2>2
<1> HIDE DEF Wq, wf, up, n
<1>10. SumFunction(Wq) <= SumFunction(wf) /\ SumFunction(wf) <= SumFunction(up)
  BY <1>4, <1>8, <1>9, SumMonotone
<1> DEFINE s == SumFunction(q)
<1>11. W * s <= W * w /\ W * w <= W * (s + n) /\ s \in Int /\ s + n \in Int
  <2>1. w * W = W * w /\ W * (s + n) = W * s + W * n
    BY <1>1, <1>6
  <2> QED BY <1>1, <1>5, <1>6, <1>7, <1>8, <1>10, <2>1
<1> HIDE DEF s
<1>12. s <= w /\ w <= s + n
  BY <1>1, <1>11, Cancel
<1> QED BY <1>3, <1>12 DEF q, W, n, s, SharesOf


-----------------------------------------------------------------------------
(* Lists of some of the elements of another. *)

\* The first n numbers are n.
LEMMA FirstNumbers == ASSUME NEW n \in Nat PROVE IsFiniteSet(1 .. n) /\ Cardinality(1 .. n) = n
BY FS_Interval

\* t has elements of s, each of them once at most.
TakenAt(p, t, s) ==
  /\ IsSeq(t) /\ p \in [1 .. Len(t) -> DOMAIN s]
  /\ \A m, n \in 1 .. Len(t) : p[m] = p[n] => m = n
  /\ \A n \in 1 .. Len(t) : t[n] = s[p[n]]

TakenFrom(t, s) == \E p : TakenAt(p, t, s)

LEMMA TakenFromTaken ==
  ASSUME NEW s, NEW t, IsSeq(t), NEW u, TakenFrom(u, t), TakenFrom(t, s)
  PROVE  TakenFrom(u, s)
<1>1. PICK p : TakenAt(p, t, s)
  BY DEF TakenFrom
<1>2. PICK q : TakenAt(q, u, t)
  BY DEF TakenFrom
<1> DEFINE r == [n \in 1 .. Len(u) |-> p[q[n]]]
<1>3. DOMAIN t = 1 .. Len(t)
  BY SeqDomain
<1>4. \A n \in 1 .. Len(u) : q[n] \in 1 .. Len(t) /\ p[q[n]] \in DOMAIN s /\ u[n] = s[p[q[n]]]
  BY <1>1, <1>2, <1>3 DEF TakenAt
<1>5. r \in [1 .. Len(u) -> DOMAIN s]
  BY <1>4
<1>6. ASSUME NEW m \in 1 .. Len(u), NEW n \in 1 .. Len(u), r[m] = r[n] PROVE m = n
  <2>1. q[m] = q[n]
    BY <1>1, <1>4, <1>6 DEF TakenAt
  <2> QED BY <1>2, <2>1 DEF TakenAt
<1>7. TakenAt(r, u, s)
  BY <1>2, <1>4, <1>5, <1>6 DEF TakenAt
<1> QED BY <1>7 DEF TakenFrom

\* The elements at some places, and the elements that pass a test.
LEMMA AtIsTaken ==
  ASSUME NEW s, IsSeq(s), NEW P \in SUBSET DOMAIN s
  PROVE  /\ IsFiniteSet(P) /\ P \subseteq Int /\ Order(Places(P), P)
         /\ IsSeq(At(s, P)) /\ Len(At(s, P)) = Cardinality(P) /\ Cardinality(P) \in Nat
         /\ TakenAt(Places(P), At(s, P), s) /\ TakenFrom(At(s, P), s)
<1>1. IsFiniteSet(P) /\ P \subseteq Int
  <2>1. DOMAIN s = 1 .. Len(s) /\ Len(s) \in Nat /\ IsFiniteSet(1 .. Len(s))
    BY SeqDomain, FS_Interval
  <2>2. P \in SUBSET (1 .. Len(s))
    BY <2>1
  <2> QED BY <2>1, <2>2, FS_Subset
<1>2. /\ IsSeq(At(s, P)) /\ Len(At(s, P)) = Cardinality(P) /\ Cardinality(P) \in Nat
      /\ Order(Places(P), P)
      /\ \A n \in 1 .. Cardinality(P) : At(s, P)[n] = s[Places(P)[n]]
  BY <1>1, AtPlaces
<1>3. TakenAt(Places(P), At(s, P), s)
  BY <1>2 DEF TakenAt, Order
<1> QED BY <1>1, <1>2, <1>3 DEF TakenFrom

LEMMA DescendingIsTaken ==
  ASSUME NEW s, IsSeq(s), NEW rank \in [DOMAIN s -> Int]
  PROVE  IsSeq(Descending(s, rank)) /\ Len(Descending(s, rank)) = Len(s) /\ TakenFrom(Descending(s, rank), s)
<1> DEFINE t == Descending(s, rank)
<1>1. /\ IsSeq(t) /\ Len(t) = Len(s) /\ Cardinality(DOMAIN s) = Len(s)
      /\ \E p : Order(p, DOMAIN s) /\ \A n \in 1 .. Len(s) : t[n] = s[p[n]]
  BY DescendingOrder
<1> HIDE DEF t
<1>2. PICK p : Order(p, DOMAIN s) /\ \A n \in 1 .. Len(s) : t[n] = s[p[n]]
  BY <1>1
<1>3. TakenAt(p, t, s)
  BY <1>1, <1>2 DEF TakenAt, Order
<1> QED BY <1>1, <1>3 DEF TakenFrom, t

\* A beginning of a list.
LEMMA BeginningIsTaken ==
  ASSUME NEW s, IsSeq(s), NEW n \in 0 .. Len(s)
  PROVE  LET t == SubSeq(s, 1, n) IN IsSeq(t) /\ Len(t) = n /\ TakenFrom(t, s)
<1> DEFINE t == SubSeq(s, 1, n)
           p == [i \in 1 .. n |-> i]
<1>1. Len(s) \in Nat /\ DOMAIN s = 1 .. Len(s) /\ n \in Nat /\ n <= Len(s)
  BY SeqDomain
<1>2. IsSeq(t) /\ Len(t) = n /\ \A i \in 1 .. n : t[i] = s[i]
  <2>1. s \in Seq(Range(s)) /\ \A i \in 1 .. n : s[i] \in Range(s)
    BY <1>1, ElementOfSeq DEF IsSeq
  <2>2. 1 \in Int /\ n \in Int /\ n - 1 + 1 = n /\ \A i \in 1 .. n : 1 + i - 1 = i
    BY <1>1
  <2>3. /\ t \in Seq(Range(s)) /\ Len(t) = IF 1 <= n THEN n - 1 + 1 ELSE 0
        /\ \A i \in 1 .. n - 1 + 1 : t[i] = s[1 + i - 1]
    BY ONLY <2>1, <2>2, SubSeqProperties
  <2>4. IsSeq(t)
    BY <2>3, AnySeq
  <2> HIDE DEF t
  <2> QED BY <1>1, <2>2, <2>3, <2>4
<1>3. \A i \in 1 .. n : t[i] = s[p[i]]
  BY <1>2
<1>4. p \in [1 .. n -> DOMAIN s] /\ \A i, j \in 1 .. n : p[i] = p[j] => i = j
  BY <1>1
<1> HIDE DEF t, p
<1>5. TakenAt(p, t, s)
  BY <1>2, <1>3, <1>4 DEF TakenAt
<1> QED BY <1>2, <1>5 DEF TakenFrom, t

\* The sum of numbers of the elements drawn: no more than the sum of all, and
\* equal to it where all that is left out is 0.
LEMMA SumOfTaken ==
  ASSUME NEW s, IsSeq(s), NEW t, NEW p, TakenAt(p, t, s), NEW f \in [DOMAIN s -> Nat]
  PROVE  LET g == [n \in 1 .. Len(t) |-> f[p[n]]]
         IN  /\ SumFunction(g) \in Nat /\ SumFunction(f) \in Nat /\ SumFunction(g) <= SumFunction(f)
             /\ (\A i \in DOMAIN s : (\A n \in 1 .. Len(t) : p[n] # i) => f[i] = 0)
                  => SumFunction(g) = SumFunction(f)
<1> DEFINE D == DOMAIN s
           N == 1 .. Len(t)
           E == {p[n] : n \in N}
           e == [i \in E |-> f[i]]
           z == [i \in D |-> IF i \in E THEN f[i] ELSE 0]
           g == [n \in N |-> f[p[n]]]
<1>1. IsFiniteSet(D) /\ Len(t) \in Nat /\ IsFiniteSet(N) /\ Cardinality(N) = Len(t)
  <2>1. DOMAIN s = 1 .. Len(s) /\ Len(s) \in Nat /\ Len(t) \in Nat
    BY SeqDomain DEF TakenAt
  <2>2. IsFiniteSet(1 .. Len(s)) /\ IsFiniteSet(1 .. Len(t)) /\ Cardinality(1 .. Len(t)) = Len(t)
    BY <2>1, FirstNumbers
  <2> QED BY <2>1, <2>2
<1>2. p \in [N -> D] /\ \A m, n \in N : p[m] = p[n] => m = n
  BY DEF TakenAt
<1> HIDE DEF D, N
<1>3. E \in SUBSET D
  BY <1>2
<1>4. p \in Injection(N, E) /\ p \in Surjection(N, E)
  BY <1>2 DEF Injection, IsInjective, Surjection
<1>5. IsFiniteSet(E) /\ Cardinality(E) = Len(t)
  BY <1>1, <1>3, <1>4, FS_Surjection
<1>6. Order(p, E)
  BY <1>2, <1>5 DEF Order, N
<1>7. e \in [E -> Int] /\ z \in [D -> Int] /\ f \in [D -> Int] /\ \A i \in D : f[i] >= 0 /\ z[i] <= f[i]
  BY <1>3 DEF D
<1>8. SumFunction(g) = SumFunction(e)
  <2> HIDE DEF E
  <2>1. \A n \in N : p[n] \in E
    BY DEF E
  <2>2. g = [n \in 1 .. Cardinality(E) |-> e[p[n]]]
    BY <1>5, <2>1 DEF N
  <2> HIDE DEF e, g
  <2> QED BY <1>5, <1>6, <1>7, <2>2, SumInOrder
<1>9. SumFunction(z) = SumFunction(e)
  <2>1. \A i \in D \ E : z[i] = 0
    OBVIOUS
  <2>2. e = [i \in E |-> z[i]]
    BY <1>3
  <2> HIDE DEF e, z, E
  <2> QED BY <1>1, <1>3, <1>7, <2>1, <2>2, SumOfSome
<1>10. SumFunction(z) <= SumFunction(f)
  <2> HIDE DEF z
  <2> QED BY <1>1, <1>7, SumMonotone
<1>11. 0 <= SumFunction(z) /\ SumFunction(z) \in Int /\ SumFunction(f) \in Int /\ 0 <= SumFunction(f)
  <2>1. \A i \in D : z[i] >= 0
    BY <1>7
  <2> HIDE DEF z
  <2> QED BY <1>1, <1>7, <2>1, SumOfTerm, SumType
<1>12. (\A i \in D : (\A n \in N : p[n] # i) => f[i] = 0) => z = f
  <2> SUFFICES ASSUME \A i \in D : (\A n \in N : p[n] # i) => f[i] = 0 PROVE z = f
    OBVIOUS
  <2>1. \A i \in D : i \notin E => f[i] = 0
    OBVIOUS
  <2>2. f = [i \in D |-> f[i]]
    BY <1>7
  <2> HIDE DEF E
  <2> QED BY <2>1, <2>2
<1> HIDE DEF g, e, z, E
<1>13. SumFunction(g) \in Nat /\ SumFunction(f) \in Nat /\ SumFunction(g) <= SumFunction(f)
  BY <1>8, <1>9, <1>10, <1>11
<1>14. (\A i \in D : (\A n \in N : p[n] # i) => f[i] = 0) => SumFunction(g) = SumFunction(f)
  BY <1>8, <1>9, <1>12
<1> QED BY <1>13, <1>14 DEF g, D, N

\* The first known of two values, and of any list.
LEMMA FirstKnownOfTwo ==
  ASSUME NEW a, NEW b
  PROVE  FirstKnown(<<a, b>>) = IF a # None THEN a ELSE b
<1> DEFINE s == <<a, b>>
           K == {i \in DOMAIN s : s[i] # None}
<1>1. DOMAIN s = 1 .. 2 /\ s[1] = a /\ s[2] = b
  OBVIOUS
<1>2. FirstKnown(s) = IF K = {} THEN None ELSE s[Min(K)]
  BY DEF FirstKnown
<1> HIDE DEF s
<1>3. K \in SUBSET (1 .. 2) /\ IsFiniteSet(1 .. 2)
  BY <1>1, FirstNumbers
<1>4. IsFiniteSet(K) /\ K \in SUBSET Int
  BY <1>3, FS_Subset
<1>5. K # {} => Min(K) \in K /\ \A y \in K : Min(K) <= y
  <2> HIDE DEF K
  <2> QED BY <1>4, Extremes
<1>6. CASE a # None
  <2>1. 1 \in K
    BY <1>1, <1>6
  <2>2. Min(K) = 1
    BY <1>3, <1>5, <2>1
  <2> QED BY <1>1, <1>2, <1>6, <2>1, <2>2 DEF s
<1>7. CASE a = None /\ b # None
  <2>1. 2 \in K /\ 1 \notin K
    BY <1>1, <1>7
  <2>2. Min(K) = 2
    BY <1>3, <1>5, <2>1
  <2> QED BY <1>1, <1>2, <1>7, <2>1, <2>2 DEF s
<1>8. CASE a = None /\ b = None
  <2>1. K = {}
    BY <1>1, <1>8
  <2> QED BY <1>2, <1>8, <2>1 DEF s
<1> QED BY <1>6, <1>7, <1>8

LEMMA FirstKnownIsThere ==
  ASSUME NEW s, IsSeq(s)
  PROVE  \/ FirstKnown(s) = None /\ \A i \in DOMAIN s : s[i] = None
         \/ \E i \in DOMAIN s : s[i] # None /\ FirstKnown(s) = s[i]
<1> DEFINE K == {i \in DOMAIN s : s[i] # None}
<1>1. DOMAIN s = 1 .. Len(s) /\ Len(s) \in Nat
  BY SeqDomain
<1>2. FirstKnown(s) = IF K = {} THEN None ELSE s[Min(K)]
  BY DEF FirstKnown
<1>3. K \in SUBSET (1 .. Len(s)) /\ IsFiniteSet(1 .. Len(s))
  BY <1>1, FirstNumbers
<1>4. IsFiniteSet(K) /\ K \in SUBSET Int
  BY <1>3, FS_Subset
<1>5. K # {} => Min(K) \in K
  <2> HIDE DEF K
  <2> QED BY <1>4, Extremes
<1> QED BY <1>2, <1>5

\* The sum of what is known of some numbers.
LEMMA SumOfKnown ==
  ASSUME NEW D, IsFiniteSet(D), NEW f \in [D -> Int \cup {None}]
  PROVE  /\ SumKnown(f) \in Int \cup {None}
         /\ f \in [D -> Int] /\ D # {} => SumKnown(f) = SumFunction(f)
<1> DEFINE E == {x \in D : f[x] # None}
           g == [x \in E |-> f[x]]
<1>1. Clean(f) = g
  BY DEF Clean, RestrictValues, Restrict
<1>2. SumKnown(f) = IF E = {} THEN None ELSE SumFunction(g)
  <2>1. DOMAIN g = E
    OBVIOUS
  <2> HIDE DEF g
  <2> QED BY <1>1, <2>1 DEF SumKnown
<1>3. E \in SUBSET D /\ g \in [E -> Int]
  OBVIOUS
<1> HIDE DEF E, g
<1>4. IsFiniteSet(E)
  BY <1>3, FS_Subset
<1>5. SumFunction(g) \in Int
  BY <1>3, <1>4, SumType
<1>6. ASSUME f \in [D -> Int], D # {} PROVE SumKnown(f) = SumFunction(f)
  <2>1. \A x \in D : f[x] \in Int
    BY <1>6
  <2>2. E = D
    BY <2>1, DistinctMarks DEF E
  <2>3. g = f
    BY <1>6, <2>2 DEF g
  <2> QED BY <1>2, <1>6, <2>2, <2>3
<1> QED BY <1>2, <1>5, <1>6

\* The elements of s at the places P of which a test holds, of the list of
\* those at P.
LEMMA AtOfAt ==
  ASSUME NEW s, IsSeq(s), NEW P \in SUBSET DOMAIN s, NEW Q \in SUBSET DOMAIN At(s, P),
         NEW R \in SUBSET P, \A m \in DOMAIN At(s, P) : m \in Q <=> Places(P)[m] \in R
  PROVE  LET t == At(At(s, P), Q)
         IN  IsSeq(t) /\ \E p : TakenAt(p, t, s) /\ {p[n] : n \in 1 .. Len(t)} = R
<1> DEFINE u == At(s, P)
           t == At(u, Q)
           q == Places(Q)
           p == [n \in 1 .. Len(t) |-> Places(P)[q[n]]]
<1>1. IsSeq(u) /\ Len(u) = Cardinality(P) /\ Order(Places(P), P) /\ TakenAt(Places(P), u, s)
  <2>1. IsFiniteSet(P) /\ P \subseteq Int /\ TakenAt(Places(P), u, s)
    BY AtIsTaken
  <2>2. IsSeq(u) /\ Len(u) = Cardinality(P) /\ Order(Places(P), P)
    BY <2>1, AtPlaces
  <2> QED BY <2>1, <2>2
<1>2. DOMAIN u = 1 .. Cardinality(P)
  BY <1>1, SeqDomain
<1>3. \A m \in DOMAIN u : m \in Q <=> Places(P)[m] \in R
  OBVIOUS
<1>4. Q \in SUBSET DOMAIN u
  OBVIOUS
<1> HIDE DEF u
<1>5. IsSeq(t) /\ Len(t) = Cardinality(Q) /\ Order(q, Q) /\ TakenAt(q, t, u)
  <2>1. IsFiniteSet(Q) /\ Q \subseteq Int /\ TakenAt(q, t, u)
    BY <1>1, <1>4, AtIsTaken
  <2>2. IsSeq(t) /\ Len(t) = Cardinality(Q) /\ Order(q, Q)
    BY <2>1, AtPlaces
  <2> QED BY <2>1, <2>2
<1> HIDE DEF t, q
<1>6. /\ \A n \in 1 .. Len(t) : q[n] \in Q /\ t[n] = u[q[n]]
      /\ \A m, n \in 1 .. Len(t) : q[m] = q[n] => m = n
      /\ \A m \in Q : \E n \in 1 .. Len(t) : q[n] = m
  BY <1>5 DEF Order, TakenAt
<1>7. /\ \A m \in DOMAIN u : Places(P)[m] \in P /\ u[m] = s[Places(P)[m]]
      /\ \A m, n \in DOMAIN u : Places(P)[m] = Places(P)[n] => m = n
      /\ \A i \in P : \E m \in DOMAIN u : Places(P)[m] = i
  BY <1>1, <1>2 DEF Order, TakenAt
<1>8. \A n \in 1 .. Len(t) : q[n] \in DOMAIN u /\ p[n] = Places(P)[q[n]]
  BY <1>4, <1>6
<1>9. \A n \in 1 .. Len(t) : p[n] \in DOMAIN s /\ t[n] = s[p[n]] /\ p[n] \in R
  BY <1>3, <1>6, <1>7, <1>8
<1>10. p \in [1 .. Len(t) -> DOMAIN s]
  BY <1>9
<1> HIDE DEF p
<1>11. \A m, n \in 1 .. Len(t) : p[m] = p[n] => m = n
  BY <1>6, <1>7, <1>8
<1>12. TakenAt(p, t, s)
  BY <1>5, <1>9, <1>10, <1>11 DEF TakenAt
<1>13. ASSUME NEW i \in R PROVE \E n \in 1 .. Len(t) : p[n] = i
  <2>1. PICK m \in DOMAIN u : Places(P)[m] = i
    BY <1>7, <1>13
  <2>2. m \in Q
    BY <1>3, <2>1
  <2>3. PICK n \in 1 .. Len(t) : q[n] = m
    BY <1>6, <2>2
  <2>4. p[n] = i
    BY <1>8, <2>1, <2>3
  <2> QED BY <2>4
<1>14. {p[n] : n \in 1 .. Len(t)} = R
  BY <1>9, <1>13
<1> QED BY <1>5, <1>12, <1>14 DEF t, u
=============================================================================
