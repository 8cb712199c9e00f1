------------------------------- MODULE Values -------------------------------
(***************************************************************************)
(* The values of the legacy Python programs.  A dictionary of the code is  *)
(* a record that has the keys it has; None is Python's None and Junk a     *)
(* value that float(), int() or an isinstance test rejects.  Floats are    *)
(* integers, in the unit each module names.                                *)
(***************************************************************************)
EXTENDS Integers, Sequences, FiniteSets, SequencesExt, TLC

CONSTANTS None, Junk

ASSUME DistinctMarks == None # Junk /\ {None, Junk} \cap Int = {}

-----------------------------------------------------------------------------
Get(d, k) == IF k \in DOMAIN d THEN d[k] ELSE None

(* float(value), or None where the conversion raises.                      *)
Float(v) == IF v = Junk THEN None ELSE v

(* get_num: the value of a key as a float, or None.                        *)
GetNum(d, k) == Float(Get(d, k))

(* A dictionary, or the empty one for anything that is not a dictionary.   *)
Dict(v) == IF v \in {None, Junk} THEN << >> ELSE v

IsDict(v) == v \notin {None, Junk}

(* d.update(e).                                                            *)
Update(d, e) == [k \in DOMAIN d \cup DOMAIN e |-> IF k \in DOMAIN e THEN e[k] ELSE d[k]]

(* {**a, **b, ...}: all the keys of some dictionaries that share none.     *)
Merged(dicts) ==
  [k \in UNION {DOMAIN dicts[i] : i \in DOMAIN dicts} |->
     LET i == CHOOSE j \in DOMAIN dicts : k \in DOMAIN dicts[j] IN dicts[i][k]]

(* Python's "a or b" on numbers: 0 is false too.                           *)
Either(a, b) == IF a \in {None, 0} THEN b ELSE a

Abs(n) == IF n < 0 THEN -n ELSE n

-----------------------------------------------------------------------------
(* Lists.                                                                  *)

(* The list itself, whose elements TLC evaluates here once.                *)
Evaluated(s) == << >> \o s

(* The elements of s at some of its places, in their order.                *)
Nth(places, n) == CHOOSE i \in places : Cardinality({j \in places : j <= i}) = n
At(s, places) == Evaluated([n \in 1..Cardinality(places) |-> s[Nth(places, n)]])

(* [v for v in s if Test(v)]                                               *)
Filter(s, Test(_)) == At(s, {i \in DOMAIN s : Test(s[i])})

(* s sorted by rank, the highest first; equal ones keep their order.       *)
Place(rank, i) ==
  Cardinality({j \in DOMAIN rank : rank[j] > rank[i] \/ (rank[j] = rank[i] /\ j <= i)})
Descending(s, rank) == Evaluated([n \in DOMAIN s |-> s[CHOOSE i \in DOMAIN s : Place(rank, i) = n]])

(* The n-th of some values in ascending order.                             *)
NthLeast(values, n) ==
  CHOOSE v \in Range(values) :
    /\ Cardinality({i \in DOMAIN values : values[i] < v}) < n
    /\ n <= Cardinality({i \in DOMAIN values : values[i] <= v})

Known(s) == Filter(s, LAMBDA v : v # None)

FirstKnown(s) ==
  LET known == {i \in DOMAIN s : s[i] # None} IN IF known = {} THEN None ELSE s[Min(known)]

(* What is left of a list without its None, at the places it had.          *)
Clean(values) == RestrictValues(values, LAMBDA v : v # None)

SumKnown(values) == IF DOMAIN Clean(values) = {} THEN None ELSE SumFunction(Clean(values))

(* The first number found under one of the keys, source by source.         *)
FirstNum(sources, keys) ==
  FirstKnown(FlattenSeq([i \in DOMAIN sources |->
               [j \in DOMAIN keys |-> GetNum(sources[i], keys[j])]]))

Total(s) == FoldLeft(LAMBDA a, b : a + b, 0, s)
Least(s) == FoldLeft(LAMBDA a, b : IF a = None \/ b < a THEN b ELSE a, None, s)
Greatest(s) == FoldLeft(LAMBDA a, b : IF a = None \/ b > a THEN b ELSE a, None, s)
Mean(s) == IF s = << >> THEN None ELSE Total(s) \div Len(s)
=============================================================================
