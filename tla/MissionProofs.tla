---------------------------- MODULE MissionProofs ----------------------------
(***************************************************************************)
(* Theorems about what a mission is: how the planner's job makes the plan  *)
(* it comes from (AuditPlanning), what the planner is told of the page     *)
(* (PlannerContext), and what the deterministic missions report of it      *)
(* (MissionFindings).  For every configuration, page, answer of the        *)
(* provider and limit that the assumptions of those modules admit, of any  *)
(* length.  The lists are folds; the first sections prove what a fold      *)
(* keeps, by induction on the number of elements, for a set of the numbers *)
(* for which it holds.                                                     *)
(***************************************************************************)
EXTENDS AuditPlanning, MissionFindings, FiniteSetTheorems, SequenceTheorems,
        WellFoundedInduction, TLAPS

-----------------------------------------------------------------------------
(***************************************************************************)
(* Induction and folds.                                                    *)
(***************************************************************************)

\* Induction up to n: Good is the set of the numbers the claim holds for.
LEMMA UpToInduction ==
  ASSUME NEW n \in Nat, NEW Good, 0 \in Good,
         \A k \in 1..n : k - 1 \in Good => k \in Good
  PROVE  \A k \in 0..n : k \in Good
<1> DEFINE Bad == {k \in 0..n : k \notin Good}
<1> SUFFICES ASSUME Bad # {} PROVE FALSE
  OBVIOUS
<1>1. PICK k \in Bad : \A j \in Bad : ~(<<j, k>> \in OpToRel(<, Nat))
  <2>1. Bad \subseteq Nat
    OBVIOUS
  <2> HIDE DEF Bad
  <2> QED
    BY <2>1, NatLessThanWellFounded, WFMin
<1>2. k \in 1..n /\ k - 1 \in 0..n
  OBVIOUS
<1>3. k - 1 \in Bad
  BY <1>2
<1>4. <<k - 1, k>> \in OpToRel(<, Nat)
  BY <1>2 DEF OpToRel
<1> QED
  BY <1>1, <1>3, <1>4

\* The greatest of some numbers up to k, if k is one of them.
LEMMA MaxOfUpTo ==
  ASSUME NEW k \in Nat \ {0}, NEW s \in SUBSET (1..k), k \in s
  PROVE  Max(s) = k
<1>1. \A y \in s : k >= y
  OBVIOUS
<1>2. /\ Max(s) \in s /\ \A y \in s : Max(s) >= y
  <2>1. \E x \in s : \A y \in s : x >= y
    BY <1>1
  <2> QED
    BY <2>1, Zenon DEF Max
<1>3. Max(s) \in 1..k /\ Max(s) >= k
  BY <1>2
<1> QED
  BY <1>3

LEMMA MaxIsThere ==
  ASSUME NEW n \in Nat, NEW s \in SUBSET (1..n), s # {}
  PROVE  Max(s) \in s
<1> DEFINE Good == {k \in 0..n : \A r \in SUBSET (1..k) :
                      r # {} => \E x \in r : \A y \in r : x >= y}
<1>1. 0 \in Good
  <2>1. 0 \in 0..n /\ \A r \in SUBSET (1..0) : r = {}
    OBVIOUS
  <2> QED
    BY <2>1
<1>2. ASSUME NEW k \in 1..n, k - 1 \in Good PROVE k \in Good
  <2> SUFFICES ASSUME NEW r \in SUBSET (1..k), r # {}
               PROVE  \E x \in r : \A y \in r : x >= y
    OBVIOUS
  <2>1. CASE k \in r
    <3>1. \A y \in r : k >= y
      OBVIOUS
    <3> QED
      BY <2>1, <3>1
  <2>2. CASE k \notin r
    <3>1. r \in SUBSET (1..(k - 1))
      BY <2>2
    <3> QED
      BY <1>2, <3>1
  <2> QED
    BY <2>1, <2>2
<1> HIDE DEF Good
<1>3. n \in Good
  <2>1. \A k \in 0..n : k \in Good
    BY <1>1, <1>2, UpToInduction
  <2> QED
    BY <2>1
<1>4. \E x \in s : \A y \in s : x >= y
  BY <1>3 DEF Good
<1> QED
  BY <1>4, Zenon DEF Max

\* A fold from the left over n elements, with values in V, whose step is a
\* function of the index and the value: what FoldLeft chooses is such an it.
Follows(it, n, V, base, F) ==
  /\ it \in [SUBSET (1..n) -> V]
  /\ \A s \in SUBSET (1..n) :
       IF s = {} THEN it[s] = base
       ELSE /\ Max(s) \in 1..n /\ it[s \ {Max(s)}] \in V
            /\ it[s] = F[Max(s)][it[s \ {Max(s)}]]

LEMMA FoldExists ==
  ASSUME NEW n \in Nat, NEW V, NEW base \in V, NEW F \in [1..n -> [V -> V]]
  PROVE  \E it : Follows(it, n, V, base, F)
<1> DEFINE Is(it, k) ==
      \A s \in SUBSET (1..k) :
        it[s] = IF s = {} THEN base ELSE F[Max(s)][it[s \ {Max(s)}]]
    Good == {k \in 0..n : \E it \in [SUBSET (1..k) -> V] : Is(it, k)}
<1>1. 0 \in Good
  <2> DEFINE it == [s \in SUBSET (1..0) |-> base]
  <2>1. \A s \in SUBSET (1..0) : s = {}
    OBVIOUS
  <2>2. it \in [SUBSET (1..0) -> V] /\ Is(it, 0)
    BY <2>1
  <2> HIDE DEF it, Is
  <2>3. \E f \in [SUBSET (1..0) -> V] : Is(f, 0)
    BY <2>2
  <2>4. 0 \in 0..n
    OBVIOUS
  <2> QED
    BY <2>3, <2>4, Zenon
<1>2. ASSUME NEW k \in 1..n, k - 1 \in Good PROVE k \in Good
  <2>1. PICK it \in [SUBSET (1..(k - 1)) -> V] : Is(it, k - 1)
    BY <1>2
  <2> DEFINE more == [s \in SUBSET (1..k) |->
                        IF k \in s THEN F[k][it[s \ {k}]] ELSE it[s]]
  <2>2. ASSUME NEW s \in SUBSET (1..k), k \notin s
        PROVE  s \in SUBSET (1..(k - 1)) /\ more[s] = it[s] /\ more[s] \in V
    BY <2>2
  <2>3. ASSUME NEW s \in SUBSET (1..k), k \in s
        PROVE  /\ s \ {k} \in SUBSET (1..(k - 1)) /\ more[s] = F[k][more[s \ {k}]]
               /\ more[s] \in V
    BY <2>3
  <2>4. more \in [SUBSET (1..k) -> V]
    BY <2>2, <2>3
  <2>5. ASSUME NEW s \in SUBSET (1..k)
        PROVE  more[s] = IF s = {} THEN base ELSE F[Max(s)][more[s \ {Max(s)}]]
    <3>1. CASE k \in s
      <4>1. Max(s) = k /\ s # {}
        BY <3>1, MaxOfUpTo
      <4>2. more[s] = F[k][more[s \ {k}]]
        BY <2>3, <3>1
      <4> HIDE DEF more
      <4> QED
        BY <4>1, <4>2
    <3>2. CASE k \notin s
      <4>1. s \in SUBSET (1..(k - 1)) /\ more[s] = it[s]
        BY <2>2, <3>2
      <4>2. s \ {Max(s)} \in SUBSET (1..k) /\ k \notin s \ {Max(s)}
        BY <3>2
      <4>3. more[s \ {Max(s)}] = it[s \ {Max(s)}]
        BY <2>2, <4>2
      <4> HIDE DEF more
      <4> QED
        BY <2>1, <4>1, <4>3
    <3> QED
      BY <3>1, <3>2
  <2> HIDE DEF more
  <2>6. Is(more, k)
    BY <2>5
  <2> HIDE DEF Is
  <2> QED
    BY <2>4, <2>6
<1> HIDE DEF Good
<1>3. n \in Good
  <2>1. \A k \in 0..n : k \in Good
    BY <1>1, <1>2, UpToInduction
  <2> QED
    BY <2>1
<1>4. PICK it \in [SUBSET (1..n) -> V] : Is(it, n)
  BY <1>3 DEF Good
<1>5. ASSUME NEW s \in SUBSET (1..n), s # {}
      PROVE  Max(s) \in 1..n /\ it[s \ {Max(s)}] \in V
  <2>1. Max(s) \in s
    BY <1>5, MaxIsThere
  <2>2. s \ {Max(s)} \in SUBSET (1..n)
    OBVIOUS
  <2> QED
    BY <2>1, <2>2
<1>6. Follows(it, n, V, base, F)
  BY <1>4, <1>5 DEF Follows
<1> QED
  BY <1>6

LEMMA UpTo ==
  ASSUME NEW n \in Nat, NEW k \in 1..n
  PROVE  /\ k - 1 \in 0..n /\ 1..k \in SUBSET (1..n) /\ 1..k # {}
         /\ Max(1..k) = k /\ (1..k) \ {Max(1..k)} = 1..(k - 1)
<1>1. k \in Nat \ {0} /\ k \in 1..k
  OBVIOUS
<1>2. Max(1..k) = k
  BY <1>1, MaxOfUpTo
<1>3. (1..k) \ {k} = 1..(k - 1)
  OBVIOUS
<1>4. k - 1 \in 0..n /\ 1..k \in SUBSET (1..n) /\ 1..k # {}
  OBVIOUS
<1> QED
  BY <1>2, <1>3, <1>4, Zenon

\* What every step keeps, the fold keeps.
LEMMA FoldStays ==
  ASSUME NEW n \in Nat, NEW V, NEW it, it[{}] \in V,
         \A s \in SUBSET (1..n) : s # {} /\ it[s \ {Max(s)}] \in V => it[s] \in V
  PROVE  it[1..n] \in V
<1> DEFINE Good == {k \in 0..n : it[1..k] \in V}
<1>1. 0 \in Good
  <2>1. 0 \in 0..n /\ 1..0 = {}
    OBVIOUS
  <2> QED
    BY <2>1, Zenon
<1>2. ASSUME NEW k \in 1..n, k - 1 \in Good PROVE k \in Good
  <2>1. it[(1..k) \ {Max(1..k)}] \in V /\ 1..k \in SUBSET (1..n) /\ 1..k # {}
    BY <1>2, UpTo
  <2>2. k \in 0..n
    OBVIOUS
  <2> QED
    BY <2>1, <2>2, Zenon
<1> HIDE DEF Good
<1>3. \A k \in 0..n : k \in Good
  BY <1>1, <1>2, UpToInduction
<1> QED
  BY <1>3 DEF Good

(***************************************************************************)
(* Lists.                                                                  *)
(***************************************************************************)
LEMMA RangeIs ==
  ASSUME NEW S, NEW s \in Seq(S)
  PROVE  Range(s) = {s[i] : i \in 1..Len(s)} /\ Range(s) \subseteq S
BY DEF Range

LEMMA FirstOfStays ==
  ASSUME NEW S, NEW s \in Seq(S), NEW n \in Nat
  PROVE  FirstOf(s, n) \in Seq(S)
BY DEF FirstOf

LEMMA SeqOfMore ==
  ASSUME NEW S, NEW T, S \subseteq T, NEW s \in Seq(S)
  PROVE  s \in Seq(T)
OBVIOUS

LEMMA OneMore ==
  ASSUME NEW S, NEW s \in Seq(S), NEW k \in 1..Len(s)
  PROVE  {s[i] : i \in 1..k} = {s[i] : i \in 1..(k - 1)} \cup {s[k]}
<1>1. 1..k = 1..(k - 1) \cup {k}
  OBVIOUS
<1> QED
  BY <1>1

LEMMA AllOfAppended ==
  ASSUME NEW S, NEW s \in Seq(S), NEW x \in S
  PROVE  /\ Append(s, x) \in Seq(S) /\ Len(Append(s, x)) = Len(s) + 1
         /\ \A j \in 1..Len(s) : Append(s, x)[j] = s[j]
         /\ Append(s, x)[Len(s) + 1] = x
         /\ {Append(s, x)[j] : j \in 1..Len(Append(s, x))} = {s[j] : j \in 1..Len(s)} \cup {x}
<1> DEFINE t == Append(s, x)
<1>1. /\ t \in Seq(S) /\ Len(t) = Len(s) + 1 /\ Len(s) \in Nat
      /\ \A j \in 1..Len(s) : t[j] = s[j]
      /\ t[Len(s) + 1] = x
  OBVIOUS
<1>2. 1..Len(t) = 1..Len(s) \cup {Len(s) + 1}
  BY <1>1
<1> HIDE DEF t
<1>3. {t[j] : j \in 1..Len(t)} = {s[j] : j \in 1..Len(s)} \cup {x}
  BY <1>1, <1>2
<1> QED
  BY <1>1, <1>3 DEF t

\* What is kept of the first k elements, for every k.
KeptAmong(kept, S, s, T) ==
  /\ kept \in [0..Len(s) -> Seq(S \cap T)]
  /\ kept[0] = <<>> /\ kept[Len(s)] = Among(s, T)
  /\ \A k \in 1..Len(s) :
       kept[k] = IF s[k] \in T THEN Append(kept[k - 1], s[k]) ELSE kept[k - 1]

\* Among takes up one index at a time, in their order.
LEMMA AmongSteps ==
  ASSUME NEW S, NEW s \in Seq(S), NEW T
  PROVE  \E kept : KeptAmong(kept, S, s, T)
<1> DEFINE V == Seq(S \cap T)
    n == Len(s)
    Step(k, v) == IF s[k] \in T THEN Append(v, s[k]) ELSE v
    F == [k \in 1..n |-> [v \in V |-> Step(k, v)]]
    Is(it) == it = [r \in SUBSET DOMAIN s |->
                      IF r = {} THEN <<>> ELSE Step(Max(r), it[r \ {Max(r)}])]
<1>1. \A k \in 1..n, v \in V : Step(k, v) \in V
  OBVIOUS
<1>2. Among(s, T) = (CHOOSE it : Is(it))[DOMAIN s]
  BY DEF Among, FoldLeft, MapThenFoldSet
<1>3. n \in Nat /\ DOMAIN s = 1..n /\ <<>> \in V
  OBVIOUS
<1> HIDE DEF V, n, Step
<1>4. F \in [1..n -> [V -> V]]
  BY <1>1
<1>5. \E it : Is(it)
  <2>1. PICK it : Follows(it, n, V, <<>>, F)
    <3> HIDE DEF F
    <3> QED
      BY <1>3, <1>4, FoldExists
  <2>2. Is(it)
    BY <1>3, <2>1 DEF Follows
  <2> QED
    BY <2>2
<1>6. PICK it : Is(it) /\ Among(s, T) = it[1..n]
  BY <1>2, <1>3, <1>5, Zenon
<1> DEFINE kept == [k \in 0..n |-> it[1..k]]
<1>7. kept[0] = <<>> /\ kept[n] = Among(s, T)
  <2>1. 1..0 = {} /\ 0 \in 0..n /\ n \in 0..n
    BY <1>3
  <2>2. it[{}] = <<>>
    BY <1>3, <1>6
  <2> QED
    BY <1>6, <2>1, <2>2
<1>8. ASSUME NEW k \in 1..n PROVE kept[k] = Step(k, kept[k - 1])
  <2>1. /\ k - 1 \in 0..n /\ 1..k \in SUBSET (1..n) /\ 1..k # {}
        /\ Max(1..k) = k /\ (1..k) \ {Max(1..k)} = 1..(k - 1)
    BY <1>3, UpTo
  <2>2. it[1..k] = Step(Max(1..k), it[(1..k) \ {Max(1..k)}])
    BY <1>3, <1>6, <2>1
  <2>3. it[1..k] = Step(k, it[1..(k - 1)])
    BY <2>1, <2>2
  <2>4. kept[k] = it[1..k] /\ kept[k - 1] = it[1..(k - 1)]
    BY <1>3, <2>1
  <2> QED
    BY <2>3, <2>4
<1> HIDE DEF Is, F
<1>9. \A k \in 0..n : kept[k] \in V
  <2> DEFINE Good == {k \in 0..n : kept[k] \in V}
  <2>1. 0 \in Good
    BY <1>3, <1>7
  <2>2. \A k \in 1..n : k - 1 \in Good => k \in Good
    BY <1>1, <1>3, <1>8
  <2> HIDE DEF Good, kept
  <2>3. \A k \in 0..n : k \in Good
    BY <1>3, <2>1, <2>2, UpToInduction
  <2> QED
    BY <2>3 DEF Good
<1>10. kept \in [0..n -> V]
  BY <1>9
<1> HIDE DEF kept
<1> QED
  BY <1>7, <1>8, <1>10 DEF V, n, Step, KeptAmong

\* What is in T stays and nothing else, in its order: what is kept of the
\* first k elements is the beginning of what is kept of all.
KeepsThose(out, S, s, T) ==
  /\ out \in Seq(S \cap T) /\ Range(out) = Range(s) \cap T
  /\ \A k \in 0..Len(s) : \E m \in 0..Len(out) :
       {out[j] : j \in 1..m} = {s[i] : i \in 1..k} \cap T

\* The elements of T stay, in their order: those among the first k are a beginning
\* of what stays; see AmongIs.
LEMMA AmongKeeps ==
  ASSUME NEW S, NEW s \in Seq(S), NEW T
  PROVE  KeepsThose(Among(s, T), S, s, T)
<1> DEFINE n == Len(s)
<1>0. PICK kept : KeptAmong(kept, S, s, T)
  BY AmongSteps
<1>1. /\ kept \in [0..n -> Seq(S \cap T)]
      /\ kept[0] = <<>> /\ kept[n] = Among(s, T)
      /\ \A k \in 1..n :
           kept[k] = IF s[k] \in T THEN Append(kept[k - 1], s[k]) ELSE kept[k - 1]
  BY <1>0 DEF KeptAmong
<1>2. /\ n \in Nat /\ \A k \in 1..n : s[k] \in S
      /\ \A k \in 0..n : kept[k] \in Seq(S \cap T)
  BY <1>1
<1> HIDE DEF n
<1> DEFINE All(k) == {kept[k][j] : j \in 1..Len(kept[k])}
    Whole == {k \in 0..n : All(k) = {s[i] : i \in 1..k} \cap T}
<1>3. 0 \in Whole
  BY <1>1, <1>2
<1>4. ASSUME NEW k \in 1..n, k - 1 \in Whole PROVE k \in Whole
  <2> DEFINE v == kept[k - 1]
  <2>1. v \in Seq(S \cap T) /\ k - 1 \in 0..n /\ k \in 0..n
    BY <1>2
  <2>2. {v[j] : j \in 1..Len(v)} = {s[i] : i \in 1..(k - 1)} \cap T
    BY <1>4
  <2>3. {s[i] : i \in 1..k} = {s[i] : i \in 1..(k - 1)} \cup {s[k]}
    BY OneMore DEF n
  <2>4. CASE s[k] \in T
    <3>1. kept[k] = Append(v, s[k])
      BY <1>1, <2>4
    <3> HIDE DEF v
    <3>2. {Append(v, s[k])[j] : j \in 1..Len(Append(v, s[k]))} =
            {v[j] : j \in 1..Len(v)} \cup {s[k]}
      <4>1. s[k] \in S \cap T
        BY <1>2, <2>4
      <4> QED
        BY <2>1, <4>1, AllOfAppended
    <3>3. All(k) = {v[j] : j \in 1..Len(v)} \cup {s[k]}
      BY <3>1, <3>2
    <3>4. All(k) = {s[i] : i \in 1..k} \cap T
      BY <2>2, <2>3, <2>4, <3>3
    <3> QED
      BY <2>1, <3>4
  <2>5. CASE s[k] \notin T
    <3>1. kept[k] = v
      BY <1>1, <2>5
    <3>2. All(k) = {v[j] : j \in 1..Len(v)}
      BY <3>1
    <3> HIDE DEF v, All
    <3>3. All(k) = {s[i] : i \in 1..k} \cap T
      BY <2>2, <2>3, <2>5, <3>2
    <3> QED
      BY <2>1, <3>3
  <2> QED
    BY <2>4, <2>5
<1>5. \A k \in 0..n : k \in Whole
  <2> HIDE DEF Whole
  <2> QED
    BY <1>2, <1>3, <1>4, UpToInduction
<1> DEFINE Begins(k, l) ==
      /\ Len(kept[k]) <= Len(kept[l])
      /\ \A j \in 1..Len(kept[k]) : kept[l][j] = kept[k][j]
    Ordered == {l \in 0..n : \A k \in 0..l : Begins(k, l)}
<1>6. 0 \in Ordered
  <2>1. kept[0] \in Seq(S \cap T) /\ 0 \in 0..n
    BY <1>2
  <2> QED
    BY <2>1
<1>7. ASSUME NEW l \in 1..n, l - 1 \in Ordered PROVE l \in Ordered
  <2>1. /\ l - 1 \in 0..n /\ l \in 0..n /\ kept[l - 1] \in Seq(S \cap T)
        /\ kept[l] \in Seq(S \cap T)
    BY <1>2
  <2>2. /\ Len(kept[l - 1]) <= Len(kept[l])
        /\ \A j \in 1..Len(kept[l - 1]) : kept[l][j] = kept[l - 1][j]
    <3>1. CASE s[l] \in T
      <4>1. kept[l] = Append(kept[l - 1], s[l]) /\ s[l] \in S \cap T
        BY <1>1, <1>2, <3>1
      <4> DEFINE v == kept[l - 1]
      <4> HIDE DEF v
      <4>2. Len(Append(v, s[l])) = Len(v) + 1 /\ \A j \in 1..Len(v) : Append(v, s[l])[j] = v[j]
        BY <2>1, <4>1, AllOfAppended DEF v
      <4>3. Len(v) \in Nat
        BY <2>1 DEF v
      <4> QED
        BY <4>1, <4>2, <4>3 DEF v
    <3>2. CASE s[l] \notin T
      BY <1>1, <2>1, <3>2
    <3> QED
      BY <3>1, <3>2
  <2>3. ASSUME NEW k \in 0..l PROVE Begins(k, l)
    <3>1. kept[k] \in Seq(S \cap T)
      BY <1>2
    <3>2. CASE k = l
      BY <3>1, <3>2
    <3>3. CASE k # l
      <4>1. k \in 0..(l - 1)
        BY <3>3
      <4>2. Begins(k, l - 1)
        BY <1>7, <4>1
      <4> QED
        BY <2>1, <2>2, <3>1, <4>2
    <3> QED
      BY <3>2, <3>3
  <2> HIDE DEF Begins
  <2> QED
    BY <2>1, <2>3
<1>8. \A l \in 0..n : l \in Ordered
  <2> HIDE DEF Ordered
  <2> QED
    BY <1>2, <1>6, <1>7, UpToInduction
<1> DEFINE out == Among(s, T)
<1>9. out \in Seq(S \cap T)
  <2>1. n \in 0..n
    BY <1>2
  <2> QED
    BY <1>1, <2>1
<1>10. Range(out) = Range(s) \cap T
  <2>1. n \in Whole
    BY <1>2, <1>5
  <2>2. All(n) = {out[j] : j \in 1..Len(out)}
    BY <1>1
  <2>3. Range(out) = {out[j] : j \in 1..Len(out)} /\ Range(s) = {s[i] : i \in 1..n}
    <3> HIDE DEF out
    <3> QED
      BY <1>9, RangeIs DEF n
  <2> HIDE DEF out, All
  <2> QED
    BY <2>1, <2>2, <2>3
<1>11. ASSUME NEW k \in 0..n
       PROVE  \E m \in 0..Len(out) : {out[j] : j \in 1..m} = {s[i] : i \in 1..k} \cap T
  <2> DEFINE v == kept[k]
  <2>1. v \in Seq(S \cap T) /\ n \in 0..n /\ k \in 0..n
    BY <1>2
  <2>2. n \in Ordered
    BY <1>8, <2>1
  <2>3. Len(v) <= Len(out) /\ \A j \in 1..Len(v) : out[j] = v[j]
    BY <1>1, <2>2
  <2>4. {v[j] : j \in 1..Len(v)} = {s[i] : i \in 1..k} \cap T
    BY <1>5
  <2> HIDE DEF v, out
  <2>5. Len(v) \in 0..Len(out)
    BY <1>9, <2>1, <2>3
  <2>6. {out[j] : j \in 1..Len(v)} = {v[j] : j \in 1..Len(v)}
    BY <2>3
  <2> QED
    BY <2>4, <2>5, <2>6
<1> QED
  BY <1>9, <1>10, <1>11 DEF n, KeepsThose

LEMMA AmongIs ==
  ASSUME NEW S, NEW s \in Seq(S), NEW T
  PROVE  Among(s, T) \in Seq(S \cap T) /\ Range(Among(s, T)) = Range(s) \cap T
<1>1. KeepsThose(Among(s, T), S, s, T)
  BY AmongKeeps
<1> QED
  BY <1>1 DEF KeepsThose

\* The same of FirstByKey.
KeptByKey(kept, S, s, key) ==
  /\ kept \in [0..Len(s) -> Seq(S)]
  /\ kept[0] = <<>> /\ kept[Len(s)] = FirstByKey(s, key)
  /\ \A k \in 1..Len(s) :
       kept[k] = IF \E i \in DOMAIN kept[k - 1] : key[kept[k - 1][i]] = key[s[k]]
                 THEN kept[k - 1] ELSE Append(kept[k - 1], s[k])

\* FirstByKey looks at one element at a time and takes it if its key is new.
LEMMA FirstByKeySteps ==
  ASSUME NEW S, NEW s \in Seq(S), NEW key
  PROVE  \E kept : KeptByKey(kept, S, s, key)
<1> DEFINE V == Seq(S)
    n == Len(s)
    Step(k, v) == IF \E i \in DOMAIN v : key[v[i]] = key[s[k]] THEN v ELSE Append(v, s[k])
    F == [k \in 1..n |-> [v \in V |-> Step(k, v)]]
    Is(it) == it = [r \in SUBSET DOMAIN s |->
                      IF r = {} THEN <<>> ELSE Step(Max(r), it[r \ {Max(r)}])]
<1>1. \A k \in 1..n, v \in V : Step(k, v) \in V
  OBVIOUS
<1>2. FirstByKey(s, key) = (CHOOSE it : Is(it))[DOMAIN s]
  BY DEF FirstByKey, FoldLeft, MapThenFoldSet
<1>3. n \in Nat /\ DOMAIN s = 1..n /\ <<>> \in V
  OBVIOUS
<1> HIDE DEF V, n, Step
<1>4. F \in [1..n -> [V -> V]]
  BY <1>1
<1>5. \E it : Is(it)
  <2>1. PICK it : Follows(it, n, V, <<>>, F)
    <3> HIDE DEF F
    <3> QED
      BY <1>3, <1>4, FoldExists
  <2>2. Is(it)
    BY <1>3, <2>1 DEF Follows
  <2> QED
    BY <2>2
<1>6. PICK it : Is(it) /\ FirstByKey(s, key) = it[1..n]
  BY <1>2, <1>3, <1>5, Zenon
<1> DEFINE kept == [k \in 0..n |-> it[1..k]]
<1>7. kept[0] = <<>> /\ kept[n] = FirstByKey(s, key)
  <2>1. 1..0 = {} /\ 0 \in 0..n /\ n \in 0..n
    BY <1>3
  <2>2. it[{}] = <<>>
    BY <1>3, <1>6
  <2> QED
    BY <1>6, <2>1, <2>2
<1>8. ASSUME NEW k \in 1..n PROVE kept[k] = Step(k, kept[k - 1])
  <2>1. /\ k - 1 \in 0..n /\ 1..k \in SUBSET (1..n) /\ 1..k # {}
        /\ Max(1..k) = k /\ (1..k) \ {Max(1..k)} = 1..(k - 1)
    BY <1>3, UpTo
  <2>2. it[1..k] = Step(Max(1..k), it[(1..k) \ {Max(1..k)}])
    BY <1>3, <1>6, <2>1
  <2>3. it[1..k] = Step(k, it[1..(k - 1)])
    BY <2>1, <2>2
  <2>4. kept[k] = it[1..k] /\ kept[k - 1] = it[1..(k - 1)]
    BY <1>3, <2>1
  <2> QED
    BY <2>3, <2>4
<1> HIDE DEF Is, F
<1>9. \A k \in 0..n : kept[k] \in V
  <2> DEFINE Good == {k \in 0..n : kept[k] \in V}
  <2>1. 0 \in Good
    BY <1>3, <1>7
  <2>2. \A k \in 1..n : k - 1 \in Good => k \in Good
    BY <1>1, <1>3, <1>8
  <2> HIDE DEF Good, kept
  <2>3. \A k \in 0..n : k \in Good
    BY <1>3, <2>1, <2>2, UpToInduction
  <2> QED
    BY <2>3 DEF Good
<1>10. kept \in [0..n -> V]
  BY <1>9
<1> HIDE DEF kept
<1> QED
  BY <1>7, <1>8, <1>10 DEF V, n, Step, KeptByKey

\* What FirstByKey has kept of the first k elements.
Firsts(v, s, k, key) ==
  /\ {key[v[j]] : j \in 1..Len(v)} = {key[s[i]] : i \in 1..k}
  /\ {v[j] : j \in 1..Len(v)} \subseteq {s[i] : i \in 1..k}
  /\ \A i, j \in 1..Len(v) : key[v[i]] = key[v[j]] => i = j

\* An element whose key is there already changes nothing ...
LEMMA OldKeyPassed ==
  ASSUME NEW v, NEW s, NEW key, NEW k \in Nat \ {0}, Firsts(v, s, k - 1, key),
         key[s[k]] \in {key[v[j]] : j \in 1..Len(v)}
  PROVE  Firsts(v, s, k, key)
<1> DEFINE Keys == {key[v[j]] : j \in 1..Len(v)}
    All == {v[j] : j \in 1..Len(v)}
    Before == {s[i] : i \in 1..(k - 1)}
<1>1. 1..k = 1..(k - 1) \cup {k}
  OBVIOUS
<1>2. {s[i] : i \in 1..k} = Before \cup {s[k]}
  BY <1>1
<1>3. {key[s[i]] : i \in 1..k} = {key[s[i]] : i \in 1..(k - 1)} \cup {key[s[k]]}
  BY <1>1
<1>4. Keys = {key[s[i]] : i \in 1..(k - 1)} /\ key[s[k]] \in Keys /\ All \subseteq Before
  BY DEF Firsts
<1>5. \A i, j \in 1..Len(v) : key[v[i]] = key[v[j]] => i = j
  BY DEF Firsts
<1> HIDE DEF Keys, All, Before
<1>6. Keys = {key[s[i]] : i \in 1..k}
  BY <1>3, <1>4
<1>7. All \subseteq {s[i] : i \in 1..k}
  BY <1>2, <1>4
<1> QED
  BY <1>5, <1>6, <1>7 DEF Firsts, Keys, All

\* ... and one with a new key goes to the end.
LEMMA NewKeyAppended ==
  ASSUME NEW v, NEW w, NEW s, NEW key, NEW k \in Nat \ {0}, NEW m \in Nat,
         Firsts(v, s, k - 1, key), Len(v) = m, Len(w) = m + 1,
         \A j \in 1..m : w[j] = v[j], w[m + 1] = s[k],
         \A j \in 1..m : key[v[j]] # key[s[k]]
  PROVE  Firsts(w, s, k, key)
<1>1. 1..k = 1..(k - 1) \cup {k} /\ 1..(m + 1) = 1..m \cup {m + 1}
  OBVIOUS
<1>2. {s[i] : i \in 1..k} = {s[i] : i \in 1..(k - 1)} \cup {s[k]}
  BY <1>1
<1>3. {key[s[i]] : i \in 1..k} = {key[s[i]] : i \in 1..(k - 1)} \cup {key[s[k]]}
  BY <1>1
<1>4. {w[j] : j \in 1..(m + 1)} = {w[j] : j \in 1..m} \cup {w[m + 1]}
  BY <1>1
<1>5. {key[w[j]] : j \in 1..(m + 1)} = {key[w[j]] : j \in 1..m} \cup {key[w[m + 1]]}
  BY <1>1
<1>6. {w[j] : j \in 1..m} = {v[j] : j \in 1..m}
  OBVIOUS
<1>7. {key[w[j]] : j \in 1..m} = {key[v[j]] : j \in 1..m}
  OBVIOUS
<1>8. /\ {key[v[j]] : j \in 1..m} = {key[s[i]] : i \in 1..(k - 1)}
      /\ {v[j] : j \in 1..m} \subseteq {s[i] : i \in 1..(k - 1)}
      /\ \A i, j \in 1..m : key[v[i]] = key[v[j]] => i = j
  BY DEF Firsts
<1>9. {key[w[j]] : j \in 1..(m + 1)} = {key[s[i]] : i \in 1..k}
  BY <1>3, <1>5, <1>7, <1>8, Zenon
<1>10. {w[j] : j \in 1..(m + 1)} \subseteq {s[i] : i \in 1..k}
  <2>1. {w[j] : j \in 1..(m + 1)} = {v[j] : j \in 1..m} \cup {s[k]}
    BY <1>4, <1>6, Zenon
  <2> DEFINE A == {v[j] : j \in 1..m}
      B == {s[i] : i \in 1..(k - 1)}
  <2>2. A \subseteq B
    BY <1>8
  <2>3. {w[j] : j \in 1..(m + 1)} = A \cup {s[k]} /\ {s[i] : i \in 1..k} = B \cup {s[k]}
    BY <1>2, <2>1
  <2> HIDE DEF A, B
  <2> QED
    BY <2>2, <2>3
<1>11. ASSUME NEW i \in 1..(m + 1), NEW j \in 1..(m + 1), key[w[i]] = key[w[j]] PROVE i = j
  <2>1. CASE i \in 1..m /\ j \in 1..m
    BY <1>8, <1>11, <2>1
  <2>2. CASE i = m + 1
    BY <1>1, <1>11, <2>2
  <2>3. CASE j = m + 1
    BY <1>1, <1>11, <2>3
  <2> QED
    BY <1>1, <2>1, <2>2, <2>3
<1> QED
  BY <1>9, <1>10, <1>11 DEF Firsts

\* Each key stays and stays once, in the order of the first with it: the
\* keys of the first k elements are those of the beginning of what stays.
KeepsKeys(out, S, s, key) ==
  /\ out \in Seq(S) /\ Range(out) \subseteq Range(s)
  /\ \A i, j \in 1..Len(out) : key[out[i]] = key[out[j]] => i = j
  /\ \A k \in 0..Len(s) : \E m \in 0..Len(out) :
       {key[out[j]] : j \in 1..m} = {key[s[i]] : i \in 1..k}

\* What is kept has each key once, and every key; see FirstByKeyIs.
LEMMA FirstByKeyKeeps ==
  ASSUME NEW S, NEW s \in Seq(S), NEW key
  PROVE  KeepsKeys(FirstByKey(s, key), S, s, key)
<1> DEFINE n == Len(s)
<1>0. PICK kept : KeptByKey(kept, S, s, key)
  BY FirstByKeySteps
<1>1. /\ kept[0] = <<>> /\ kept[n] = FirstByKey(s, key)
      /\ \A k \in 1..n :
           kept[k] = IF \E i \in DOMAIN kept[k - 1] : key[kept[k - 1][i]] = key[s[k]]
                     THEN kept[k - 1] ELSE Append(kept[k - 1], s[k])
  BY <1>0 DEF KeptByKey
<1>2. /\ n \in Nat /\ \A k \in 1..n : s[k] \in S
      /\ \A k \in 0..n : kept[k] \in Seq(S)
  <2>1. kept \in [0..n -> Seq(S)]
    BY <1>0 DEF KeptByKey
  <2> QED
    BY <2>1
<1> HIDE DEF n
<1> DEFINE Old(k) == \E i \in 1..Len(kept[k - 1]) : key[kept[k - 1][i]] = key[s[k]]
\* One step either keeps the list or appends an element with a new key.
<1>3. ASSUME NEW k \in 1..n
      PROVE  /\ k - 1 \in 0..n /\ k \in 0..n
             /\ Old(k) => kept[k] = kept[k - 1]
             /\ ~Old(k) => /\ Len(kept[k]) = Len(kept[k - 1]) + 1
                           /\ \A j \in 1..Len(kept[k - 1]) : kept[k][j] = kept[k - 1][j]
                           /\ kept[k][Len(kept[k - 1]) + 1] = s[k]
  <2>1. k - 1 \in 0..n /\ k \in 0..n
    BY <1>2
  <2> DEFINE v == kept[k - 1]
  <2>2. v \in Seq(S) /\ s[k] \in S
    BY <1>2, <2>1
  <2>3. kept[k] = IF \E i \in DOMAIN v : key[v[i]] = key[s[k]] THEN v ELSE Append(v, s[k])
    BY <1>1
  <2>4. Old(k) <=> \E i \in DOMAIN v : key[v[i]] = key[s[k]]
    BY <2>2
  <2> HIDE DEF v
  <2>5. /\ Len(Append(v, s[k])) = Len(v) + 1
        /\ \A j \in 1..Len(v) : Append(v, s[k])[j] = v[j]
        /\ Append(v, s[k])[Len(v) + 1] = s[k]
    BY <2>2, AllOfAppended
  <2> HIDE DEF Old
  <2> QED
    BY <2>1, <2>3, <2>4, <2>5 DEF v
<1> DEFINE Whole == {k \in 0..n : Firsts(kept[k], s, k, key)}
<1>4. 0 \in Whole
  <2>1. Len(kept[0]) = 0 /\ 0 \in 0..n
    BY <1>1, <1>2
  <2> QED
    BY <2>1 DEF Firsts
<1>5. ASSUME NEW k \in 1..n, k - 1 \in Whole PROVE k \in Whole
  <2> DEFINE v == kept[k - 1]
      w == kept[k]
      m == Len(v)
  <2>1. m \in Nat /\ k \in 0..n /\ k \in Nat \ {0} /\ Firsts(v, s, k - 1, key)
    BY <1>2, <1>3, <1>5
  <2>4. CASE Old(k)
    <3>1. w = v /\ key[s[k]] \in {key[v[j]] : j \in 1..Len(v)}
      BY <1>3, <2>4
    <3>2. Firsts(v, s, k, key)
      <4> HIDE DEF v, w, m
      <4> QED
        BY <2>1, <3>1, OldKeyPassed
    <3>3. Firsts(w, s, k, key)
      BY <3>1, <3>2, Zenon
    <3> QED
      BY <2>1, <3>3
  <2>5. CASE ~Old(k)
    <3>1. /\ Len(w) = m + 1 /\ w[m + 1] = s[k] /\ \A j \in 1..m : w[j] = v[j]
          /\ \A j \in 1..m : key[v[j]] # key[s[k]]
      BY <1>3, <2>5
    <3>2. Len(v) = m
      OBVIOUS
    <3>3. Firsts(w, s, k, key)
      <4> HIDE DEF v, w, m
      <4> QED
        BY <2>1, <3>1, <3>2, NewKeyAppended
    <3> QED
      BY <2>1, <3>3
  <2> QED
    BY <2>4, <2>5
<1>6. \A k \in 0..n : k \in Whole
  <2> HIDE DEF Whole
  <2> QED
    BY <1>2, <1>4, <1>5, UpToInduction
<1> DEFINE Begins(k, l) ==
      /\ Len(kept[k]) <= Len(kept[l])
      /\ \A j \in 1..Len(kept[k]) : kept[l][j] = kept[k][j]
    Ordered == {l \in 0..n : \A k \in 0..l : Begins(k, l)}
<1>7. 0 \in Ordered
  <2>1. kept[0] \in Seq(S) /\ 0 \in 0..n
    BY <1>2
  <2> QED
    BY <2>1
<1>8. ASSUME NEW l \in 1..n, l - 1 \in Ordered PROVE l \in Ordered
  <2>1. /\ l - 1 \in 0..n /\ l \in 0..n /\ kept[l - 1] \in Seq(S) /\ kept[l] \in Seq(S)
    BY <1>2
  <2>2. /\ Len(kept[l - 1]) <= Len(kept[l])
        /\ \A j \in 1..Len(kept[l - 1]) : kept[l][j] = kept[l - 1][j]
    BY <1>3, <2>1
  <2>3. ASSUME NEW k \in 0..l PROVE Begins(k, l)
    <3>1. kept[k] \in Seq(S)
      BY <1>2
    <3>2. CASE k = l
      BY <3>1, <3>2
    <3>3. CASE k # l
      <4>1. k \in 0..(l - 1)
        BY <3>3
      <4>2. Begins(k, l - 1)
        BY <1>8, <4>1
      <4> QED
        BY <2>1, <2>2, <3>1, <4>2
    <3> QED
      BY <3>2, <3>3
  <2> HIDE DEF Begins
  <2> QED
    BY <2>1, <2>3
<1>9. \A l \in 0..n : l \in Ordered
  <2> HIDE DEF Ordered
  <2> QED
    BY <1>2, <1>7, <1>8, UpToInduction
<1> DEFINE out == FirstByKey(s, key)
<1>10. /\ out \in Seq(S)
       /\ \A i, j \in 1..Len(out) : key[out[i]] = key[out[j]] => i = j
       /\ {out[j] : j \in 1..Len(out)} \subseteq {s[i] : i \in 1..n}
  <2>1. n \in 0..n
    BY <1>2
  <2>2. n \in Whole /\ kept[n] = out /\ kept[n] \in Seq(S)
    BY <1>1, <1>2, <1>6, <2>1
  <2> HIDE DEF out
  <2> QED
    BY <2>2 DEF Firsts
<1>11. Range(out) \subseteq Range(s)
  <2>1. Range(out) = {out[j] : j \in 1..Len(out)} /\ Range(s) = {s[i] : i \in 1..n}
    <3> HIDE DEF out
    <3> QED
      BY <1>10, RangeIs DEF n
  <2> HIDE DEF out
  <2> QED
    BY <1>10, <2>1
<1>12. ASSUME NEW k \in 0..n
       PROVE  \E m \in 0..Len(out) : {key[out[j]] : j \in 1..m} = {key[s[i]] : i \in 1..k}
  <2> DEFINE v == kept[k]
  <2>1. v \in Seq(S) /\ n \in 0..n /\ k \in 0..n
    BY <1>2
  <2>2. n \in Ordered
    BY <1>9, <2>1
  <2>3. Len(v) <= Len(out) /\ \A j \in 1..Len(v) : out[j] = v[j]
    BY <1>1, <2>2
  <2>4. {key[v[j]] : j \in 1..Len(v)} = {key[s[i]] : i \in 1..k}
    BY <1>6 DEF Firsts
  <2> HIDE DEF v, out
  <2>5. Len(v) \in 0..Len(out)
    BY <1>10, <2>1, <2>3
  <2>6. {key[out[j]] : j \in 1..Len(v)} = {key[v[j]] : j \in 1..Len(v)}
    BY <2>3
  <2> QED
    BY <2>4, <2>5, <2>6
<1> QED
  BY <1>10, <1>11, <1>12 DEF n, KeepsKeys

LEMMA FirstByKeyIs ==
  ASSUME NEW S, NEW s \in Seq(S), NEW key
  PROVE  /\ FirstByKey(s, key) \in Seq(S)
         /\ Range(FirstByKey(s, key)) \subseteq Range(s)
<1>1. KeepsKeys(FirstByKey(s, key), S, s, key)
  BY FirstByKeyKeeps
<1> QED
  BY <1>1 DEF KeepsKeys

-----------------------------------------------------------------------------
(***************************************************************************)
(* Routes.                                                                 *)
(***************************************************************************)
LEMMA OnlyOwnRoutes ==
  ASSUME NEW S, NEW s \in Seq(S)
  PROVE  Only(s, SameOriginOrRelative) \in Seq({x \in S : SameOriginOrRelative(x)})
<1> DEFINE T == {x \in Range(s) : SameOriginOrRelative(x)}
<1>1. Among(s, T) \in Seq(S \cap T)
  BY AmongIs
<1>2. S \cap T \subseteq {x \in S : SameOriginOrRelative(x)}
  OBVIOUS
<1>3. Only(s, SameOriginOrRelative) = Among(s, T)
  BY DEF Only
<1> HIDE DEF T
<1> QED
  BY <1>1, <1>2, <1>3, SeqOfMore

LEMMA DistinctRoutes ==
  ASSUME NEW S, NEW s \in Seq(S)
  PROVE  DistinctBy(s, LAMBDA r : r) \in Seq(S)
BY FirstByKeyIs DEF DistinctBy

Words == STRING \cup {"home", "self", "other", Redacted}
Urls == [site : Words, rooted : BOOLEAN, bad : BOOLEAN, long : BOOLEAN,
         path : Words, params : SUBSET [name : STRING, value : Words]]

\* A route is what RoutePath makes of a URL of the target's.
Routed(S) == {RoutePath(u) : u \in {x \in S : SameOriginOrRelative(x)}}

\* Routes are what RoutePath makes of URLs of the target.
LEMMA RoutesAreRouted ==
  ASSUME NEW S, NEW s \in Seq(S)
  PROVE  RoutesOf(s) \in Seq(Routed(S))
<1>1. Only(s, SameOriginOrRelative) \in Seq({x \in S : SameOriginOrRelative(x)})
  BY OnlyOwnRoutes
<1>2. Mapped(Only(s, SameOriginOrRelative), RoutePath) \in Seq(Routed(S))
  <2> DEFINE own == Only(s, SameOriginOrRelative)
  <2> HIDE DEF own
  <2>1. own \in Seq({x \in S : SameOriginOrRelative(x)})
    BY <1>1 DEF own
  <2>2. Mapped(own, RoutePath) \in Seq(Routed(S))
    BY <2>1 DEF Mapped, Routed
  <2> QED
    BY <2>2 DEF own
<1> QED
  BY <1>2, DistinctRoutes DEF RoutesOf

-----------------------------------------------------------------------------
(***************************************************************************)
(* The merged plan.                                                        *)
(***************************************************************************)
\* A route without a sensitive parameter.
CleanRoutes ==
  {r \in [path : Words, params : SUBSET [name : STRING, value : Words], long : BOOLEAN] :
     \A q \in r.params : q.name \notin SensitiveNames}

\* A mission of type t that keeps to its definition or to the policy.
Fits(m, t) ==
  /\ m.type = t /\ m.required = Defined[t].required /\ m.attempts = Defined[t].attempts
  /\ m.limits.pages \in 1..Max({Defined[t].limits.pages, setting.maxPages})
  /\ m.limits.links \in 0..Max({Defined[t].limits.links, setting.maxLinks})
  /\ m.limits.clicks \in 0..Max({Defined[t].limits.clicks, setting.maxClicks})
  /\ m.priority \in 1..100
  /\ m.routes \in Seq(CleanRoutes) /\ m.routes # <<>>

Types == Range(Baseline)

\* What the planner's accepted proposals make of a mission.
Told(accepted, t) ==
  LET mine == {i \in DOMAIN accepted : accepted[i].type = t}
  IN IF mine = {} THEN BaselineMission(t) ELSE accepted[Max(mine)]

\* The rows of missions, and those a plan may have.
MissionRecords ==
  [type : DOMAIN Defined, priority : Int, required : BOOLEAN, attempts : Nat,
   limits : [pages : Int, links : Int, clicks : Int],
   origin : {"baseline", "ai-prioritized"}, routes : Seq(CleanRoutes)]
Fitting == {m \in MissionRecords : m.type \in Types /\ Fits(m, m.type)}

Refusals == {"UNSUPPORTED_MISSION", "MISSION_DISABLED", "UNSAFE_ROUTE"}

\* A plan under construction: each mission is what the accepted proposals say.
Plans ==
  {plan \in [missions : Seq(Fitting), accepted : Seq(Fitting),
            rejected : Seq(Refusals)] :
     /\ Len(plan.missions) = Len(Baseline)
     /\ \A i \in 1..Len(Baseline) : plan.missions[i] = Told(plan.accepted, Baseline[i])}

MissionDefinitions ==
  [priority : 1..100, required : BOOLEAN, attempts : Nat \ {0},
   limits : [pages : Nat \ {0}, links : Nat, clicks : Nat]]

\* The table of missions is well formed.
LEMMA Definitions ==
  ASSUME NEW t \in DOMAIN Defined
  PROVE  Defined[t] \in MissionDefinitions
<1>1. t \in {"error-reviewer", "link-tester", "form-tester", "mobile-tester",
              "accessibility-reviewer", "interaction-tester", "autonomous-browser",
              "browser-swarm"}
  BY DEF Defined
<1>2. CASE t = "error-reviewer"
  BY <1>2 DEF Defined, Definition, MissionDefinitions
<1>3. CASE t = "link-tester"
  BY <1>3 DEF Defined, Definition, MissionDefinitions
<1>4. CASE t = "form-tester"
  BY <1>4 DEF Defined, Definition, MissionDefinitions
<1>5. CASE t = "mobile-tester"
  BY <1>5 DEF Defined, Definition, MissionDefinitions
<1>6. CASE t = "accessibility-reviewer"
  BY <1>6 DEF Defined, Definition, MissionDefinitions
<1>7. CASE t = "interaction-tester"
  BY <1>7 DEF Defined, Definition, MissionDefinitions
<1>8. CASE t = "autonomous-browser"
  BY <1>8 DEF Defined, Definition, MissionDefinitions
<1>9. CASE t = "browser-swarm"
  BY <1>9 DEF Defined, Definition, MissionDefinitions
<1> QED
  BY <1>1, <1>2, <1>3, <1>4, <1>5, <1>6, <1>7, <1>8, <1>9

\* The baseline plan has defined missions, each once.
LEMMA BaselineIsDefined ==
  ASSUME setting \in Settings
  PROVE  /\ Baseline \in Seq(DOMAIN Defined)
         /\ \A i, j \in 1..Len(Baseline) : Baseline[i] = Baseline[j] => i = j
<1>1. setting.preview \in BOOLEAN /\ setting.swarm \in BOOLEAN /\ setting.agent \in BOOLEAN
  BY DEF Settings
<1> DEFINE d == <<"error-reviewer", "link-tester", "form-tester", "mobile-tester",
                  "accessibility-reviewer", "interaction-tester">>
<1>2. CASE setting.preview
  BY <1>2 DEF Baseline, Defined
<1>3. CASE ~setting.preview /\ ~setting.swarm /\ ~setting.agent
  <2>1. Baseline = d
    BY <1>3 DEF Baseline, Given
  <2> QED
    BY <2>1 DEF Defined
<1>4. CASE ~setting.preview /\ setting.swarm
  <2>1. Baseline = d \o <<"browser-swarm">>
    BY <1>4 DEF Baseline
  <2>2. Baseline = Append(d, "browser-swarm")
    BY <2>1
  <2> QED
    BY <2>2 DEF Defined
<1>5. CASE ~setting.preview /\ ~setting.swarm /\ setting.agent
  <2>1. Baseline = d \o <<"autonomous-browser">>
    BY <1>5 DEF Baseline, Given
  <2>2. Baseline = Append(d, "autonomous-browser")
    BY <2>1
  <2> QED
    BY <2>2 DEF Defined
<1> QED
  BY <1>1, <1>2, <1>3, <1>4, <1>5

\* A proposal as it is once its answer fits the schema.
FittingProposals ==
  [type : DOMAIN Defined, priority : 1..100, routes : Seq(Urls),
   limits : [pages : SUBSET Int, links : SUBSET Int, clicks : SUBSET Int]]

LEMMA MaxOfTwo ==
  ASSUME NEW a \in Int, NEW b \in Int
  PROVE  /\ Max({a, b}) = IF a >= b THEN a ELSE b
         /\ Min({a, b}) = IF a >= b THEN b ELSE a
<1>1. \E x \in {a, b} : \A y \in {a, b} : x >= y
  OBVIOUS
<1>2. \E x \in {a, b} : \A y \in {a, b} : x =< y
  OBVIOUS
<1>3. Max({a, b}) \in {a, b} /\ \A y \in {a, b} : Max({a, b}) >= y
  BY <1>1, Zenon DEF Max
<1>4. Min({a, b}) \in {a, b} /\ \A y \in {a, b} : Min({a, b}) =< y
  BY <1>2, Zenon DEF Min
<1> QED
  BY <1>3, <1>4

\* Clamping keeps a number between the least and what the definition or the
\* policy allows.
LEMMA ClampStays ==
  ASSUME NEW proposed \in SUBSET Int, NEW low \in Nat, NEW high \in Nat,
         NEW own \in Nat, low <= own,
         NEW fallback \in low..Max({own, high})
  PROVE  Clamp(proposed, fallback, low, high) \in low..Max({own, high})
<1>1. CASE proposed = {}
  BY <1>1 DEF Clamp
<1>2. CASE proposed # {}
  <2> DEFINE n == CHOOSE x \in proposed : TRUE
  <2>1. n \in Int
    BY <1>2
  <2> HIDE DEF n
  <2>2. /\ Min({high, n}) \in Int /\ Min({high, n}) <= high
        /\ Max({own, high}) \in Int /\ Max({own, high}) >= high /\ Max({own, high}) >= own
    BY <2>1, MaxOfTwo
  <2>3. Max({low, Min({high, n})}) \in low..Max({own, high})
    BY <2>2, MaxOfTwo
  <2> QED
    BY <1>2, <2>3 DEF Clamp, n
<1> QED
  BY <1>1, <1>2

LEMMA RootIsClean == Root \in CleanRoutes /\ <<Root>> \in Seq(CleanRoutes) /\ <<Root>> # <<>>
<1>1. Root \in CleanRoutes
  BY DEF Root, CleanRoutes, Words
<1> QED
  BY <1>1

\* The mission nobody proposed anything for fits.
LEMMA BaselineFitsItself ==
  ASSUME setting \in Settings, NEW t \in Types
  PROVE  BaselineMission(t) \in Fitting /\ BaselineMission(t).type = t
<1>1. t \in DOMAIN Defined /\ Defined[t] \in MissionDefinitions
  BY BaselineIsDefined, RangeIs, Definitions DEF Types
<1>2. <<Root>> \in Seq(CleanRoutes) /\ <<Root>> # <<>>
  BY RootIsClean
<1>3. /\ setting.maxPages \in Nat /\ setting.maxLinks \in Nat /\ setting.maxClicks \in Nat
      /\ Defined[t].limits.pages \in Nat \ {0} /\ Defined[t].limits.links \in Nat
      /\ Defined[t].limits.clicks \in Nat
  BY <1>1 DEF Settings, MissionDefinitions
<1>4. /\ Defined[t].limits.pages \in 1..Max({Defined[t].limits.pages, setting.maxPages})
      /\ Defined[t].limits.links \in 0..Max({Defined[t].limits.links, setting.maxLinks})
      /\ Defined[t].limits.clicks \in 0..Max({Defined[t].limits.clicks, setting.maxClicks})
  BY <1>3, MaxOfTwo
<1>5. BaselineMission(t) \in MissionRecords
  <2>1. /\ Defined[t].priority \in Int /\ Defined[t].required \in BOOLEAN
        /\ Defined[t].attempts \in Nat
        /\ Defined[t].limits \in [pages : Int, links : Int, clicks : Int]
    BY <1>1 DEF MissionDefinitions
  <2> QED
    BY <1>1, <1>2, <2>1 DEF BaselineMission, MissionRecords
<1>6. Fits(BaselineMission(t), t)
  BY <1>1, <1>2, <1>4 DEF BaselineMission, Fits, MissionDefinitions
<1> QED
  BY <1>5, <1>6 DEF Fitting, BaselineMission

\* The last proposal accepted for a type is the one that tells.
LEMMA ToldGrows ==
  ASSUME NEW accepted \in Seq(Fitting), NEW m \in Fitting, NEW t
  PROVE  Told(Append(accepted, m), t) = IF m.type = t THEN m ELSE Told(accepted, t)
<1> DEFINE n == Len(accepted)
    more == Append(accepted, m)
    before == {i \in DOMAIN accepted : accepted[i].type = t}
    after == {i \in DOMAIN more : more[i].type = t}
<1>1. /\ n \in Nat /\ n + 1 \in Nat \ {0} /\ DOMAIN accepted = 1..n /\ DOMAIN more = 1..(n + 1)
      /\ more[n + 1] = m /\ \A i \in 1..n : more[i] = accepted[i]
  OBVIOUS
<1>2. CASE m.type = t
  <2>1. after \in SUBSET (1..(n + 1)) /\ n + 1 \in after
    BY <1>1, <1>2
  <2>2. Max(after) = n + 1 /\ after # {}
    BY <1>1, <2>1, MaxOfUpTo
  <2> QED
    BY <1>1, <1>2, <2>2 DEF Told
<1>3. CASE m.type # t
  <2>1. after = before
    BY <1>1, <1>3
  <2>2. before # {} => Max(before) \in 1..n
    BY <1>1, MaxIsThere
  <2> QED
    BY <1>1, <1>3, <2>1, <2>2 DEF Told
<1> QED
  BY <1>2, <1>3

\* What the accepted proposals tell of a type is a mission of that type.
LEMMA ToldFits ==
  ASSUME setting \in Settings, NEW accepted \in Seq(Fitting), NEW t \in Types
  PROVE  Told(accepted, t) \in Fitting /\ Told(accepted, t).type = t
<1> DEFINE mine == {i \in DOMAIN accepted : accepted[i].type = t}
<1>1. CASE mine = {}
  BY <1>1, BaselineFitsItself DEF Told
<1>2. CASE mine # {}
  <2>1. Max(mine) \in mine
    <3>1. Len(accepted) \in Nat /\ mine \in SUBSET (1..Len(accepted))
      OBVIOUS
    <3> HIDE DEF mine
    <3> QED
      BY <1>2, <3>1, MaxIsThere
  <2> QED
    BY <1>2, <2>1 DEF Told
<1> QED
  BY <1>1, <1>2

\* A mission with what a proposal may change.
With(m, priority, limits, origin, routes) ==
  [m EXCEPT !.priority = priority, !.limits = limits, !.origin = origin, !.routes = routes]

LEMMA MissionWith ==
  ASSUME NEW m \in MissionRecords, NEW priority, NEW limits, NEW origin, NEW routes
  PROVE  With(m, priority, limits, origin, routes) =
         [type |-> m.type, priority |-> priority, required |-> m.required,
          attempts |-> m.attempts, limits |-> limits, origin |-> origin, routes |-> routes]
<1> DEFINE fields == {"type", "priority", "required", "attempts", "limits", "origin",
                      "routes"}
    with == [m EXCEPT !.priority = priority, !.limits = limits, !.origin = origin,
                      !.routes = routes]
<1>1. m = [x \in fields |-> m[x]]
  BY DEF MissionRecords
<1>2. with = [x \in fields |-> with[x]]
  BY <1>1
<1>3. /\ with.priority = priority /\ with.limits = limits /\ with.origin = origin
      /\ with.routes = routes /\ with.type = m.type /\ with.required = m.required
      /\ with.attempts = m.attempts
  BY <1>1
<1> DEFINE r == [type |-> m.type, priority |-> priority, required |-> m.required,
                 attempts |-> m.attempts, limits |-> limits, origin |-> origin,
                 routes |-> routes]
<1>4. r = [x \in fields |-> r[x]]
  OBVIOUS
<1>5. \A x \in fields : with[x] = r[x]
  <2> HIDE DEF with
  <2> QED
    BY <1>3
<1>6. with = r
  <2> HIDE DEF with, r, fields
  <2> QED
    BY <1>2, <1>4, <1>5
<1> QED
  BY <1>6 DEF With

\* A proposal that is not refused makes a mission that fits of one that does.
LEMMA MergedFits ==
  ASSUME setting \in Settings, NEW p \in FittingProposals, Refusal(p) = "none",
         NEW m \in Fitting, m.type = p.type
  PROVE  MergedMission(m, p) \in Fitting /\ MergedMission(m, p).type = p.type
<1> DEFINE t == p.type
    merged == MergedMission(m, p)
    own == Defined[t].limits
<1>1. /\ t \in Types /\ t \in DOMAIN Defined /\ Defined[t] \in MissionDefinitions
      /\ m \in MissionRecords /\ Fits(m, t)
      /\ setting.maxPages \in Nat /\ setting.maxLinks \in Nat /\ setting.maxClicks \in Nat
      /\ setting.maxRoutes \in Nat
  BY Definitions DEF FittingProposals, Fitting, Settings
<1>2. /\ own.pages \in Nat \ {0} /\ own.links \in Nat /\ own.clicks \in Nat
  BY <1>1 DEF MissionDefinitions
<1>3. /\ p.limits.pages \in SUBSET Int /\ p.limits.links \in SUBSET Int
      /\ p.limits.clicks \in SUBSET Int /\ p.routes \in Seq(Urls) /\ p.priority \in 1..100
  BY DEF FittingProposals
<1>4. /\ Clamp(p.limits.pages, m.limits.pages, 1, setting.maxPages)
           \in 1..Max({own.pages, setting.maxPages})
      /\ Clamp(p.limits.links, m.limits.links, 0, setting.maxLinks)
           \in 0..Max({own.links, setting.maxLinks})
      /\ Clamp(p.limits.clicks, m.limits.clicks, 0, setting.maxClicks)
           \in 0..Max({own.clicks, setting.maxClicks})
  <2>1. /\ m.limits.pages \in 1..Max({own.pages, setting.maxPages})
        /\ m.limits.links \in 0..Max({own.links, setting.maxLinks})
        /\ m.limits.clicks \in 0..Max({own.clicks, setting.maxClicks})
    BY <1>1 DEF Fits
  <2>2. 1 \in Nat /\ 0 \in Nat /\ 1 <= own.pages /\ 0 <= own.links /\ 0 <= own.clicks
    BY <1>2
  <2> HIDE DEF own
  <2> QED
    BY <1>1, <1>2, <1>3, <2>1, <2>2, ClampStays
<1>5. Clamp({p.priority}, m.priority, 1, 100) \in 1..100
  <2>1. Max({1, 100}) = 100 /\ m.priority \in 1..100
    BY <1>1, MaxOfTwo DEF Fits
  <2>2. {p.priority} \in SUBSET Int
    <3> HIDE DEF merged, own
    <3>1. p.priority \in 1..100
      BY <1>3
    <3> QED
      BY <3>1
  <2>3. m.priority \in 1..Max({1, 100})
    BY <2>1
  <2>4. Clamp({p.priority}, m.priority, 1, 100) \in 1..Max({1, 100})
    BY <2>2, <2>3, ClampStays
  <2> QED
    BY <2>1, <2>4
<1>6. LET routes == IF ProposedRoutes(p) = <<>> THEN <<Root>> ELSE ProposedRoutes(p)
      IN routes \in Seq(CleanRoutes) /\ routes # <<>>
  <2>2. ProposedRoutes(p) \in Seq(CleanRoutes)
    <3>1. RoutesOf(p.routes) \in Seq(Routed(Urls))
      BY <1>3, RoutesAreRouted
    <3>2. Routed(Urls) \subseteq CleanRoutes
      BY DEF Routed, RoutePath, Urls, CleanRoutes
    <3>3. RoutesOf(p.routes) \in Seq(CleanRoutes)
      BY <3>1, <3>2
    <3> QED
      BY <1>1, <3>3, FirstOfStays DEF ProposedRoutes
  <2>3. <<Root>> \in Seq(CleanRoutes) /\ <<Root>> # <<>>
    BY RootIsClean
  <2> QED
    BY <2>2, <2>3
<1> DEFINE priority == Clamp({p.priority}, m.priority, 1, 100)
    limits == [pages  |-> Clamp(p.limits.pages, m.limits.pages, 1, setting.maxPages),
               links  |-> Clamp(p.limits.links, m.limits.links, 0, setting.maxLinks),
               clicks |-> Clamp(p.limits.clicks, m.limits.clicks, 0, setting.maxClicks)]
    routes == IF ProposedRoutes(p) = <<>> THEN <<Root>> ELSE ProposedRoutes(p)
<1>7. merged = [type |-> m.type, priority |-> priority, required |-> m.required,
                attempts |-> m.attempts, limits |-> limits, origin |-> "ai-prioritized",
                routes |-> routes]
  <2>1. merged = With(m, priority, limits, "ai-prioritized", routes)
    BY DEF MergedMission, With
  <2>2. m \in MissionRecords
    BY <1>1
  <2> HIDE DEF merged, priority, limits, routes
  <2> QED
    BY <2>1, <2>2, MissionWith
<1>8. /\ limits \in [pages : Int, links : Int, clicks : Int]
      /\ limits.pages \in 1..Max({own.pages, setting.maxPages})
      /\ limits.links \in 0..Max({own.links, setting.maxLinks})
      /\ limits.clicks \in 0..Max({own.clicks, setting.maxClicks})
  <2>1. /\ Max({own.pages, setting.maxPages}) \in Int
        /\ Max({own.links, setting.maxLinks}) \in Int
        /\ Max({own.clicks, setting.maxClicks}) \in Int
    BY <1>1, <1>2, MaxOfTwo
  <2> QED
    BY <1>4, <2>1
<1>9. /\ m.type \in DOMAIN Defined /\ m.required \in BOOLEAN /\ m.attempts \in Nat
      /\ m.type = t /\ m.required = Defined[t].required /\ m.attempts = Defined[t].attempts
  BY <1>1 DEF MissionRecords, Fits
<1> HIDE DEF merged, priority, limits, routes, own
<1>10. merged \in MissionRecords
  BY <1>5, <1>6, <1>7, <1>8, <1>9 DEF MissionRecords, priority, routes
<1>11. merged.type = t /\ Fits(merged, t)
  BY <1>5, <1>6, <1>7, <1>8, <1>9 DEF Fits, priority, routes, own
<1> QED
  BY <1>1, <1>10, <1>11 DEF Fitting, merged

LEMMA PlansAre ==
  ASSUME NEW missions \in Seq(Fitting), NEW accepted \in Seq(Fitting),
         NEW rejected \in Seq(Refusals), Len(missions) = Len(Baseline),
         \A k \in 1..Len(Baseline) : missions[k] = Told(accepted, Baseline[k])
  PROVE  [missions |-> missions, accepted |-> accepted, rejected |-> rejected] \in Plans
<1> DEFINE plan == [missions |-> missions, accepted |-> accepted, rejected |-> rejected]
<1>1. /\ plan \in [missions : Seq(Fitting), accepted : Seq(Fitting), rejected : Seq(Refusals)]
      /\ plan.missions = missions /\ plan.accepted = accepted
  OBVIOUS
<1> HIDE DEF plan
<1>2. plan \in Plans
  BY <1>1 DEF Plans
<1> QED
  BY <1>2 DEF plan

LEMMA PlanWith ==
  ASSUME NEW plan \in Plans, NEW missions, NEW accepted, NEW rejected
  PROVE  /\ [plan EXCEPT !.rejected = rejected] =
              [missions |-> plan.missions, accepted |-> plan.accepted, rejected |-> rejected]
         /\ [plan EXCEPT !.missions = missions, !.accepted = accepted] =
              [missions |-> missions, accepted |-> accepted, rejected |-> plan.rejected]
         /\ [plan EXCEPT !.missions = missions] =
              [missions |-> missions, accepted |-> plan.accepted, rejected |-> plan.rejected]
<1>1. plan = [missions |-> plan.missions, accepted |-> plan.accepted,
              rejected |-> plan.rejected]
  BY DEF Plans
<1> DEFINE a == plan.missions
    b == plan.accepted
    c == plan.rejected
<1> HIDE DEF a, b, c
<1>2. plan = [missions |-> a, accepted |-> b, rejected |-> c]
  BY <1>1 DEF a, b, c
<1>3. [plan EXCEPT !.rejected = rejected] =
        [missions |-> a, accepted |-> b, rejected |-> rejected]
  BY <1>2
<1>4. [plan EXCEPT !.missions = missions] =
        [missions |-> missions, accepted |-> b, rejected |-> c]
  BY <1>2
<1>5. [plan EXCEPT !.missions = missions, !.accepted = accepted] =
        [missions |-> missions, accepted |-> accepted, rejected |-> c]
  <2>1. [plan EXCEPT !.missions = missions, !.accepted = accepted] =
          [[plan EXCEPT !.missions = missions] EXCEPT !.accepted = accepted]
    OBVIOUS
  <2>2. [[missions |-> missions, accepted |-> b, rejected |-> c] EXCEPT !.accepted = accepted] =
          [missions |-> missions, accepted |-> accepted, rejected |-> c]
    OBVIOUS
  <2> QED
    BY <1>4, <2>1, <2>2, Zenon
<1> QED
  BY <1>3, <1>4, <1>5 DEF a, b, c

\* A proposal that is merged, or refused, leaves a plan.
LEMMA MergeStays ==
  ASSUME setting \in Settings, NEW plan \in Plans, NEW p \in FittingProposals
  PROVE  MergeProposal(plan, p) \in Plans
<1> DEFINE n == Len(Baseline)
<1>1. /\ plan.missions \in Seq(Fitting) /\ plan.accepted \in Seq(Fitting)
      /\ plan.rejected \in Seq(Refusals) /\ Len(plan.missions) = n /\ n \in Nat
      /\ \A k \in 1..n : plan.missions[k] = Told(plan.accepted, Baseline[k])
  BY BaselineIsDefined DEF Plans, Refusals
<1>2. CASE Refusal(p) # "none"
  <2>1. Refusal(p) \in Refusals
    BY <1>2 DEF Refusal, Refusals
  <2>2. Append(plan.rejected, Refusal(p)) \in Seq(Refusals)
    BY <1>1, <2>1
  <2>3. MergeProposal(plan, p) =
          [missions |-> plan.missions, accepted |-> plan.accepted,
           rejected |-> Append(plan.rejected, Refusal(p))]
    BY <1>2, PlanWith DEF MergeProposal
  <2> QED
    BY <1>1, <2>2, <2>3, PlansAre
<1>3. CASE Refusal(p) = "none"
  <2> DEFINE i == CHOOSE k \in DOMAIN plan.missions : plan.missions[k].type = p.type
      merged == MergedMission(plan.missions[i], p)
      missions == [plan.missions EXCEPT ![i] = merged]
      accepted == Append(plan.accepted, merged)
  <2>1. \A k \in 1..n : Baseline[k] \in Types /\ plan.missions[k].type = Baseline[k]
    <3>1. \A k \in 1..n : Baseline[k] \in Types
      BY BaselineIsDefined, RangeIs DEF Types
    <3> QED
      BY <1>1, <3>1, ToldFits
  <2>2. \E k \in DOMAIN plan.missions : plan.missions[k].type = p.type
    <3>1. p.type \in Range(Baseline)
      BY <1>3 DEF Refusal
    <3>2. \E k \in 1..n : Baseline[k] = p.type
      BY <3>1, BaselineIsDefined, RangeIs
    <3>3. DOMAIN plan.missions = 1..n
      BY <1>1
    <3> QED
      BY <2>1, <3>2, <3>3
  <2>3. i \in DOMAIN plan.missions /\ plan.missions[i].type = p.type
    BY <2>2
  <2> HIDE DEF i
  <2>4. i \in 1..n /\ Baseline[i] = p.type /\ plan.missions[i] \in Fitting
    BY <1>1, <2>1, <2>3
  <2>5. merged \in Fitting /\ merged.type = p.type
    BY <1>3, <2>3, <2>4, MergedFits
  <2>6. MergeProposal(plan, p) =
          [missions |-> missions, accepted |-> accepted, rejected |-> plan.rejected]
    <3>1. MergeProposal(plan, p) =
            [plan EXCEPT !.missions[i] = merged, !.accepted = Append(@, merged)]
      BY <1>3 DEF MergeProposal, i
    <3>2. [plan EXCEPT !.missions[i] = merged, !.accepted = Append(@, merged)] =
            [plan EXCEPT !.missions = missions, !.accepted = accepted]
      OBVIOUS
    <3> HIDE DEF missions, accepted, merged
    <3> QED
      BY <3>1, <3>2, PlanWith
  <2> HIDE DEF merged
  <2>7. missions \in Seq(Fitting) /\ accepted \in Seq(Fitting) /\ Len(missions) = n
    BY <1>1, <2>4, <2>5
  <2>8. ASSUME NEW k \in 1..n PROVE missions[k] = Told(accepted, Baseline[k])
    <3>1. Told(accepted, Baseline[k]) =
            IF merged.type = Baseline[k] THEN merged ELSE Told(plan.accepted, Baseline[k])
      BY <1>1, <2>5, ToldGrows
    <3>2. Baseline[k] = Baseline[i] => k = i
      BY <2>4, BaselineIsDefined
    <3>3. missions[k] = IF k = i THEN merged ELSE plan.missions[k]
      BY <1>1, <2>4
    <3> QED
      BY <1>1, <2>4, <2>5, <3>1, <3>2, <3>3
  <2> HIDE DEF missions, accepted
  <2> QED
    BY <1>1, <2>6, <2>7, <2>8, PlansAre
<1> QED
  BY <1>2, <1>3

\* What the planner proposes is merged one proposal at a time.
LEMMA ProposalsMerge ==
  ASSUME setting \in Settings, NEW base \in Plans, NEW s \in Seq(FittingProposals)
  PROVE  FoldLeft(MergeProposal, base, s) \in Plans
<1> DEFINE V == Plans
    n == Len(s)
    Step(k, kept) == MergeProposal(kept, s[k])
    F == [k \in 1..n |-> [v \in V |-> Step(k, v)]]
    Is(it) == it = [r \in SUBSET DOMAIN s |->
                      IF r = {} THEN base ELSE Step(Max(r), it[r \ {Max(r)}])]
<1>1. \A k \in 1..n, v \in V : Step(k, v) \in V
  BY MergeStays
<1>2. FoldLeft(MergeProposal, base, s) = (CHOOSE it : Is(it))[DOMAIN s]
  BY DEF FoldLeft, MapThenFoldSet
<1>3. n \in Nat /\ DOMAIN s = 1..n /\ base \in V
  OBVIOUS
<1> HIDE DEF V, n, Step
<1>4. F \in [1..n -> [V -> V]]
  BY <1>1
<1>5. \E it : Is(it)
  <2>1. PICK it : Follows(it, n, V, base, F)
    <3> HIDE DEF F
    <3> QED
      BY <1>3, <1>4, FoldExists
  <2> QED
    BY <1>3, <2>1 DEF Follows
<1>6. PICK it : Is(it) /\ FoldLeft(MergeProposal, base, s) = it[1..n]
  BY <1>2, <1>3, <1>5, Zenon
<1>7. ASSUME NEW r \in SUBSET (1..n), r # {}, it[r \ {Max(r)}] \in V PROVE it[r] \in V
  <2>1. Max(r) \in r /\ it[r] = Step(Max(r), it[r \ {Max(r)}])
    BY <1>3, <1>6, <1>7, MaxIsThere
  <2> QED
    BY <1>1, <1>7, <2>1
<1>8. it[1..n] \in V
  <2>1. it[{}] \in V
    BY <1>3, <1>6
  <2> HIDE DEF F, Is
  <2> QED
    BY <1>3, <1>7, <2>1, FoldStays
<1> QED
  BY <1>6, <1>8 DEF V

\* Inserting adds the element and loses none.
LEMMA InsertedIsThere ==
  ASSUME NEW S, NEW s \in Seq(S), NEW e \in S, NEW i \in 1..(Len(s) + 1)
  PROVE  /\ InsertAt(s, i, e) \in Seq(S)
         /\ \E k \in DOMAIN InsertAt(s, i, e) : InsertAt(s, i, e)[k] = e
         /\ \A j \in DOMAIN s : \E k \in DOMAIN InsertAt(s, i, e) : InsertAt(s, i, e)[k] = s[j]
<1> DEFINE n == Len(s)
    before == SubSeq(s, 1, i - 1)
    after == SubSeq(s, i, n)
    more == before \o <<e>>
    all == more \o after
<1>1. InsertAt(s, i, e) = all
  BY Zenon DEF InsertAt
<1>2. /\ n \in Nat /\ before \in Seq(S) /\ after \in Seq(S)
      /\ Len(before) = i - 1 /\ Len(after) = n - i + 1
      /\ \A k \in 1..(i - 1) : before[k] = s[k]
      /\ \A k \in 1..(n - i + 1) : after[k] = s[i + k - 1]
  OBVIOUS
<1>3. /\ more \in Seq(S) /\ Len(more) = i /\ more[i] = e
      /\ \A k \in 1..(i - 1) : more[k] = s[k]
  <2> HIDE DEF before, after
  <2>1. <<e>> \in Seq(S) /\ Len(<<e>>) = 1 /\ (<<e>>)[1] = e
    OBVIOUS
  <2> DEFINE one == <<e>>
  <2>2. one \in Seq(S) /\ Len(one) = 1 /\ one[1] = e
    BY <2>1
  <2>3. more = before \o one
    OBVIOUS
  <2> HIDE DEF more, one
  <2>4. /\ more \in Seq(S) /\ Len(more) = Len(before) + Len(one)
        /\ \A k \in 1..(Len(before) + Len(one)) :
             more[k] = IF k <= Len(before) THEN before[k] ELSE one[k - Len(before)]
    BY <1>2, <2>2, <2>3, ConcatProperties
  <2>5. Len(more) = i /\ \A k \in 1..i :
             more[k] = IF k <= i - 1 THEN before[k] ELSE one[k - (i - 1)]
    BY <1>2, <2>2, <2>4
  <2>6. more[i] = e
    BY <1>2, <2>2, <2>5
  <2> QED
    BY <1>2, <2>4, <2>5, <2>6
<1> HIDE DEF before, after, more
<1>4. all \in Seq(S) /\ Len(all) = n + 1 /\ DOMAIN all = 1..(n + 1)
  <2>1. /\ all \in Seq(S) /\ Len(all) = Len(more) + Len(after)
    BY <1>2, <1>3, ConcatProperties
  <2>2. Len(all) = n + 1
    BY <1>2, <1>3, <2>1
  <2> HIDE DEF all
  <2> QED
    BY <2>1, <2>2
<1>5. /\ \A k \in 1..i : all[k] = more[k]
      /\ \A k \in (i + 1)..(n + 1) : all[k] = after[k - i]
  BY <1>2, <1>3
<1> HIDE DEF all
<1>6. all[i] = e /\ i \in DOMAIN all
  BY <1>3, <1>4, <1>5
<1>7. ASSUME NEW j \in DOMAIN s PROVE \E k \in DOMAIN all : all[k] = s[j]
  <2>1. j \in 1..n
    OBVIOUS
  <2>2. CASE j < i
    <3>1. j \in 1..(i - 1) /\ j \in 1..i /\ j \in 1..(n + 1)
      BY <1>2, <2>1, <2>2
    <3> QED
      BY <1>3, <1>4, <1>5, <3>1
  <2>3. CASE j >= i
    <3>0. n \in Nat /\ i \in Nat /\ j \in Nat /\ i >= 1 /\ j <= n
      BY <1>2, <2>1
    <3>1. j + 1 \in (i + 1)..(n + 1) /\ j + 1 - i \in 1..(n - i + 1) /\ i + (j + 1 - i) - 1 = j
      <4> HIDE DEF n
      <4> QED
        BY <2>3, <3>0
    <3>2. all[j + 1] = after[j + 1 - i]
      BY <1>5, <3>1
    <3>3. after[j + 1 - i] = s[j]
      BY <1>2, <3>1
    <3>4. j + 1 \in DOMAIN all
      BY <1>2, <1>4, <3>1
    <3> QED
      BY <3>2, <3>3, <3>4
  <2> QED
    BY <2>1, <2>2, <2>3
<1> QED
  BY <1>1, <1>4, <1>6, <1>7

\* Sorting loses no mission and makes none.
LEMMA SortingKeeps ==
  ASSUME NEW S, NEW s \in Seq(S)
  PROVE  /\ ByPriority(s) \in Seq(S)
         /\ \A j \in 1..Len(s) : \E k \in DOMAIN ByPriority(s) : ByPriority(s)[k] = s[j]
<1> DEFINE V == Seq(S)
    n == Len(s)
    Place(sorted, m) == Cardinality({i \in DOMAIN sorted : sorted[i].priority <= m.priority}) + 1
    Step(k, sorted) == InsertAt(sorted, Place(sorted, s[k]), s[k])
    F == [k \in 1..n |-> [v \in V |-> Step(k, v)]]
    Is(it) == it = [r \in SUBSET DOMAIN s |->
                      IF r = {} THEN <<>> ELSE Step(Max(r), it[r \ {Max(r)}])]
<1>1. ASSUME NEW v \in V, NEW m PROVE Place(v, m) \in 1..(Len(v) + 1)
  <2> DEFINE before == {i \in DOMAIN v : v[i].priority <= m.priority}
  <2>1. before \subseteq 1..Len(v) /\ Len(v) \in Nat
    OBVIOUS
  <2> HIDE DEF before
  <2>2. IsFiniteSet(1..Len(v)) /\ Cardinality(1..Len(v)) = Len(v)
    <3> DEFINE l == Len(v)
    <3>1. 1 \in Int /\ l \in Int /\ l \in Nat
      BY <2>1
    <3> HIDE DEF l
    <3>2. IsFiniteSet(1..l) /\ Cardinality(1..l) = IF 1 > l THEN 0 ELSE l - 1 + 1
      BY <3>1, FS_Interval, Zenon
    <3>3. Cardinality(1..l) = l
      BY <3>1, <3>2
    <3> QED
      BY <3>2, <3>3 DEF l
  <2>3. IsFiniteSet(before) /\ Cardinality(before) <= Len(v) /\ Cardinality(before) \in Nat
    BY <2>1, <2>2, FS_Subset, FS_CardinalityType
  <2>4. Cardinality(before) + 1 \in 1..(Len(v) + 1)
    BY <2>1, <2>3
  <2> QED
    BY <2>4 DEF before
<1>2. ASSUME NEW k \in 1..n, NEW v \in V
      PROVE  /\ Step(k, v) \in V
             /\ \E i \in DOMAIN Step(k, v) : Step(k, v)[i] = s[k]
             /\ \A j \in DOMAIN v : \E i \in DOMAIN Step(k, v) : Step(k, v)[i] = v[j]
  <2>1. s[k] \in S /\ Place(v, s[k]) \in 1..(Len(v) + 1)
    BY <1>1
  <2> HIDE DEF Place
  <2> QED
    BY <2>1, InsertedIsThere
<1>3. ByPriority(s) = (CHOOSE it : Is(it))[DOMAIN s]
  BY DEF ByPriority, FoldLeft, MapThenFoldSet
<1>4. n \in Nat /\ DOMAIN s = 1..n /\ <<>> \in V
  OBVIOUS
<1> HIDE DEF V, n, Step
<1>5. F \in [1..n -> [V -> V]]
  BY <1>2
<1>6. \E it : Is(it)
  <2>1. PICK it : Follows(it, n, V, <<>>, F)
    <3> HIDE DEF F
    <3> QED
      BY <1>4, <1>5, FoldExists
  <2> QED
    BY <1>4, <2>1 DEF Follows
<1>7. PICK it : Is(it) /\ ByPriority(s) = it[1..n]
  BY <1>3, <1>4, <1>6, Zenon
<1> DEFINE There(k, v) == \A j \in 1..k : \E i \in DOMAIN v : v[i] = s[j]
    Good == {k \in 0..n : it[1..k] \in V /\ There(k, it[1..k])}
<1>8. 0 \in Good
  <2>1. 0 \in 0..n /\ 1..0 = {} /\ \A j \in 1..0 : FALSE
    BY <1>4
  <2>2. it[{}] = <<>>
    BY <1>4, <1>7
  <2> QED
    BY <1>4, <2>1, <2>2
<1>9. ASSUME NEW k \in 1..n, k - 1 \in Good PROVE k \in Good
  <2>1. /\ 1..k \in SUBSET (1..n) /\ 1..k # {} /\ Max(1..k) = k
        /\ (1..k) \ {Max(1..k)} = 1..(k - 1)
    BY <1>4, UpTo
  <2>2. it[1..k] = Step(k, it[1..(k - 1)])
    <3>1. it[1..k] = Step(Max(1..k), it[(1..k) \ {Max(1..k)}])
      BY <1>4, <1>7, <2>1
    <3> QED
      BY <2>1, <3>1
  <2> DEFINE v == it[1..(k - 1)]
      w == it[1..k]
  <2>3. v \in V /\ There(k - 1, v) /\ k \in 0..n
    BY <1>4, <1>9
  <2> HIDE DEF v, w
  <2>4. /\ w \in V /\ \E i \in DOMAIN w : w[i] = s[k]
        /\ \A j \in DOMAIN v : \E i \in DOMAIN w : w[i] = v[j]
    BY <1>2, <2>2, <2>3 DEF v, w
  <2>5. There(k, w)
    <3> SUFFICES ASSUME NEW j \in 1..k PROVE \E i \in DOMAIN w : w[i] = s[j]
      OBVIOUS
    <3>1. j = k \/ j \in 1..(k - 1)
      OBVIOUS
    <3>2. CASE j = k
      BY <2>4, <3>2
    <3>3. CASE j \in 1..(k - 1)
      <4>1. PICK l \in DOMAIN v : v[l] = s[j]
        BY <2>3, <3>3
      <4> QED
        BY <2>4, <4>1
    <3> QED
      BY <3>1, <3>2, <3>3
  <2> HIDE DEF There
  <2> QED
    BY <2>3, <2>4, <2>5 DEF w
<1> HIDE DEF Good
<1>10. n \in Good
  <2>1. \A k \in 0..n : k \in Good
    BY <1>4, <1>8, <1>9, UpToInduction
  <2> QED
    BY <1>4, <2>1
<1> QED
  BY <1>7, <1>10 DEF Good, V, n

LEMMA FoldOfNothing ==
  ASSUME NEW base
  PROVE  FoldLeft(MergeProposal, base, <<>>) = base
<1> DEFINE n == 0
    F == [k \in 1..0 |-> [v \in {base} |-> v]]
    Step(k, v) == MergeProposal(v, (<<>>)[k])
    Is(it) == it = [r \in SUBSET DOMAIN <<>> |->
                      IF r = {} THEN base ELSE Step(Max(r), it[r \ {Max(r)}])]
<1>1. FoldLeft(MergeProposal, base, <<>>) = (CHOOSE it : Is(it))[DOMAIN <<>>]
  BY DEF FoldLeft, MapThenFoldSet
<1>2. DOMAIN <<>> = {}
  OBVIOUS
<1> HIDE DEF Step
<1>3. Is([r \in SUBSET {} |-> base])
  <2>1. \A r \in SUBSET {} : r = {}
    OBVIOUS
  <2> QED
    BY <1>2, <2>1
<1>4. PICK it : Is(it) /\ FoldLeft(MergeProposal, base, <<>>) = it[{}]
  BY <1>1, <1>2, <1>3, Zenon
<1> QED
  BY <1>2, <1>4

\* What is asked of the plan that is persisted.
PlanHolds(accepted, missions) ==
  /\ accepted \in Seq(Fitting) /\ missions \in Seq(Fitting)
  /\ \A k \in 1..Len(missions) : missions[k] = Told(accepted, missions[k].type)
  /\ \A t \in Types : \E k \in 1..Len(missions) : missions[k].type = t

\* The merged plan has every mission of the baseline and keeps to the policy.
LEMMA MergedPlanHolds ==
  ASSUME setting \in Settings, output # <<>> => output[1] \in Seq(FittingProposals)
  PROVE  /\ PlanHolds(MergedPlan.accepted, MergedPlan.missions)
         /\ output = <<>> => MergedPlan.accepted = <<>>
<1> DEFINE n == Len(Baseline)
    missions == Mapped(Baseline, BaselineMission)
    base == [missions |-> missions, accepted |-> <<>>, rejected |-> <<>>]
    proposals == IF output = <<>> THEN <<>> ELSE FirstOf(output[1], setting.maxProposed)
    plan == FoldLeft(MergeProposal, base, proposals)
<1>1. n \in Nat /\ \A k \in 1..n : Baseline[k] \in Types
  BY BaselineIsDefined, RangeIs DEF Types
<1>2. base \in Plans
  <2>1. Len(missions) = n /\ \A k \in 1..n : missions[k] = BaselineMission(Baseline[k])
    BY <1>1, BaselineIsDefined DEF Mapped
  <2>2. \A k \in 1..n : missions[k] \in Fitting
    BY <1>1, <2>1, BaselineFitsItself
  <2>3. missions \in Seq(Fitting)
    <3>1. missions = [k \in 1..n |-> missions[k]]
      BY <1>1, BaselineIsDefined DEF Mapped
    <3> HIDE DEF missions
    <3> QED
      BY <1>1, <2>2, <3>1
  <2>4. \A t : Told(<<>>, t) = BaselineMission(t)
    BY DEF Told
  <2>5. \A k \in 1..n : missions[k] = Told(<<>>, Baseline[k])
    BY <2>1, <2>4
  <2>6. <<>> \in Seq(Fitting) /\ <<>> \in Seq(Refusals)
    OBVIOUS
  <2> HIDE DEF missions
  <2> QED
    BY <2>1, <2>3, <2>5, <2>6, PlansAre
<1>3. proposals \in Seq(FittingProposals)
  BY FirstOfStays DEF Settings
<1>4. MergedPlan = [plan EXCEPT !.missions = ByPriority(plan.missions)]
  BY Zenon DEF MergedPlan
<1>5. output = <<>> => plan.accepted = <<>>
  <2> SUFFICES ASSUME output = <<>> PROVE plan.accepted = <<>>
    OBVIOUS
  <2>1. plan = base
    BY FoldOfNothing
  <2> HIDE DEF plan
  <2> QED
    BY <2>1
<1> HIDE DEF base, proposals, missions
<1>6. plan \in Plans
  BY <1>2, <1>3, ProposalsMerge
<1> HIDE DEF plan
<1> DEFINE sorted == ByPriority(plan.missions)
<1>7. MergedPlan.missions = sorted /\ MergedPlan.accepted = plan.accepted
  <2>1. MergedPlan = [missions |-> sorted, accepted |-> plan.accepted,
                      rejected |-> plan.rejected]
    BY <1>4, <1>6, PlanWith
  <2> HIDE DEF sorted
  <2> QED
    BY <2>1
<1>8. /\ plan.missions \in Seq(Fitting) /\ plan.accepted \in Seq(Fitting)
      /\ Len(plan.missions) = n
      /\ \A k \in 1..n : plan.missions[k] = Told(plan.accepted, Baseline[k])
  BY <1>6 DEF Plans
<1>9. \A k \in 1..n : plan.missions[k].type = Baseline[k]
  BY <1>1, <1>8, ToldFits
<1> DEFINE Own == {m \in Fitting : m = Told(plan.accepted, m.type)}
<1>10. plan.missions \in Seq(Own)
  <2>1. \A k \in 1..n : plan.missions[k] \in Own
    BY <1>8, <1>9
  <2> HIDE DEF Own
  <2> QED
    BY <1>8, <2>1
<1>11. /\ sorted \in Seq(Own)
       /\ \A j \in 1..n : \E k \in DOMAIN sorted : sorted[k] = plan.missions[j]
  <2> HIDE DEF Own
  <2> QED
    BY <1>8, <1>10, SortingKeeps
<1> HIDE DEF sorted
<1>12. /\ sorted \in Seq(Fitting)
       /\ \A k \in 1..Len(sorted) : sorted[k] = Told(plan.accepted, sorted[k].type)
  BY <1>11
<1>13. ASSUME NEW t \in Types PROVE \E k \in 1..Len(sorted) : sorted[k].type = t
  <2>1. PICK j \in 1..n : Baseline[j] = t
    BY BaselineIsDefined, RangeIs DEF Types
  <2>2. PICK k \in DOMAIN sorted : sorted[k] = plan.missions[j]
    BY <1>11
  <2> QED
    BY <1>9, <1>12, <2>1, <2>2
<1> QED
  BY <1>5, <1>7, <1>8, <1>12, <1>13 DEF PlanHolds

-----------------------------------------------------------------------------
(***************************************************************************)
(* The provider.                                                           *)
(***************************************************************************)
\* The answers a provider may give, those that fit no schema included.
TypeNames == STRING \cup DOMAIN Defined \cup {"payment-tester"}

RawProposals ==
  [type : TypeNames, priority : Int, routes : Seq(Urls),
   limits : [pages : SUBSET Int, links : SUBSET Int, clicks : SUBSET Int]]

Answers ==
  [by : {"anthropic", "mock"}, status : Nat, json : BOOLEAN, tokens : BOOLEAN,
   proposals : Seq(RawProposals), dear : BOOLEAN]

LEMMA AnthropicAnswers == Replies \subseteq Answers
<1> SUFFICES ASSUME NEW r \in Replies PROVE r \in Answers
  OBVIOUS
<1>1. AnyUrl \subseteq Urls
  BY DEF AnyUrl, Urls, Words, Parameters
<1>2. Proposals \subseteq RawProposals
  BY <1>1 DEF Proposals, RawProposals, TypeNames
<1>3. r \in [by : {"anthropic"}, status : Nat, json : BOOLEAN, tokens : BOOLEAN,
             proposals : Seq(Proposals), dear : BOOLEAN]
  BY RepliesAssumption
<1> QED
  BY <1>2, <1>3 DEF Answers

\* A failure is an answer too, and the mock gives one.
LEMMA FailuresAreAnswers ==
  ASSUME NEW status \in Nat
  PROVE  Failure("mock", status) \in Answers /\ Failure("mock", status).by = "mock"
<1>1. <<>> \in Seq(RawProposals)
  OBVIOUS
<1> QED
  BY <1>1 DEF Failure, Answers

LEMMA MockAnswers ==
  ASSUME NEW scenario
  PROVE  MockReply(scenario) \in Answers /\ MockReply(scenario).by = "mock"
<1> DEFINE Away == [HomeUrl EXCEPT !.site = "other", !.rooted = FALSE]
<1>1. HomeUrl \in Urls /\ Away \in Urls
  BY DEF HomeUrl, AsUrl, Root, Urls, Words
<1>2. <<HomeUrl>> \in Seq(Urls) /\ <<Away>> \in Seq(Urls)
  BY <1>1
<1>3. /\ {} \in SUBSET Int /\ {1} \in SUBSET Int /\ {5} \in SUBSET Int
      /\ {100} \in SUBSET Int
  OBVIOUS
<1> DEFINE a == Proposal("interaction-tester", 12, <<HomeUrl>>, {}, {5})
    b == Proposal("form-tester", 18, <<HomeUrl>>, {1}, {})
    c == Proposal("payment-tester", 1, <<HomeUrl>>, {}, {})
    d == Proposal("interaction-tester", 1, <<Away>>, {}, {100})
<1>4. ASSUME NEW t \in TypeNames, NEW priority \in Int, NEW routes \in Seq(Urls),
             NEW pages \in SUBSET Int, NEW clicks \in SUBSET Int
      PROVE  Proposal(t, priority, routes, pages, clicks) \in RawProposals
  BY <1>3 DEF Proposal, RawProposals
<1>5. /\ "interaction-tester" \in TypeNames /\ "form-tester" \in TypeNames
      /\ "payment-tester" \in TypeNames
  BY DEF TypeNames, Defined
<1>6. a \in RawProposals /\ b \in RawProposals /\ c \in RawProposals /\ d \in RawProposals
  <2>1. 12 \in Int /\ 18 \in Int /\ 1 \in Int
    OBVIOUS
  <2> HIDE DEF Away
  <2> QED
    BY <1>2, <1>3, <1>4, <1>5, <2>1
<1> HIDE DEF a, b, c, d
<1>7. ASSUME NEW proposals \in Seq(RawProposals), NEW dear \in BOOLEAN
      PROVE  /\ Answer("mock", proposals, dear) \in Answers
             /\ Answer("mock", proposals, dear).by = "mock"
  BY DEF Answer, Answers
<1>8. /\ <<a, b>> \in Seq(RawProposals) /\ <<c>> \in Seq(RawProposals)
      /\ <<d>> \in Seq(RawProposals)
  BY <1>6
<1>9. /\ MockReply(scenario) \in
           {Failure("mock", 0), Failure("mock", 429), Failure("mock", 200),
            Answer("mock", <<c>>, FALSE), Answer("mock", <<d>>, FALSE),
            Answer("mock", <<a, b>>, TRUE), Answer("mock", <<a, b>>, FALSE)}
  BY DEF MockReply, a, b, c, d
<1>10. ASSUME NEW status \in Nat
       PROVE  Failure("mock", status) \in Answers /\ Failure("mock", status).by = "mock"
  BY FailuresAreAnswers
<1> DEFINE reply == MockReply(scenario)
<1> HIDE DEF reply
<1>11. reply \in {Failure("mock", 0), Failure("mock", 429), Failure("mock", 200)} =>
         reply \in Answers /\ reply.by = "mock"
  BY <1>10
<1>12. reply \in {Answer("mock", <<c>>, FALSE), Answer("mock", <<d>>, FALSE),
                  Answer("mock", <<a, b>>, TRUE), Answer("mock", <<a, b>>, FALSE)} =>
         reply \in Answers /\ reply.by = "mock"
  BY <1>7, <1>8
<1>13. \/ reply \in {Failure("mock", 0), Failure("mock", 429), Failure("mock", 200)}
       \/ reply \in {Answer("mock", <<c>>, FALSE), Answer("mock", <<d>>, FALSE),
                     Answer("mock", <<a, b>>, TRUE), Answer("mock", <<a, b>>, FALSE)}
  BY <1>9 DEF reply
<1> QED
  BY <1>11, <1>12, <1>13 DEF reply

\* Only an answer that fits the schema counts as one.
LEMMA AnswersThatCount ==
  ASSUME NEW r \in Answers, CodeOf(r) = "none"
  PROVE  r.proposals \in Seq(FittingProposals)
<1>1. AnswerFits(r) /\ r.proposals \in Seq(RawProposals)
  BY DEF CodeOf, Answers
<1>2. ASSUME NEW i \in DOMAIN r.proposals PROVE r.proposals[i] \in FittingProposals
  <2> DEFINE p == r.proposals[i]
  <2>1. p \in RawProposals /\ p.type \in DOMAIN Defined /\ p.priority \in 1..100
    BY <1>1 DEF AnswerFits, ProposalFits
  <2> HIDE DEF p
  <2>2. p \in FittingProposals
    BY <2>1 DEF RawProposals, FittingProposals
  <2> QED
    BY <2>2 DEF p
<1> QED
  BY <1>1, <1>2

-----------------------------------------------------------------------------
(***************************************************************************)
(* Who made the plan.                                                      *)
(***************************************************************************)
\* The limits of the two loops: requestPlanner's rounds, the provider's attempts.
Rounds == setting.plannerAttempts
Attempts == setting.providerAttempts

\* What the job knows of the answers it has had.
AskData ==
  /\ setting \in Settings /\ replies \in Seq(Answers)
  /\ output \in Seq(Seq(FittingProposals)) /\ Len(output) <= 1
  /\ tries.round \in 1..Rounds /\ tries.attempt \in 1..Attempts

\* No more is asked than the limits of the two loops allow.
AsksAreCounted ==
  /\ Len(replies) <= Rounds * Attempts + 1
  /\ step \in {"asking", "standing in"} => Len(replies) <= Rounds * Attempts
  /\ step = "asking" =>
       Len(replies) <= (tries.round - 1) * Attempts + tries.attempt - 1

\* Until an answer fits there is no output and no reason, and with it the
\* asking ends.
AnswersEndTheAsking ==
  /\ step \in {"start", "looking", "preparing"} => replies = <<>>
  /\ step \in {"start", "looking", "preparing", "asking", "standing in"} =>
       output = <<>> /\ fallbackReason = "none"
  /\ step \in {"preparing", "asking", "standing in"} => setting.assisted /\ setting.aiEnabled
  /\ step \in {"asking", "standing in"} =>
       \A i \in 1..Len(replies) : CodeOf(replies[i]) # "none"
  /\ \A i \in 1..(Len(replies) - 1) : CodeOf(replies[i]) # "none"
  /\ step \in {"merging", "persisting", "planned"} =>
       /\ output # <<>> =>
            /\ setting.assisted /\ fallbackReason = "none"
            /\ replies # <<>> /\ CodeOf(Last(replies)) = "none" /\ ~Last(replies).dear
       /\ setting.assisted /\ fallbackReason = "none" => output # <<>>

\* The row says what the answers have come to.
PlanIsOfTheAnswers ==
  step \in {"persisting", "planned"} =>
    /\ planRow # <<>>
    /\ planRow[1].source = Source /\ planRow[1].reason = fallbackReason
    /\ output = <<>> => planRow[1].accepted = <<>>

\* The strengthening of PlanTellsItsSource: it has to know of each step which
\* answers there can have been.
AskInv == AskData /\ AsksAreCounted /\ AnswersEndTheAsking /\ PlanIsOfTheAnswers

LEMMA ProductOfNats ==
  ASSUME NEW x \in Nat, NEW y \in Nat
  PROVE  x * y \in Nat
OBVIOUS

LEMMA RoundsAreBounded ==
  ASSUME NEW a \in Nat \ {0}, NEW p \in Nat \ {0}, NEW r \in 1..a
  PROVE  /\ (r - 1) * p \in Int /\ r * p \in Int /\ a * p \in Nat
         /\ r * p = (r - 1) * p + p /\ r * p <= a * p
<1>1. ASSUME NEW x \in Nat, NEW y \in Nat PROVE x * y \in Nat
  BY <1>1
<1>2. (a - r) * p \in Nat
  <2>1. a - r \in Nat
    OBVIOUS
  <2> QED
    BY <1>1, <2>1
<1>3. a * p = (a - r) * p + r * p
  OBVIOUS
<1>4. r * p = (r - 1) * p + p
  OBVIOUS
<1> QED
  BY <1>1, <1>2, <1>3, <1>4

LEMMA AskInvInit == PlanningInit => AskInv
<1> SUFFICES ASSUME PlanningInit PROVE AskInv
  OBVIOUS
<1>1. setting \in Settings
  BY PlanningAssumption DEF PlanningInit
<1>2. Rounds \in Nat \ {0} /\ Attempts \in Nat \ {0}
  BY <1>1 DEF Settings, Rounds, Attempts
<1>3. Rounds * Attempts \in Nat
  <2>1. 1 \in 1..Rounds
    BY <1>2
  <2> QED
    BY <1>2, <2>1, RoundsAreBounded
<1>4. AskData
  BY <1>1, <1>2 DEF PlanningInit, AskData
<1>5. AsksAreCounted
  <2> DEFINE all == Rounds * Attempts
  <2>1. step = "start" /\ Len(replies) = 0
    BY DEF PlanningInit
  <2>2. all \in Nat
    BY <1>3
  <2> HIDE DEF all
  <2>3. Len(replies) <= all + 1
    BY <2>1, <2>2
  <2> QED
    BY <2>1, <2>3 DEF AsksAreCounted, all
<1>6. AnswersEndTheAsking
  BY DEF PlanningInit, AnswersEndTheAsking
<1>7. PlanIsOfTheAnswers
  BY DEF PlanningInit, PlanIsOfTheAnswers
<1> QED
  BY <1>4, <1>5, <1>6, <1>7 DEF AskInv

\* What an answer does to the round, the attempt and the step.
LEMMA AnswerStays ==
  ASSUME AskInv, NEW r \in Answers, AskPlanner(r)
  PROVE  AskInv'
<1> DEFINE code == CodeOf(r)
    n == Len(replies)
    again == code \in Transient /\ tries.attempt < Attempts
    newRound == ReasonFor(code) \in WorthAnotherRound /\ tries.round < Rounds
<1>1. /\ setting \in Settings /\ replies \in Seq(Answers) /\ n \in Nat
      /\ output = <<>> /\ fallbackReason = "none" /\ setting.assisted /\ setting.aiEnabled
      /\ tries.round \in 1..Rounds /\ tries.attempt \in 1..Attempts
      /\ \A i \in 1..n : CodeOf(replies[i]) # "none"
      /\ n <= (tries.round - 1) * Attempts + tries.attempt - 1
      /\ Rounds \in Nat \ {0} /\ Attempts \in Nat \ {0}
  <2>1. step = "asking"
    BY DEF AskPlanner
  <2>2. /\ setting \in Settings /\ replies \in Seq(Answers)
        /\ tries.round \in 1..Rounds /\ tries.attempt \in 1..Attempts
    BY DEF AskInv, AskData
  <2>3. n <= (tries.round - 1) * Attempts + tries.attempt - 1
    BY <2>1 DEF AskInv, AsksAreCounted
  <2>4. /\ output = <<>> /\ fallbackReason = "none" /\ setting.assisted /\ setting.aiEnabled
        /\ \A i \in 1..n : CodeOf(replies[i]) # "none"
    BY <2>1 DEF AskInv, AnswersEndTheAsking
  <2>5. Rounds \in Nat \ {0} /\ Attempts \in Nat \ {0}
    BY <2>2 DEF Settings, Rounds, Attempts
  <2>6. n \in Nat
    BY <2>2
  <2> QED
    BY <2>2, <2>3, <2>4, <2>5, <2>6
<1>2. /\ (tries.round - 1) * Attempts \in Int /\ tries.round * Attempts \in Int
      /\ Rounds * Attempts \in Nat
      /\ tries.round * Attempts = (tries.round - 1) * Attempts + Attempts
      /\ tries.round * Attempts <= Rounds * Attempts
  BY <1>1, RoundsAreBounded
<1>3. /\ setting' = setting /\ replies' = Append(replies, r) /\ Rounds' = Rounds
      /\ Attempts' = Attempts
  BY DEF AskPlanner, stored, Rounds, Attempts
<1>4. /\ replies' \in Seq(Answers) /\ Len(replies') = n + 1 /\ Last(replies') = r
      /\ replies' # <<>> /\ replies'[n + 1] = r
      /\ \A i \in 1..n : CodeOf(replies'[i]) # "none"
  BY <1>1, <1>3 DEF Last
<1> DEFINE done == (tries.round - 1) * Attempts
    round == tries.round * Attempts
    all == Rounds * Attempts
<1>5. /\ n + 1 <= all /\ n + 1 <= round /\ n + 1 <= done + tries.attempt
      /\ all' = all /\ all \in Nat /\ done \in Int /\ round \in Int
  <2>1. /\ done \in Int /\ round \in Int /\ all \in Nat /\ round = done + Attempts
        /\ round <= all /\ n \in Nat /\ n <= done + tries.attempt - 1
        /\ tries.attempt \in 1..Attempts /\ Attempts \in Nat \ {0} /\ all' = all
    BY <1>1, <1>2, <1>3
  <2> HIDE DEF done, round, all, n
  <2> QED
    BY <2>1
<1>6. CASE code = "none"
  <2>1. TakeAnswer(r) /\ tries' = tries
    BY <1>6 DEF AskPlanner
  <2>2. r.proposals \in Seq(FittingProposals) /\ r.dear \in BOOLEAN
    BY <1>6, AnswersThatCount DEF Answers
  <2>3. /\ step' = "merging" /\ output' = IF r.dear THEN <<>> ELSE <<r.proposals>>
        /\ fallbackReason' = IF r.dear THEN "BUDGET_EXCEEDED" ELSE "none"
    BY <2>1 DEF TakeAnswer
  <2>4. output' \in Seq(Seq(FittingProposals)) /\ Len(output') <= 1
    BY <2>2, <2>3
  <2>5. AskData'
    BY <1>1, <1>3, <1>4, <2>1, <2>4 DEF AskData
  <2>6. AsksAreCounted'
    BY <1>2, <1>3, <1>4, <1>5, <2>3 DEF AsksAreCounted
  <2>7. output' # <<>> <=> ~r.dear
    BY <2>2, <2>3
  <2>8. AnswersEndTheAsking'
    BY <1>1, <1>3, <1>4, <1>6, <2>2, <2>3, <2>7 DEF AnswersEndTheAsking
  <2>9. PlanIsOfTheAnswers'
    BY <2>3 DEF PlanIsOfTheAnswers
  <2> QED
    BY <2>5, <2>6, <2>8, <2>9 DEF AskInv
<1>7. CASE code # "none" /\ again
  <2>1. tries' = [tries EXCEPT !.attempt = @ + 1] /\ UNCHANGED <<step, output, fallbackReason>>
    BY <1>7 DEF AskPlanner, Attempts
  <2>2. tries'.round = tries.round /\ tries'.attempt = tries.attempt + 1 /\ step' = "asking"
    BY <2>1 DEF AskPlanner
  <2>3. AskData'
    BY <1>1, <1>3, <1>4, <1>7, <2>1, <2>2 DEF AskData, AskInv
  <2>4. AsksAreCounted'
    <3>1. done' = done
      BY <1>3, <2>2
    <3> HIDE DEF done, all, round
    <3>2. Len(replies') <= done + (tries.attempt + 1) - 1 /\ Len(replies') <= all + 1
      BY <1>1, <1>4, <1>5
    <3> QED
      BY <1>3, <1>4, <1>5, <2>2, <3>1, <3>2 DEF AsksAreCounted, done, all
  <2>5. AnswersEndTheAsking'
    BY <1>1, <1>3, <1>4, <1>7, <2>1, <2>2 DEF AnswersEndTheAsking
  <2>6. PlanIsOfTheAnswers'
    BY <2>2 DEF PlanIsOfTheAnswers
  <2> QED
    BY <2>3, <2>4, <2>5, <2>6 DEF AskInv
<1>8. CASE code # "none" /\ ~again /\ newRound
  <2>1. /\ tries' = [round |-> tries.round + 1, attempt |-> 1]
        /\ UNCHANGED <<step, output, fallbackReason>>
    BY <1>8 DEF AskPlanner, Attempts, Rounds
  <2>2. tries'.round = tries.round + 1 /\ tries'.attempt = 1 /\ step' = "asking"
    BY <2>1 DEF AskPlanner
  <2>3. AskData'
    BY <1>1, <1>3, <1>4, <1>8, <2>1, <2>2 DEF AskData, AskInv
  <2>4. AsksAreCounted'
    <3>1. done' = round
      <4>1. tries'.round - 1 = tries.round
        BY <1>1, <2>2
      <4>2. done' = (tries'.round - 1) * Attempts
        BY <1>3
      <4> QED
        BY <4>1, <4>2
    <3> HIDE DEF done, all, round
    <3>2. Len(replies') <= round + 1 - 1 /\ Len(replies') <= all + 1
      <4>1. /\ Len(replies') = n + 1 /\ n \in Nat /\ n + 1 <= all /\ n + 1 <= round
            /\ all \in Nat /\ round \in Int
        BY <1>1, <1>4, <1>5
      <4> HIDE DEF n
      <4> QED
        BY <4>1
    <3> QED
      BY <1>3, <1>4, <1>5, <2>2, <3>1, <3>2 DEF AsksAreCounted, done, all
  <2>5. AnswersEndTheAsking'
    BY <1>1, <1>3, <1>4, <1>8, <2>1, <2>2 DEF AnswersEndTheAsking
  <2>6. PlanIsOfTheAnswers'
    BY <2>2 DEF PlanIsOfTheAnswers
  <2> QED
    BY <2>3, <2>4, <2>5, <2>6 DEF AskInv
<1>9. CASE /\ code # "none" /\ ~again /\ ~newRound
           /\ setting.provider = "anthropic" /\ setting.fallbackToMock
  <2>1. step' = "standing in" /\ UNCHANGED <<tries, output, fallbackReason>>
    BY <1>9 DEF AskPlanner, Attempts, Rounds
  <2>2. AskData'
    BY <1>1, <1>3, <1>4, <2>1 DEF AskData, AskInv
  <2>3. AsksAreCounted'
    <3> HIDE DEF done, all, round
    <3>1. Len(replies') <= all + 1
      BY <1>1, <1>4, <1>5
    <3> QED
      BY <1>3, <1>4, <1>5, <2>1, <3>1 DEF AsksAreCounted, all
  <2>4. AnswersEndTheAsking'
    <3>1. \A i \in 1..(n + 1) : CodeOf(replies'[i]) # "none"
      BY <1>1, <1>4, <1>9
    <3>2. /\ \A i \in 1..Len(replies') : CodeOf(replies'[i]) # "none"
          /\ \A i \in 1..(Len(replies') - 1) : CodeOf(replies'[i]) # "none"
      BY <1>1, <1>4, <3>1
    <3>3. step' = "standing in" /\ output' = <<>> /\ fallbackReason' = "none"
      BY <1>1, <2>1
    <3>4. setting.assisted /\ setting.aiEnabled /\ setting' = setting
      BY <1>1, <1>3
    <3> QED
      BY <3>2, <3>3, <3>4 DEF AnswersEndTheAsking
  <2>5. PlanIsOfTheAnswers'
    BY <2>1 DEF PlanIsOfTheAnswers
  <2> QED
    BY <2>2, <2>3, <2>4, <2>5 DEF AskInv
<1>10. CASE /\ code # "none" /\ ~again /\ ~newRound
            /\ ~(setting.provider = "anthropic" /\ setting.fallbackToMock)
  <2>1. GiveUpAsking(code) /\ UNCHANGED tries
    BY <1>10 DEF AskPlanner, Attempts, Rounds
  <2>2. step' = "merging" /\ output' = output /\ fallbackReason' # "none"
    BY <2>1 DEF GiveUpAsking, ReasonFor
  <2>3. AskData'
    BY <1>1, <1>3, <1>4, <2>1, <2>2 DEF AskData, AskInv
  <2>4. AsksAreCounted'
    BY <1>1, <1>2, <1>3, <1>4, <1>5, <2>2 DEF AsksAreCounted
  <2>5. AnswersEndTheAsking'
    BY <1>1, <1>3, <1>4, <1>10, <2>2 DEF AnswersEndTheAsking
  <2>6. PlanIsOfTheAnswers'
    BY <2>2 DEF PlanIsOfTheAnswers
  <2> QED
    BY <2>3, <2>4, <2>5, <2>6 DEF AskInv
<1> QED
  BY <1>6, <1>7, <1>8, <1>9, <1>10

\* The mock's answer is the last one.
LEMMA StandInStays ==
  ASSUME AskInv, AskMockInstead
  PROVE  AskInv'
<1> DEFINE r == MockReply(setting.scenario)
    n == Len(replies)
    all == Rounds * Attempts
<1>1. r \in Answers
  BY MockAnswers
<1> HIDE DEF r
<1>2. /\ setting \in Settings /\ replies \in Seq(Answers) /\ n \in Nat
      /\ output = <<>> /\ fallbackReason = "none" /\ setting.assisted /\ setting.aiEnabled
      /\ tries.round \in 1..Rounds /\ tries.attempt \in 1..Attempts
      /\ \A i \in 1..n : CodeOf(replies[i]) # "none"
      /\ n <= all
  <2>1. step = "standing in"
    BY DEF AskMockInstead
  <2>2. /\ setting \in Settings /\ replies \in Seq(Answers) /\ n \in Nat
        /\ tries.round \in 1..Rounds /\ tries.attempt \in 1..Attempts
    BY DEF AskInv, AskData
  <2>3. n <= all
    BY <2>1 DEF AskInv, AsksAreCounted
  <2>4. /\ output = <<>> /\ fallbackReason = "none" /\ setting.assisted /\ setting.aiEnabled
        /\ \A i \in 1..n : CodeOf(replies[i]) # "none"
    BY <2>1 DEF AskInv, AnswersEndTheAsking
  <2> HIDE DEF all, n
  <2> QED
    BY <2>2, <2>3, <2>4
<1>3. /\ setting' = setting /\ replies' = Append(replies, r) /\ tries' = tries
      /\ Rounds' = Rounds /\ Attempts' = Attempts
  BY DEF AskMockInstead, stored, Rounds, Attempts, r
<1>4. /\ replies' \in Seq(Answers) /\ Len(replies') = n + 1 /\ Last(replies') = r
      /\ replies' # <<>>
      /\ \A i \in 1..(Len(replies') - 1) : CodeOf(replies'[i]) # "none"
  BY <1>1, <1>2, <1>3 DEF Last
<1>5. all' = all /\ all \in Nat
  <2>1. Rounds \in Nat \ {0} /\ Attempts \in Nat \ {0}
    BY <1>2 DEF Settings, Rounds, Attempts
  <2> QED
    BY <1>2, <1>3, <2>1, RoundsAreBounded
<1> HIDE DEF all
<1>6. step' = "merging" => AsksAreCounted'
  BY <1>2, <1>4, <1>5 DEF AsksAreCounted, all
<1>7. CASE CodeOf(r) = "none"
  <2>1. TakeAnswer(r)
    BY <1>7 DEF AskMockInstead, r
  <2>2. r.proposals \in Seq(FittingProposals) /\ r.dear \in BOOLEAN
    BY <1>1, <1>7, AnswersThatCount DEF Answers
  <2>3. /\ step' = "merging" /\ output' = IF r.dear THEN <<>> ELSE <<r.proposals>>
        /\ fallbackReason' = IF r.dear THEN "BUDGET_EXCEEDED" ELSE "none"
    BY <2>1 DEF TakeAnswer
  <2>4. output' \in Seq(Seq(FittingProposals)) /\ Len(output') <= 1 /\ (output' # <<>> <=> ~r.dear)
    BY <2>2, <2>3
  <2>5. AskData'
    BY <1>2, <1>3, <1>4, <2>4 DEF AskData
  <2>6. AnswersEndTheAsking'
    BY <1>2, <1>3, <1>4, <1>7, <2>2, <2>3, <2>4 DEF AnswersEndTheAsking
  <2>7. PlanIsOfTheAnswers'
    BY <2>3 DEF PlanIsOfTheAnswers
  <2> QED
    BY <1>6, <2>3, <2>5, <2>6, <2>7 DEF AskInv
<1>8. CASE CodeOf(r) # "none"
  <2>1. GiveUpAsking(CodeOf(r))
    BY <1>8 DEF AskMockInstead, r
  <2>2. step' = "merging" /\ output' = output /\ fallbackReason' # "none"
    BY <2>1 DEF GiveUpAsking, ReasonFor
  <2>3. AskData'
    BY <1>2, <1>3, <1>4, <2>2 DEF AskData, AskInv
  <2>4. AnswersEndTheAsking'
    BY <1>2, <1>3, <1>4, <1>8, <2>2 DEF AnswersEndTheAsking
  <2>5. PlanIsOfTheAnswers'
    BY <2>2 DEF PlanIsOfTheAnswers
  <2> QED
    BY <1>6, <2>2, <2>3, <2>4, <2>5 DEF AskInv
<1> QED
  BY <1>7, <1>8

LEMMA CountsAreNumbers ==
  ASSUME AskData
  PROVE  /\ Rounds \in Nat \ {0} /\ Attempts \in Nat \ {0} /\ Rounds * Attempts \in Nat
         /\ tries.round \in 1..Rounds /\ tries.attempt \in 1..Attempts
         /\ (tries.round - 1) * Attempts \in Nat
<1>1. /\ Rounds \in Nat \ {0} /\ Attempts \in Nat \ {0}
      /\ tries.round \in 1..Rounds /\ tries.attempt \in 1..Attempts
  BY DEF AskData, Settings, Rounds, Attempts
<1>2. tries.round - 1 \in Nat
  BY <1>1
<1> QED
  BY <1>1, <1>2, ProductOfNats

\* A step that asks nothing keeps what AskData and AsksAreCounted say.
LEMMA CountsStay ==
  ASSUME AskInv, setting' = setting, tries' = tries, replies' = replies, output' = output,
         step' = step \/ step' \notin {"asking", "standing in"} \/ Len(replies) = 0
  PROVE  AskData' /\ AsksAreCounted'
<1>1. AskData /\ AsksAreCounted
  BY DEF AskInv
<1>2. AskData' /\ Rounds' = Rounds /\ Attempts' = Attempts
  BY <1>1 DEF AskData, Rounds, Attempts
<1> DEFINE all == Rounds * Attempts
    done == (tries.round - 1) * Attempts
<1>3. /\ all \in Nat /\ done \in Nat /\ tries.attempt \in 1..Attempts
      /\ Attempts \in Nat \ {0} /\ all' = all /\ done' = done
  BY <1>1, <1>2, CountsAreNumbers
<1>4. /\ Len(replies) <= all + 1
      /\ step \in {"asking", "standing in"} => Len(replies) <= all
      /\ step = "asking" => Len(replies) <= done + tries.attempt - 1
  BY <1>1 DEF AsksAreCounted
<1> HIDE DEF all, done
<1>5. Len(replies) = 0 => Len(replies) <= all /\ Len(replies) <= done + tries.attempt - 1
  BY <1>3
<1> QED
  BY <1>2, <1>3, <1>4, <1>5 DEF AsksAreCounted, all, done

LEMMA CountsStartOver ==
  ASSUME AskInv, setting' = setting, step' = "start", replies' = <<>>, output' = <<>>,
         tries' = [round |-> 1, attempt |-> 1]
  PROVE  AskData' /\ AsksAreCounted'
<1>1. AskData
  BY DEF AskInv
<1>2. /\ Rounds' = Rounds /\ Attempts' = Attempts /\ Rounds \in Nat \ {0}
      /\ Attempts \in Nat \ {0} /\ Rounds * Attempts \in Nat /\ setting \in Settings
  BY <1>1, CountsAreNumbers DEF Rounds, Attempts, AskData
<1>3. AskData'
  BY <1>2 DEF AskData
<1>4. Len(replies') = 0
  OBVIOUS
<1> DEFINE all == Rounds * Attempts
<1>5. all' = all /\ all \in Nat
  BY <1>2
<1> HIDE DEF all
<1>6. Len(replies') <= all + 1
  BY <1>4, <1>5
<1>7. AsksAreCounted'
  BY <1>5, <1>6 DEF AsksAreCounted, all
<1> QED
  BY <1>3, <1>7

\* Every step of the planner's job keeps it.
LEMMA AskInvStays ==
  ASSUME AskInv, [PlanningNext]_planningVars
  PROVE  AskInv'
<1> USE DEF AskInv, stored, local
<1>1. CASE UserStopsPlanning
  <2>1. AskData' /\ AsksAreCounted'
    BY <1>1, CountsStay DEF UserStopsPlanning
  <2>2. AnswersEndTheAsking'
    BY <1>1 DEF UserStopsPlanning, AnswersEndTheAsking
  <2>3. PlanIsOfTheAnswers'
    BY <1>1 DEF UserStopsPlanning, PlanIsOfTheAnswers, Source
  <2> QED
    BY <2>1, <2>2, <2>3
<1>2. CASE RefuseTarget
  <2>1. AskData' /\ AsksAreCounted'
    BY <1>2, CountsStay DEF RefuseTarget, PlanningStep
  <2>2. AnswersEndTheAsking'
    BY <1>2 DEF RefuseTarget, PlanningStep, AnswersEndTheAsking
  <2>3. PlanIsOfTheAnswers'
    BY <1>2 DEF RefuseTarget, PlanningStep, PlanIsOfTheAnswers
  <2> QED
    BY <2>1, <2>2, <2>3
<1>3. CASE BeginPlanning
  <2>1. AskData' /\ AsksAreCounted'
    BY <1>3, CountsStay DEF BeginPlanning, PlanningStep
  <2>2. AnswersEndTheAsking'
    BY <1>3 DEF BeginPlanning, PlanningStep, AnswersEndTheAsking
  <2>3. PlanIsOfTheAnswers'
    BY <1>3 DEF BeginPlanning, PlanningStep, PlanIsOfTheAnswers
  <2> QED
    BY <2>1, <2>2, <2>3
<1>4. CASE TakeSnapshot
  <2>1. /\ step = "looking" /\ UNCHANGED <<setting, tries, replies, output, planRow>>
        /\ fallbackReason' \in {"AI_DISABLED", "none", "UNKNOWN_PROVIDER_ERROR"}
        /\ step' = IF MayAsk /\ fallbackReason' = "none" THEN "preparing" ELSE "merging"
        /\ setting.assisted /\ ~setting.aiEnabled => fallbackReason' = "AI_DISABLED"
    BY <1>4 DEF TakeSnapshot, ReasonAfter
  <2>2. AskData' /\ AsksAreCounted'
    BY <2>1, CountsStay
  <2>3. AnswersEndTheAsking'
    BY <2>1 DEF AnswersEndTheAsking, MayAsk, AskData, Settings
  <2>4. PlanIsOfTheAnswers'
    BY <2>1 DEF PlanIsOfTheAnswers
  <2> QED
    BY <2>2, <2>3, <2>4
<1>5. CASE SnapshotFails
  <2>1. /\ step = "looking" /\ UNCHANGED <<setting, tries, replies, output, planRow>>
        /\ fallbackReason' \in {"AI_DISABLED", "UNKNOWN_PROVIDER_ERROR"}
        /\ step' = "merging"
    BY <1>5 DEF SnapshotFails, PlanningStep, ReasonAfter
  <2>2. AskData' /\ AsksAreCounted'
    BY <2>1, CountsStay
  <2>3. AnswersEndTheAsking'
    BY <2>1 DEF AnswersEndTheAsking
  <2>4. PlanIsOfTheAnswers'
    BY <2>1 DEF PlanIsOfTheAnswers
  <2> QED
    BY <2>2, <2>3, <2>4
<1>6. CASE BuildPrompt
  <2>1. /\ step = "preparing" /\ UNCHANGED <<setting, tries, replies, output, planRow>>
        /\ fallbackReason' \in {"none", "UNKNOWN_PROVIDER_ERROR", "INPUT_TOO_LARGE"}
        /\ step' = IF fallbackReason' = "none" THEN "asking" ELSE "merging"
    BY <1>6 DEF BuildPrompt
  <2>2. replies = <<>> /\ Len(replies) = 0
    BY <2>1 DEF AnswersEndTheAsking
  <2>3. AskData' /\ AsksAreCounted'
    BY <2>1, <2>2, CountsStay
  <2>4. AnswersEndTheAsking'
    BY <2>1, <2>2 DEF AnswersEndTheAsking
  <2>5. PlanIsOfTheAnswers'
    BY <2>1 DEF PlanIsOfTheAnswers
  <2> QED
    BY <2>3, <2>4, <2>5
<1>7. CASE \E r \in Replies \cup {MockReply(setting.scenario)} : AskPlanner(r)
  <2>1. PICK r \in Replies \cup {MockReply(setting.scenario)} : AskPlanner(r)
    BY <1>7
  <2>2. r \in Answers
    BY AnthropicAnswers, MockAnswers
  <2> QED
    BY <2>1, <2>2, AnswerStays
<1>8. CASE AskMockInstead
  BY <1>8, StandInStays
<1>9. CASE WritePlan
  <2>1. /\ step' = "persisting" /\ step = "merging"
        /\ UNCHANGED <<setting, tries, replies, output, fallbackReason>>
        /\ planRow' # <<>> /\ planRow'[1].source = Source /\ planRow'[1].reason = fallbackReason
        /\ planRow'[1].accepted = MergedPlan.accepted
    BY <1>9 DEF WritePlan, PlanningStep
  <2>2. AskData' /\ AsksAreCounted'
    BY <2>1, CountsStay
  <2>3. AnswersEndTheAsking'
    BY <2>1 DEF AnswersEndTheAsking
  <2>4. output = <<>> => MergedPlan.accepted = <<>>
    BY MergedPlanHolds DEF AskData
  <2>5. PlanIsOfTheAnswers'
    BY <2>1, <2>4 DEF PlanIsOfTheAnswers, Source
  <2> QED
    BY <2>2, <2>3, <2>5
<1>10. CASE PersistMission
  <2>1. /\ UNCHANGED <<setting, step, tries, replies, output, fallbackReason, planRow>>
    BY <1>10 DEF PersistMission
  <2>2. AskData' /\ AsksAreCounted'
    BY <2>1, CountsStay
  <2>3. AnswersEndTheAsking'
    BY <2>1 DEF AnswersEndTheAsking
  <2>4. PlanIsOfTheAnswers'
    BY <2>1 DEF PlanIsOfTheAnswers, Source
  <2> QED
    BY <2>2, <2>3, <2>4
<1>11. CASE QueueMissions
  <2>1. /\ UNCHANGED <<setting, tries, replies, output, fallbackReason, planRow>>
        /\ step = "persisting" /\ step' \in {"planned", "stopped"}
    BY <1>11 DEF QueueMissions, PlanningStep
  <2>2. AskData' /\ AsksAreCounted'
    BY <2>1, CountsStay
  <2>3. AnswersEndTheAsking'
    <3>1. CASE step' = "stopped"
      BY <2>1, <3>1 DEF AnswersEndTheAsking
    <3>2. CASE step' = "planned"
      BY <2>1, <3>2 DEF AnswersEndTheAsking
    <3> QED
      BY <2>1, <3>1, <3>2
  <2>4. PlanIsOfTheAnswers'
    BY <2>1 DEF PlanIsOfTheAnswers, Source
  <2> QED
    BY <2>2, <2>3, <2>4
<1>12. CASE PlanningDies
  <2>1. /\ setting' = setting /\ step' = "start" /\ replies' = <<>> /\ output' = <<>>
        /\ tries' = [round |-> 1, attempt |-> 1] /\ fallbackReason' = "none"
    BY <1>12 DEF PlanningDies
  <2>2. AskData' /\ AsksAreCounted'
    BY <2>1, CountsStartOver
  <2>3. AnswersEndTheAsking'
    <3>1. step' = "start" /\ replies' = <<>> /\ output' = <<>> /\ fallbackReason' = "none"
      BY <2>1
    <3>2. \A i \in 1..(Len(replies') - 1) : FALSE
      BY <3>1
    <3> QED
      BY <3>1, <3>2 DEF AnswersEndTheAsking
  <2>4. PlanIsOfTheAnswers'
    BY <2>1 DEF PlanIsOfTheAnswers
  <2> QED
    BY <2>2, <2>3, <2>4
<1>13. CASE UNCHANGED planningVars
  <2>1. /\ UNCHANGED <<setting, step, tries, replies, output, fallbackReason, planRow>>
    BY <1>13 DEF planningVars
  <2>2. AskData' /\ AsksAreCounted'
    BY <2>1, CountsStay
  <2>3. AnswersEndTheAsking'
    <3>1. AnswersEndTheAsking
      OBVIOUS
    <3> QED
      BY <2>1, <3>1, Zenon DEF AnswersEndTheAsking
  <2>4. PlanIsOfTheAnswers'
    BY <2>1 DEF PlanIsOfTheAnswers, Source
  <2> QED
    BY <2>2, <2>3, <2>4
<1> QED
  BY <1>1, <1>2, <1>3, <1>4, <1>5, <1>6, <1>7, <1>8, <1>9, <1>10, <1>11, <1>12, <1>13
     DEF PlanningNext

\* The AuditPlan row that runPlanningJob writes says who made the plan: a source
\* other than "deterministic" means that the last answer of requestPlanner, and no
\* earlier one, fitted the schema and the budget; a deterministic plan has no accepted
\* proposal; and the two retry limits are kept, the mock being asked once more.
THEOREM PlanTellsWhoMadeIt == PlanningSpec => []PlanTellsItsSource
<1>1. PlanningInit => AskInv
  BY AskInvInit
<1>2. AskInv /\ [PlanningNext]_planningVars => AskInv'
  BY AskInvStays
<1>3. AskInv => PlanTellsItsSource
  <2> SUFFICES ASSUME AskInv PROVE PlanTellsItsSource
    OBVIOUS
  <2>1. Len(replies) <= setting.plannerAttempts * setting.providerAttempts + 1
    BY DEF AskInv, AsksAreCounted, Rounds, Attempts
  <2>2. \A i \in 1..(Len(replies) - 1) : CodeOf(replies[i]) # "none"
    BY DEF AskInv, AnswersEndTheAsking
  <2>3. ASSUME step \in {"persisting", "planned"}
        PROVE  LET plan == planRow[1] IN
               /\ plan.source = "deterministic" => plan.accepted = <<>>
               /\ plan.source # "deterministic" =>
                    /\ setting.assisted /\ plan.reason = "none"
                    /\ CodeOf(Last(replies)) = "none" /\ ~Last(replies).dear
                    /\ Last(replies).by = plan.source
               /\ setting.assisted /\ plan.reason = "none" => plan.source # "deterministic"
    <3>1. /\ planRow[1].source = Source /\ planRow[1].reason = fallbackReason
          /\ output = <<>> => planRow[1].accepted = <<>>
          /\ output # <<>> =>
               /\ setting.assisted /\ fallbackReason = "none"
               /\ replies # <<>> /\ CodeOf(Last(replies)) = "none" /\ ~Last(replies).dear
          /\ setting.assisted /\ fallbackReason = "none" => output # <<>>
      BY <2>3 DEF AskInv, AnswersEndTheAsking, PlanIsOfTheAnswers
    <3>2. output # <<>> => Source = Last(replies).by /\ Source \in {"anthropic", "mock"}
      <4> SUFFICES ASSUME output # <<>>
                   PROVE  Source = Last(replies).by /\ Source \in {"anthropic", "mock"}
        OBVIOUS
      <4>1. replies \in Seq(Answers) /\ replies # <<>>
        BY <3>1 DEF AskInv, AskData
      <4>2. Last(replies) \in Answers
        BY <4>1 DEF Last
      <4> QED
        BY <4>2 DEF Source, Answers
    <3>3. output = <<>> => Source = "deterministic"
      BY DEF Source
    <3> QED
      BY <3>1, <3>2, <3>3
  <2> QED
    BY <2>1, <2>2, <2>3 DEF PlanTellsItsSource
<1> QED
  BY <1>1, <1>2, <1>3, PTL DEF PlanningSpec

-----------------------------------------------------------------------------
(***************************************************************************)
(* What is persisted.                                                      *)
(***************************************************************************)
\* A row keeps its mission's definition whatever plan wrote it.
RowOf(row, t) ==
  /\ row \in MissionRecords /\ row.type = t
  /\ row.required = Defined[t].required /\ row.attempts = Defined[t].attempts

\* The missions that have their row already, or are still to do.
Persisted(accepted, t) == t \in DOMAIN missionRows /\ missionRows[t] = Told(accepted, t)
ToDo(t) == \E k \in 1..Len(todo) : todo[k].type = t

\* The strengthening of PlanIsCarriedOut: while the missions are persisted one
\* after another, each is either in its row as the plan has it or still to do.
\* Rows of an attempt before may differ until then.
RowsInv ==
  /\ Len(planRow) <= 1 /\ todo \in Seq(Fitting)
  /\ DOMAIN missionRows \subseteq Types
  /\ \A t \in DOMAIN missionRows : RowOf(missionRows[t], t)
  /\ DOMAIN missionRows # {} => planRow # <<>>
  /\ step \in {"persisting", "planned"} =>
       /\ planRow # <<>> /\ planRow[1].accepted \in Seq(Fitting)
       /\ \A k \in 1..Len(todo) : todo[k] = Told(planRow[1].accepted, todo[k].type)
       /\ \A t \in Types : Persisted(planRow[1].accepted, t) \/ ToDo(t)
  /\ step = "planned" => todo = <<>>

LEMMA SettingStays ==
  ASSUME setting' = setting
  PROVE  Fitting' = Fitting /\ Types' = Types
<1>1. Types' = Types
  BY DEF Types, Baseline
<1>2. \A m : Fits(m, m.type)' <=> Fits(m, m.type)
  BY DEF Fits
<1> QED
  BY <1>1, <1>2, Zenon DEF Fitting

LEMMA RowsInvInit == PlanningInit => RowsInv
<1> SUFFICES ASSUME PlanningInit PROVE RowsInv
  OBVIOUS
<1>1. DOMAIN missionRows = {} /\ todo = <<>> /\ planRow = <<>> /\ step = "start"
  BY DEF PlanningInit
<1> QED
  BY <1>1 DEF RowsInv

\* A mission's row is what the plan that is persisted tells of it.
LEMMA RowIsTheMission ==
  ASSUME NEW row, NEW m \in Fitting, RowOf(row, m.type)
  PROVE  With(row, m.priority, m.limits, m.origin, m.routes) = m
<1>1. /\ row \in MissionRecords /\ m \in MissionRecords /\ row.type = m.type
      /\ row.required = m.required /\ row.attempts = m.attempts
  BY DEF RowOf, Fitting, Fits
<1>2. With(row, m.priority, m.limits, m.origin, m.routes) =
        [type |-> m.type, priority |-> m.priority, required |-> m.required,
         attempts |-> m.attempts, limits |-> m.limits, origin |-> m.origin,
         routes |-> m.routes]
  BY <1>1, MissionWith
<1>3. m = [type |-> m.type, priority |-> m.priority, required |-> m.required,
           attempts |-> m.attempts, limits |-> m.limits, origin |-> m.origin,
           routes |-> m.routes]
  BY <1>1 DEF MissionRecords
<1> QED
  BY <1>2, <1>3, Zenon

\* The mission that is persisted is no longer to do, and the others are as before.
LEMMA PersistingStays ==
  ASSUME AskInv, RowsInv, PersistMission
  PROVE  RowsInv'
<1> DEFINE m == Head(todo)
    n == Len(todo)
    accepted == planRow[1].accepted
<1>1. /\ step = "persisting" /\ todo # <<>> /\ todo' = Tail(todo)
      /\ UNCHANGED <<setting, step, planRow>>
      /\ missionRows' = [t \in DOMAIN missionRows \cup {m.type} |->
                IF t # m.type THEN missionRows[t]
                ELSE IF t \notin DOMAIN missionRows THEN m
                ELSE With(missionRows[t], m.priority, m.limits, m.origin, m.routes)]
  BY DEF PersistMission, With
<1>2. /\ todo \in Seq(Fitting) /\ DOMAIN missionRows \subseteq Types
      /\ \A t \in DOMAIN missionRows : RowOf(missionRows[t], t)
      /\ Len(planRow) <= 1 /\ planRow # <<>> /\ accepted \in Seq(Fitting)
      /\ \A k \in 1..n : todo[k] = Told(accepted, todo[k].type)
      /\ \A t \in Types : Persisted(accepted, t) \/ ToDo(t)
  BY <1>1 DEF RowsInv
<1>3. /\ n \in Nat \ {0} /\ m \in Fitting /\ m = todo[1] /\ todo' \in Seq(Fitting)
      /\ Len(todo') = n - 1 /\ \A k \in 1..(n - 1) : todo'[k] = todo[k + 1]
  <2>1. todo \in Seq(Fitting) /\ todo # <<>> /\ todo' = Tail(todo)
    BY <1>1, <1>2
  <2> QED
    BY <2>1, HeadTailProperties
<1> HIDE DEF m
<1>4. m = Told(accepted, m.type) /\ m.type \in Types /\ RowOf(m, m.type)
  <2>1. 1 \in 1..n
    BY <1>3
  <2>2. m = Told(accepted, m.type)
    BY <1>2, <1>3, <2>1
  <2> QED
    BY <1>3, <2>2 DEF Fitting, Fits, RowOf
<1>5. m.type \in DOMAIN missionRows =>
        With(missionRows[m.type], m.priority, m.limits, m.origin, m.routes) = m
  BY <1>2, <1>3, RowIsTheMission
<1>6. /\ DOMAIN missionRows' = DOMAIN missionRows \cup {m.type}
      /\ missionRows'[m.type] = m
      /\ \A t \in DOMAIN missionRows : t # m.type => missionRows'[t] = missionRows[t]
  BY <1>1, <1>5
<1>7. DOMAIN missionRows' \subseteq Types /\ \A t \in DOMAIN missionRows' : RowOf(missionRows'[t], t)
  BY <1>2, <1>4, <1>6
<1>8. \A k \in 1..Len(todo') : todo'[k] = Told(accepted, todo'[k].type)
  BY <1>2, <1>3
<1>9. ASSUME NEW t \in Types
      PROVE  \/ t \in DOMAIN missionRows' /\ missionRows'[t] = Told(accepted, t)
             \/ \E k \in 1..Len(todo') : todo'[k].type = t
  <2>1. CASE t = m.type
    BY <1>4, <1>6, <2>1
  <2>2. CASE t # m.type /\ Persisted(accepted, t)
    BY <1>6, <2>2 DEF Persisted
  <2>3. CASE t # m.type /\ ToDo(t)
    <3>1. PICK k \in 1..n : todo[k].type = t
      BY <2>3 DEF ToDo
    <3>2. k # 1
      BY <1>3, <2>3, <3>1
    <3>3. k - 1 \in 1..(n - 1) /\ todo'[k - 1] = todo[k]
      BY <1>3, <3>1, <3>2
    <3> QED
      BY <1>3, <3>1, <3>3
  <2> QED
    BY <1>2, <2>1, <2>2, <2>3
<1>10. Fitting' = Fitting /\ Types' = Types /\ planRow' = planRow /\ step' = "persisting"
  BY <1>1, SettingStays
<1> QED
  BY <1>2, <1>3, <1>7, <1>8, <1>9, <1>10 DEF RowsInv, Persisted, ToDo

\* Every step of the planner's job keeps it, a restart over old rows included.
LEMMA RowsInvStays ==
  ASSUME AskInv, RowsInv, [PlanningNext]_planningVars
  PROVE  RowsInv'
<1>1. ASSUME UNCHANGED <<setting, planRow, missionRows, todo>>,
             step' = step \/ step' \notin {"persisting", "planned"}
      PROVE  RowsInv'
  <2>1. Fitting' = Fitting /\ Types' = Types
    BY <1>1, SettingStays
  <2> QED
    BY <1>1, <2>1 DEF RowsInv, Persisted, ToDo
<1>2. CASE \/ UserStopsPlanning \/ RefuseTarget \/ BeginPlanning \/ TakeSnapshot
           \/ SnapshotFails \/ BuildPrompt \/ UNCHANGED planningVars
  <2>1. UNCHANGED <<setting, planRow, missionRows, todo>>
    BY <1>2 DEF UserStopsPlanning, RefuseTarget, BeginPlanning, TakeSnapshot, SnapshotFails,
                BuildPrompt, planningVars, stored, local
  <2>2. step' = step \/ step' \notin {"persisting", "planned"}
    BY <1>2 DEF UserStopsPlanning, RefuseTarget, BeginPlanning, TakeSnapshot, SnapshotFails,
                BuildPrompt, planningVars, PlanningStep
  <2> QED
    BY <1>1, <2>1, <2>2
<1>3. CASE \E r \in Replies \cup {MockReply(setting.scenario)} : AskPlanner(r)
  <2>1. PICK r \in Replies \cup {MockReply(setting.scenario)} : AskPlanner(r)
    BY <1>3
  <2>2. UNCHANGED <<setting, planRow, missionRows, todo>>
    BY <2>1 DEF AskPlanner, stored
  <2>3. step' = step \/ step' \notin {"persisting", "planned"}
    BY <2>1 DEF AskPlanner, TakeAnswer, GiveUpAsking
  <2> QED
    BY <1>1, <2>2, <2>3
<1>4. CASE AskMockInstead
  <2>1. UNCHANGED <<setting, planRow, missionRows, todo>>
    BY <1>4 DEF AskMockInstead, stored
  <2>2. step' \notin {"persisting", "planned"}
    BY <1>4 DEF AskMockInstead, TakeAnswer, GiveUpAsking
  <2> QED
    BY <1>1, <2>1, <2>2
<1>5. CASE WritePlan
  <2>1. /\ step' = "persisting" /\ UNCHANGED <<setting, missionRows>>
        /\ Len(planRow') = 1 /\ planRow' # <<>>
        /\ planRow'[1].accepted = MergedPlan.accepted /\ todo' = MergedPlan.missions
    BY <1>5 DEF WritePlan, PlanningStep
  <2>2. PlanHolds(MergedPlan.accepted, MergedPlan.missions)
    BY MergedPlanHolds DEF AskInv, AskData
  <2>3. Fitting' = Fitting /\ Types' = Types
    BY <2>1, SettingStays
  <2>4. /\ DOMAIN missionRows \subseteq Types
        /\ \A t \in DOMAIN missionRows : RowOf(missionRows[t], t)
    BY DEF RowsInv
  <2>5. \A t \in Types : ToDo(t)'
    BY <2>1, <2>2 DEF PlanHolds, ToDo
  <2> QED
    BY <2>1, <2>2, <2>3, <2>4, <2>5 DEF RowsInv, PlanHolds
<1>6. CASE PersistMission
  BY <1>6, PersistingStays
<1>7. CASE QueueMissions
  <2>1. /\ UNCHANGED <<setting, planRow, missionRows, todo>> /\ todo = <<>>
        /\ step = "persisting" /\ step' \in {"stopped", "planned"}
    BY <1>7 DEF QueueMissions, PlanningStep, stored, local
  <2>2. Fitting' = Fitting /\ Types' = Types
    BY <2>1, SettingStays
  <2> QED
    BY <2>1, <2>2 DEF RowsInv, Persisted, ToDo
<1>8. CASE PlanningDies
  <2>1. /\ UNCHANGED <<setting, planRow, missionRows>> /\ todo' = <<>> /\ step' = "start"
    BY <1>8 DEF PlanningDies
  <2>2. Fitting' = Fitting /\ Types' = Types
    BY <2>1, SettingStays
  <2>3. todo' \in Seq(Fitting')
    BY <2>1
  <2> QED
    BY <2>1, <2>2, <2>3 DEF RowsInv
<1> QED
  BY <1>2, <1>3, <1>4, <1>5, <1>6, <1>7, <1>8 DEF PlanningNext

\* A plan whose missions all have their rows is carried out.
LEMMA RowsAreThePlan ==
  ASSUME AskInv, RowsInv
  PROVE  PlanIsCarriedOut
<1> SUFFICES ASSUME step = "planned" PROVE PlanIsCarriedOut
  BY DEF PlanIsCarriedOut, PlanIsExecutable, RowsFollowThePlan
<1> DEFINE accepted == planRow[1].accepted
<1>1. /\ accepted \in Seq(Fitting) /\ DOMAIN missionRows \subseteq Types
      /\ \A t \in Types : Persisted(accepted, t)
  BY DEF RowsInv, ToDo
<1>2. DOMAIN missionRows = Types /\ \A t \in Types : missionRows[t] = Told(accepted, t)
  BY <1>1 DEF Persisted
<1>3. setting \in Settings
  BY DEF AskInv, AskData
<1>4. ASSUME NEW t \in Types PROVE Fits(missionRows[t], t)
  <2>1. missionRows[t] \in Fitting /\ missionRows[t].type = t
    BY <1>1, <1>2, <1>3, ToldFits
  <2> QED
    BY <2>1 DEF Fitting
<1>5. PlanIsExecutable
  <2> SUFFICES ASSUME NEW t \in Types
               PROVE  LET own == Defined[t].limits
                          limits == missionRows[t].limits
                      IN /\ missionRows[t].required = Defined[t].required
                         /\ missionRows[t].attempts = Defined[t].attempts
                         /\ limits.pages \in 1..Max({own.pages, setting.maxPages})
                         /\ limits.links \in 0..Max({own.links, setting.maxLinks})
                         /\ limits.clicks \in 0..Max({own.clicks, setting.maxClicks})
                         /\ missionRows[t].priority \in 1..100
                         /\ missionRows[t].routes # <<>>
                         /\ \A i \in DOMAIN missionRows[t].routes :
                              \A q \in missionRows[t].routes[i].params : q.name \notin SensitiveNames
    BY <1>2 DEF PlanIsExecutable, Types
  <2>1. Fits(missionRows[t], t)
    BY <1>4
  <2>2. \A i \in DOMAIN missionRows[t].routes :
          \A q \in missionRows[t].routes[i].params : q.name \notin SensitiveNames
    <3>1. missionRows[t].routes \in Seq(CleanRoutes)
      BY <2>1 DEF Fits
    <3>2. \A i \in DOMAIN missionRows[t].routes : missionRows[t].routes[i] \in CleanRoutes
      BY <3>1
    <3> QED
      BY <3>2 DEF CleanRoutes
  <2> QED
    BY <2>1, <2>2 DEF Fits
<1>6. RowsFollowThePlan
  BY <1>2 DEF RowsFollowThePlan, Told
<1> QED
  BY <1>5, <1>6 DEF PlanIsCarriedOut

\* When runPlanningJob hands the missions to the queue they are those of the
\* baseline, within their limits or those of the policy, on routes without a sensitive
\* parameter; and each is what the AuditPlan row tells of it, also when the job was
\* handed out again over the rows of an earlier attempt.
THEOREM PlansAreCarriedOut == PlanningSpec => []PlanIsCarriedOut
<1>1. PlanningInit => AskInv /\ RowsInv
  BY AskInvInit, RowsInvInit
<1>2. AskInv /\ RowsInv /\ [PlanningNext]_planningVars => (AskInv /\ RowsInv)'
  BY AskInvStays, RowsInvStays
<1>3. AskInv /\ RowsInv => PlanIsCarriedOut
  BY RowsAreThePlan
<1> QED
  BY <1>1, <1>2, <1>3, PTL DEF PlanningSpec

-----------------------------------------------------------------------------
(***************************************************************************)
(* What the provider is told.                                              *)
(***************************************************************************)
\* The URLs that the page or the user named, and their paths.
Named == Range(site.routes) \cup {l.url : l \in Range(site.links)} \cup setting.context.login
NamedPath(path) == \E u \in Named : u.site = "self" /\ ~u.bad /\ u.path = path

RawTexts == SUBSET (STRING \cup {Redacted})
CleanTexts == {text \in RawTexts : text \cap Secrets = {}}

\* A URL that can only be taken for the target's own if it was named.
RawUrls == {u \in Urls : SameOriginOrRelative(u) => NamedPath(u.path)}
BlankedUrls == {u \in Urls : \A q \in u.params : q.name \in SensitiveNames => q.value = Redacted}
CleanUrls == RawUrls \cap BlankedUrls

OwnRoutes == {r \in CleanRoutes : NamedPath(r.path)}

Signalled == SUBSET DOMAIN SignalWords

RawFields == [kind : STRING, label : RawTexts]
RawForms == [action : SUBSET Urls, fields : Seq(RawFields)]
RawHeadings == [level : 1..6, text : RawTexts]
RawLinks == [text : RawTexts, url : RawUrls]

\* What Sanitized may be given.
RawSnapshot(s) ==
  /\ s.target = site.target /\ s.final = site.final
  /\ s.title \in RawTexts /\ s.description \in RawTexts
  /\ s.headings \in Seq(RawHeadings) /\ s.links \in Seq(RawLinks)
  /\ s.buttons \in Seq(RawTexts) /\ s.forms \in Seq(RawForms)
  /\ s.routes \in Seq(RawUrls) /\ s.signals \in Signalled
  /\ s.consoleErrors \in Nat /\ s.failedRequests \in Nat

CleanFields == {x \in [kind : STRING, label : CleanTexts] : Fold(x.kind) # "password"}
CleanForms == [action : SUBSET BlankedUrls, fields : Seq(CleanFields)]
CleanHeadings == [level : 1..6, text : CleanTexts]
CleanLinks == [text : CleanTexts, url : CleanUrls]

CleanSnapshots ==
  [target : {site.target}, final : {site.final}, title : CleanTexts,
   description : CleanTexts, headings : Seq(CleanHeadings),
   links : Seq(CleanLinks), buttons : Seq(CleanTexts), forms : Seq(CleanForms),
   routes : Seq(OwnRoutes), signals : Signalled, consoleErrors : Nat, failedRequests : Nat]

LEMMA RedactCleans ==
  ASSUME NEW text \in RawTexts
  PROVE  Redact(text) \in CleanTexts
<1>1. CASE text \cap Secrets = {}
  BY <1>1 DEF Redact, CleanTexts
<1>2. CASE text \cap Secrets # {}
  <2>1. Redact(text) = (text \ Secrets) \cup {Redacted}
    BY <1>2 DEF Redact
  <2>2. Redact(text) \in RawTexts
    BY <2>1 DEF RawTexts
  <2>3. Redact(text) \cap Secrets = {}
    BY <2>1, SecretsAssumption
  <2> QED
    BY <2>2, <2>3 DEF CleanTexts
<1> QED
  BY <1>1, <1>2

LEMMA CleanUrlBlanks ==
  ASSUME NEW u \in Urls
  PROVE  /\ CleanUrl(u) \in BlankedUrls
         /\ u \in RawUrls => CleanUrl(u) \in CleanUrls
<1> DEFINE blanked ==
      {[name |-> p.name, value |-> IF p.name \in SensitiveNames THEN Redacted ELSE p.value] :
         p \in u.params}
    c == CleanUrl(u)
<1>1. c = [u EXCEPT !.params = blanked]
  BY DEF CleanUrl
<1>2. ASSUME NEW q \in blanked
      PROVE  /\ q \in [name : STRING, value : Words]
             /\ q.name \in SensitiveNames => q.value = Redacted
  <2>1. PICK p \in u.params :
          q = [name |-> p.name, value |-> IF p.name \in SensitiveNames THEN Redacted ELSE p.value]
    OBVIOUS
  <2>2. p \in [name : STRING, value : Words] /\ Redacted \in Words
    BY DEF Urls, Words
  <2> QED
    BY <2>1, <2>2
<1> HIDE DEF blanked
<1>3. /\ c.site = u.site /\ c.rooted = u.rooted /\ c.bad = u.bad /\ c.path = u.path
      /\ c.params = blanked /\ c \in Urls
  BY <1>1, <1>2 DEF Urls
<1> HIDE DEF c
<1>4. c \in BlankedUrls
  BY <1>2, <1>3 DEF BlankedUrls
<1>5. SameOriginOrRelative(c) <=> SameOriginOrRelative(u)
  BY <1>3 DEF SameOriginOrRelative
<1>6. u \in RawUrls => c \in RawUrls
  BY <1>3, <1>5 DEF RawUrls
<1> QED
  BY <1>4, <1>6 DEF CleanUrls, c

\* A route of a URL that was named is itself named, and has no sensitive
\* parameter.
LEMMA RawRoutesAreOwn ==
  ASSUME NEW s \in Seq(RawUrls)
  PROVE  RoutesOf(s) \in Seq(OwnRoutes)
<1>1. Routed(RawUrls) \subseteq OwnRoutes
  <2> SUFFICES ASSUME NEW u \in RawUrls, SameOriginOrRelative(u)
               PROVE  RoutePath(u) \in OwnRoutes
    BY DEF Routed
  <2>1. u \in Urls /\ NamedPath(u.path)
    BY DEF RawUrls
  <2>2. RoutePath(u) \in CleanRoutes /\ RoutePath(u).path = u.path
    BY <2>1 DEF RoutePath, Urls, CleanRoutes
  <2> QED
    BY <2>1, <2>2 DEF OwnRoutes
<1>2. RoutesOf(s) \in Seq(Routed(RawUrls))
  BY RoutesAreRouted
<1> QED
  BY <1>1, <1>2

LEMMA LinksByUrl ==
  ASSUME NEW S, NEW s \in Seq(S)
  PROVE  DistinctBy(s, LAMBDA l : l.url) \in Seq(S)
BY FirstByKeyIs DEF DistinctBy

LEMMA RoutesByKey ==
  ASSUME NEW S, NEW s \in Seq(S)
  PROVE  DistinctBy(s, RouteKey) \in Seq(S)
BY FirstByKeyIs DEF DistinctBy

LEMMA LinksThatParse ==
  ASSUME NEW S, NEW s \in Seq(S)
  PROVE  Only(s, LAMBDA l : ~l.url.bad) \in Seq(S)
<1> DEFINE T == {l \in Range(s) : ~l.url.bad}
<1>1. Among(s, T) \in Seq(S \cap T)
  BY AmongIs
<1>2. Only(s, LAMBDA l : ~l.url.bad) = Among(s, T)
  BY DEF Only
<1> HIDE DEF T
<1>3. S \cap T \subseteq S
  OBVIOUS
<1> QED
  BY <1>1, <1>2, <1>3, SeqOfMore

LEMMA FieldsToTell ==
  ASSUME NEW S, NEW s \in Seq(S)
  PROVE  Only(s, LAMBDA x : Fold(x.kind) # "password") \in
           Seq({x \in S : Fold(x.kind) # "password"})
<1> DEFINE T == {x \in Range(s) : Fold(x.kind) # "password"}
<1>1. Among(s, T) \in Seq(S \cap T)
  BY AmongIs
<1>2. S \cap T \subseteq {x \in S : Fold(x.kind) # "password"}
  OBVIOUS
<1>3. Only(s, LAMBDA x : Fold(x.kind) # "password") = Among(s, T)
  BY DEF Only
<1> HIDE DEF T
<1> QED
  BY <1>1, <1>2, <1>3, SeqOfMore

LEMMA FormIsClean ==
  ASSUME NEW f \in RawForms
  PROVE  CleanForm(f) \in CleanForms
<1> DEFINE shown == Only(f.fields, LAMBDA x : Fold(x.kind) # "password")
    Shown == {x \in RawFields : Fold(x.kind) # "password"}
    kept == FirstOf(shown, Caps.fields)
    fields == Mapped(kept, LAMBDA x : [kind |-> x.kind, label |-> Redact(x.label)])
    action == {CleanUrl(u) : u \in {x \in f.action : ~x.bad}}
<1>1. f.fields \in Seq(RawFields) /\ f.action \in SUBSET Urls
  BY DEF RawForms
<1>2. shown \in Seq(Shown)
  BY <1>1, FieldsToTell
<1>3. Caps.fields \in Nat
  BY CapsAssumption DEF CapNames
<1>4. kept \in Seq(Shown)
  <2> HIDE DEF shown, Shown
  <2> QED
    BY <1>2, <1>3, FirstOfStays
<1>5. \A x \in Shown : [kind |-> x.kind, label |-> Redact(x.label)] \in CleanFields
  <2> SUFFICES ASSUME NEW x \in Shown
               PROVE  [kind |-> x.kind, label |-> Redact(x.label)] \in CleanFields
    OBVIOUS
  <2>1. x.kind \in STRING /\ x.label \in RawTexts /\ Fold(x.kind) # "password"
    BY DEF RawFields
  <2>2. Redact(x.label) \in CleanTexts
    BY <2>1, RedactCleans
  <2> QED
    BY <2>1, <2>2 DEF CleanFields
<1> HIDE DEF kept, Shown
<1>6. fields \in Seq(CleanFields)
  BY <1>4, <1>5 DEF Mapped
<1>7. action \in SUBSET BlankedUrls
  BY <1>1, CleanUrlBlanks
<1>8. CleanForm(f) = [action |-> action, fields |-> fields]
  BY Zenon DEF CleanForm, kept
<1> HIDE DEF fields, action
<1> QED
  BY <1>6, <1>7, <1>8 DEF CleanForms

LEMMA SanitizedIsClean ==
  ASSUME NEW s, RawSnapshot(s), NEW links \in Nat, NEW forms \in Nat, NEW routes \in Nat
  PROVE  Sanitized(s, [links |-> links, forms |-> forms, routes |-> routes]) \in CleanSnapshots
<1> DEFINE limits == [links |-> links, forms |-> forms, routes |-> routes]
<1>1. /\ s.target = site.target /\ s.final = site.final
      /\ s.title \in RawTexts /\ s.description \in RawTexts
      /\ s.headings \in Seq(RawHeadings) /\ s.links \in Seq(RawLinks)
      /\ s.buttons \in Seq(RawTexts) /\ s.forms \in Seq(RawForms)
      /\ s.routes \in Seq(RawUrls) /\ s.signals \in Signalled
      /\ s.consoleErrors \in Nat /\ s.failedRequests \in Nat
  BY DEF RawSnapshot
<1>2. Caps.headings \in Nat /\ Caps.buttons \in Nat
  BY CapsAssumption DEF CapNames
<1>3. Redact(s.title) \in CleanTexts /\ Redact(s.description) \in CleanTexts
  BY <1>1, RedactCleans
<1> DEFINE headings == Mapped(FirstOf(s.headings, Caps.headings),
                              LAMBDA h : [level |-> h.level, text |-> Redact(h.text)])
<1>4. headings \in Seq(CleanHeadings)
  <2> DEFINE first == FirstOf(s.headings, Caps.headings)
  <2>1. first \in Seq(RawHeadings)
    BY <1>1, <1>2, FirstOfStays
  <2>2. \A h \in RawHeadings : [level |-> h.level, text |-> Redact(h.text)] \in CleanHeadings
    BY RedactCleans DEF RawHeadings, CleanHeadings
  <2> HIDE DEF first
  <2>3. headings \in Seq(CleanHeadings)
    BY <2>1, <2>2 DEF Mapped, first
  <2> QED
    BY <2>3
<1> DEFINE found == Mapped(Only(s.links, LAMBDA l : ~l.url.bad), CleanLink)
    kept == Unique(found, LAMBDA l : l.url, links)
<1>5. kept \in Seq(CleanLinks)
  <2> DEFINE parsed == Only(s.links, LAMBDA l : ~l.url.bad)
  <2>1. parsed \in Seq(RawLinks)
    BY <1>1, LinksThatParse
  <2>2. \A l \in RawLinks : CleanLink(l) \in CleanLinks
    <3> SUFFICES ASSUME NEW l \in RawLinks PROVE CleanLink(l) \in CleanLinks
      OBVIOUS
    <3>1. l.text \in RawTexts /\ l.url \in RawUrls /\ l.url \in Urls
      BY DEF RawLinks, RawUrls
    <3>2. Redact(l.text) \in CleanTexts
      BY <3>1, RedactCleans
    <3>3. CleanUrl(l.url) \in CleanUrls
      BY <3>1, CleanUrlBlanks
    <3> QED
      BY <3>2, <3>3 DEF CleanLink, CleanLinks
  <2> HIDE DEF parsed
  <2>3. found \in Seq(CleanLinks)
    BY <2>1, <2>2 DEF Mapped, parsed
  <2> HIDE DEF found
  <2>4. DistinctBy(found, LAMBDA l : l.url) \in Seq(CleanLinks)
    BY <2>3, LinksByUrl
  <2> QED
    BY <2>4, FirstOfStays DEF Unique
<1> DEFINE buttons == Mapped(FirstOf(s.buttons, Caps.buttons), Redact)
<1>6. buttons \in Seq(CleanTexts)
  <2> DEFINE first == FirstOf(s.buttons, Caps.buttons)
  <2>1. first \in Seq(RawTexts)
    BY <1>1, <1>2, FirstOfStays
  <2> HIDE DEF first
  <2>2. Mapped(first, Redact) \in Seq(CleanTexts)
    BY <2>1, RedactCleans DEF Mapped
  <2> QED
    BY <2>2 DEF first
<1> DEFINE cleanForms == Mapped(FirstOf(s.forms, forms), CleanForm)
<1>7. cleanForms \in Seq(CleanForms)
  <2> DEFINE first == FirstOf(s.forms, forms)
  <2>1. first \in Seq(RawForms)
    BY <1>1, FirstOfStays
  <2> HIDE DEF first
  <2>2. Mapped(first, CleanForm) \in Seq(CleanForms)
    BY <2>1, FormIsClean DEF Mapped
  <2> QED
    BY <2>2 DEF first
<1>8. FirstOf(RoutesOf(s.routes), routes) \in Seq(OwnRoutes)
  BY <1>1, RawRoutesAreOwn, FirstOfStays
<1> DEFINE own == FirstOf(RoutesOf(s.routes), routes)
<1>9. Sanitized(s, limits) =
        [target |-> s.target, final |-> s.final,
         title |-> Redact(s.title), description |-> Redact(s.description),
         headings |-> headings, links |-> kept, buttons |-> buttons, forms |-> cleanForms,
         routes |-> own, signals |-> s.signals, consoleErrors |-> s.consoleErrors,
         failedRequests |-> s.failedRequests]
  <2>1. limits.links = links /\ limits.forms = forms /\ limits.routes = routes
    OBVIOUS
  <2> HIDE DEF limits
  <2> QED
    BY <2>1, Zenon DEF Sanitized
<1> HIDE DEF headings, kept, buttons, cleanForms, own
<1> QED
  BY <1>1, <1>3, <1>4, <1>5, <1>6, <1>7, <1>8, <1>9 DEF CleanSnapshots, own

LEMMA AsSequence ==
  ASSUME NEW S, IsFiniteSet(S)
  PROVE  SetToSeq(S) \in Seq(S)
<1>1. Cardinality(S) \in Nat /\ ExistsBijection(1..Cardinality(S), S)
  BY FS_CardinalityType
<1>2. \E f \in [1..Cardinality(S) -> S] : IsInjective(f)
  BY <1>1 DEF ExistsBijection, Bijection, Injection
<1>3. SetToSeq(S) \in [1..Cardinality(S) -> S]
  BY <1>2 DEF SetToSeq
<1> QED
  BY <1>1, <1>3

\* The user's context as the provider is told it.
ContextIsClean(c) ==
  /\ c.login \subseteq CleanUrls /\ IsFiniteSet(c.login) /\ c.notes \in Seq(CleanTexts)

LEMMA NamedUrlsAreRaw ==
  ASSUME NEW u \in AbsoluteUrl, u \in Named
  PROVE  u \in RawUrls
<1>1. u \in Urls /\ ~u.rooted
  BY DEF AbsoluteUrl, AnyUrl, Urls, Words, Parameters
<1>2. SameOriginOrRelative(u) => NamedPath(u.path)
  BY <1>1 DEF SameOriginOrRelative, NamedPath
<1> QED
  BY <1>1, <1>2 DEF RawUrls

LEMMA ContextIsCleaned ==
  ASSUME setting \in Settings
  PROVE  ContextIsClean(CleanContext(setting.context))
<1> DEFINE context == setting.context
    parsed == {x \in context.login : ~x.bad}
    login == {CleanUrl(u) : u \in parsed}
    notes == Mapped(context.notes, Redact)
<1>1. /\ context.login \in SUBSET AbsoluteUrl /\ IsFiniteSet(context.login)
      /\ context.notes \in Seq(AnyText)
  BY DEF Settings, Contexts
<1>2. login \subseteq CleanUrls
  <2> SUFFICES ASSUME NEW u \in context.login PROVE CleanUrl(u) \in CleanUrls
    OBVIOUS
  <2>1. u \in AbsoluteUrl /\ u \in Named
    BY <1>1 DEF Named
  <2>2. u \in RawUrls /\ u \in Urls
    BY <2>1, NamedUrlsAreRaw DEF RawUrls
  <2> QED
    BY <2>2, CleanUrlBlanks
<1>3. IsFiniteSet(login)
  <2>1. IsFiniteSet(parsed)
    <3>1. parsed \in SUBSET context.login
      OBVIOUS
    <3> QED
      BY <1>1, <3>1, FS_Subset
  <2> DEFINE clean == [u \in parsed |-> CleanUrl(u)]
  <2>2. clean \in Surjection(parsed, login)
    BY DEF Surjection
  <2> HIDE DEF clean, login, parsed
  <2> QED
    BY <2>1, <2>2, FS_Surjection
<1>4. notes \in Seq(CleanTexts)
  <2>1. \A text \in AnyText : Redact(text) \in CleanTexts
    BY RedactCleans DEF AnyText, RawTexts
  <2> QED
    BY <1>1, <2>1 DEF Mapped
<1>5. /\ CleanContext(context).login = login /\ CleanContext(context).notes = notes
  <2> HIDE DEF context
  <2> QED
    BY DEF CleanContext, context
<1> HIDE DEF login, notes
<1> QED
  BY <1>2, <1>3, <1>4, <1>5 DEF ContextIsClean

LEMMA RoutesAsUrls ==
  ASSUME NEW r \in OwnRoutes
  PROVE  AsUrl(r) \in RawUrls
<1>1. r \in [path : Words, params : SUBSET [name : STRING, value : Words], long : BOOLEAN]
  BY DEF OwnRoutes, CleanRoutes
<1>2. AsUrl(r) \in Urls /\ AsUrl(r).path = r.path
  BY <1>1 DEF AsUrl, Urls, Words
<1> QED
  BY <1>2 DEF RawUrls, OwnRoutes

LEMMA KeywordRoutesAreOwn ==
  ASSUME NEW s \in CleanSnapshots, NEW keywords
  PROVE  RoutesByKeyword(s, keywords) \in Seq(OwnRoutes)
<1> DEFINE Candidate == [text : SUBSET (Words \cup STRING), url : RawUrls]
    links == Mapped(s.links, LAMBDA l : [text |-> l.text, url |-> l.url])
    AsTold(r) == [text |-> {r.path}, url |-> AsUrl(r)]
    routes == Mapped(s.routes, AsTold)
    candidates == links \o routes
    matching == Only(candidates,
                     LAMBDA c : {Fold(w) : w \in c.text \cup {c.url.path}} \cap keywords # {})
    urls == Mapped(matching, LAMBDA c : c.url)
<1>1. s.links \in Seq(CleanLinks) /\ s.routes \in Seq(OwnRoutes)
  BY DEF CleanSnapshots
<1>2. links \in Seq(Candidate)
  <2>1. \A l \in CleanLinks : [text |-> l.text, url |-> l.url] \in Candidate
    <3> SUFFICES ASSUME NEW l \in CleanLinks PROVE [text |-> l.text, url |-> l.url] \in Candidate
      OBVIOUS
    <3>1. l.text \in SUBSET (Words \cup STRING) /\ l.url \in RawUrls
      BY DEF CleanLinks, CleanTexts, RawTexts, CleanUrls, Words
    <3> QED
      BY <3>1
  <2> HIDE DEF Candidate
  <2> QED
    BY <1>1, <2>1 DEF Mapped
<1>3. routes \in Seq(Candidate)
  <2>1. \A r \in OwnRoutes : AsTold(r) \in Candidate
    <3> SUFFICES ASSUME NEW r \in OwnRoutes PROVE AsTold(r) \in Candidate
      OBVIOUS
    <3>1. r.path \in Words
      BY DEF OwnRoutes, CleanRoutes
    <3> QED
      BY <3>1, RoutesAsUrls
  <2> HIDE DEF Candidate, AsTold
  <2> QED
    BY <1>1, <2>1 DEF Mapped
<1> HIDE DEF links, routes
<1>4. candidates \in Seq(Candidate)
  <2> HIDE DEF Candidate
  <2> QED
    BY <1>2, <1>3, ConcatProperties
<1> HIDE DEF candidates
<1>5. matching \in Seq(Candidate)
  <2> HIDE DEF Candidate
  <2> DEFINE T == {c \in Range(candidates) :
                    {Fold(w) : w \in c.text \cup {c.url.path}} \cap keywords # {}}
  <2>1. Among(candidates, T) \in Seq(Candidate \cap T)
    BY <1>4, AmongIs
  <2>2. matching = Among(candidates, T)
    BY DEF Only
  <2> HIDE DEF T, matching
  <2>3. Candidate \cap T \subseteq Candidate
    OBVIOUS
  <2> QED
    BY <2>1, <2>2, <2>3, SeqOfMore
<1> HIDE DEF matching
<1>6. urls \in Seq(RawUrls)
  <2>1. \A c \in Candidate : c.url \in RawUrls
    OBVIOUS
  <2> HIDE DEF Candidate
  <2> QED
    BY <1>5, <2>1 DEF Mapped
<1> HIDE DEF urls
<1>7. RoutesOf(urls) \in Seq(OwnRoutes)
  BY <1>6, RawRoutesAreOwn
<1>8. DistinctBy(RoutesOf(urls), RouteKey) \in Seq(OwnRoutes)
  <2> DEFINE own == RoutesOf(urls)
  <2> HIDE DEF own
  <2>1. DistinctBy(own, RouteKey) \in Seq(OwnRoutes)
    BY <1>7, RoutesByKey DEF own
  <2> QED
    BY <2>1 DEF own
<1>9. Caps.journeyRoutes \in Nat
  BY CapsAssumption DEF CapNames
<1>10. RoutesByKeyword(s, keywords) =
         FirstOf(DistinctBy(RoutesOf(urls), RouteKey), Caps.journeyRoutes)
  BY Zenon DEF RoutesByKeyword, Unique, urls, matching, candidates, links, routes
<1> QED
  BY <1>8, <1>9, <1>10, FirstOfStays

JourneyNames == {"account access", "checkout", "pricing", "search", "dashboard", "forms",
                 "focus"}
OwnJourneys == [name : JourneyNames, routes : Seq(OwnRoutes \cup {Root})]

LEMMA JourneyIsOwn ==
  ASSUME NEW name \in JourneyNames, NEW routes \in Seq(OwnRoutes \cup {Root}),
         NEW condition \in BOOLEAN
  PROVE  Given(condition, Journey(name, routes)) \in Seq(OwnJourneys)
<1>1. <<Root>> \in Seq(OwnRoutes \cup {Root})
  OBVIOUS
<1>2. Journey(name, routes) \in OwnJourneys
  BY <1>1 DEF Journey, OwnJourneys
<1>3. Given(condition, Journey(name, routes)) =
        IF condition THEN <<Journey(name, routes)>> ELSE <<>>
  BY DEF Given
<1> QED
  BY <1>2, <1>3

LEMMA JourneysAreOwn ==
  ASSUME NEW s \in CleanSnapshots, NEW context, ContextIsClean(context)
  PROVE  Journeys(s, context) \in Seq(OwnJourneys)
<1> DEFINE Routes == Seq(OwnRoutes \cup {Root})
    words == {"login", "log in", "signin", "sign in", "account", "auth"}
    logins == RoutesOf(SetToSeq(context.login))
    auth == logins \o RoutesByKeyword(s, words)
    access == "account access"
<1> HIDE DEF words, access
<1>1. ASSUME NEW keywords PROVE RoutesByKeyword(s, keywords) \in Routes
  BY KeywordRoutesAreOwn
<1>2. logins \in Seq(OwnRoutes)
  <2>1. SetToSeq(context.login) \in Seq(context.login) /\ context.login \subseteq RawUrls
    BY AsSequence DEF ContextIsClean, CleanUrls
  <2>2. SetToSeq(context.login) \in Seq(RawUrls)
    BY <2>1
  <2> QED
    BY <2>2, RawRoutesAreOwn
<1>3. FirstOf(auth, Caps.journeyRoutes) \in Routes
  <2>1. RoutesByKeyword(s, words) \in Seq(OwnRoutes)
    BY KeywordRoutesAreOwn
  <2>2. Caps.journeyRoutes \in Nat
    BY CapsAssumption DEF CapNames
  <2> HIDE DEF logins
  <2>3. auth \in Seq(OwnRoutes)
    BY <1>2, <2>1, ConcatProperties
  <2>4. FirstOf(auth, Caps.journeyRoutes) \in Seq(OwnRoutes)
    BY <2>2, <2>3, FirstOfStays
  <2> QED
    BY <2>4
<1>4. <<Root>> \in Routes
  OBVIOUS
<1> DEFINE
    c1 == {"login", "signup"} \cap s.signals # {} \/ context.access # "public"
    c2 == "checkout" \in s.signals \/ context.scope = "checkout"
    c3 == "pricing" \in s.signals
    c4 == "search" \in s.signals
    c5 == "dashboard" \in s.signals
    c6 == "contact" \in s.signals \/ s.forms # <<>>
    c7 == context.scope # "full"
    r1 == FirstOf(auth, Caps.journeyRoutes)
    r2 == RoutesByKeyword(s, {"checkout", "cart", "order", "pricing"})
    r3 == RoutesByKeyword(s, {"pricing", "price", "plan"})
    r4 == RoutesByKeyword(s, {"search"})
    r5 == RoutesByKeyword(s, {"dashboard", "workspace", "app"})
    r6 == RoutesByKeyword(s, {"contact", "newsletter", "subscribe", "form"})
    j1 == Given(c1, Journey(access, r1))
    j2 == Given(c2, Journey("checkout", r2))
    j3 == Given(c3, Journey("pricing", r3))
    j4 == Given(c4, Journey("search", r4))
    j5 == Given(c5, Journey("dashboard", r5))
    j6 == Given(c6, Journey("forms", r6))
    j7 == Given(c7, Journey("focus", <<Root>>))
    all == j1 \o j2 \o j3 \o j4 \o j5 \o j6 \o j7
<1>5. /\ c1 \in BOOLEAN /\ c2 \in BOOLEAN /\ c3 \in BOOLEAN /\ c4 \in BOOLEAN
      /\ c5 \in BOOLEAN /\ c6 \in BOOLEAN /\ c7 \in BOOLEAN
  OBVIOUS
<1>6. r1 \in Routes /\ r2 \in Routes /\ r3 \in Routes /\ r4 \in Routes /\ r5 \in Routes
      /\ r6 \in Routes
  BY <1>1, <1>3
<1> HIDE DEF c1, c2, c3, c4, c5, c6, c7, r1, r2, r3, r4, r5, r6
<1>7. /\ j1 \in Seq(OwnJourneys) /\ j2 \in Seq(OwnJourneys) /\ j3 \in Seq(OwnJourneys)
      /\ j4 \in Seq(OwnJourneys) /\ j5 \in Seq(OwnJourneys) /\ j6 \in Seq(OwnJourneys)
      /\ j7 \in Seq(OwnJourneys)
  <2>1. access \in JourneyNames /\ "checkout" \in JourneyNames /\ "pricing" \in JourneyNames
    BY Zenon DEF JourneyNames, access
  <2>2. "search" \in JourneyNames /\ "dashboard" \in JourneyNames
    BY Zenon DEF JourneyNames
  <2>3. "forms" \in JourneyNames /\ "focus" \in JourneyNames
    BY Zenon DEF JourneyNames
  <2> QED
    BY <1>4, <1>5, <1>6, <2>1, <2>2, <2>3, JourneyIsOwn
<1>8. Journeys(s, context) = FirstOf(all, Caps.journeys)
  BY Zenon DEF Journeys, words, access, c1, c2, c3, c4, c5, c6, c7, r1, r2, r3, r4, r5, r6
<1> HIDE DEF j1, j2, j3, j4, j5, j6, j7
<1>9. all \in Seq(OwnJourneys)
  <2>1. j1 \o j2 \in Seq(OwnJourneys)
    BY <1>7, ConcatProperties
  <2>2. j1 \o j2 \o j3 \in Seq(OwnJourneys)
    BY <1>7, <2>1, ConcatProperties
  <2>3. j1 \o j2 \o j3 \o j4 \in Seq(OwnJourneys)
    BY <1>7, <2>2, ConcatProperties
  <2>4. j1 \o j2 \o j3 \o j4 \o j5 \in Seq(OwnJourneys)
    BY <1>7, <2>3, ConcatProperties
  <2>5. j1 \o j2 \o j3 \o j4 \o j5 \o j6 \in Seq(OwnJourneys)
    BY <1>7, <2>4, ConcatProperties
  <2> QED
    BY <1>7, <2>5, ConcatProperties
<1>10. Caps.journeys \in Nat
  BY CapsAssumption DEF CapNames
<1> HIDE DEF all
<1> QED
  BY <1>8, <1>9, <1>10, FirstOfStays

LEMMA PriorityRoutesAreOwn ==
  ASSUME NEW s \in CleanSnapshots, NEW maxRoutes \in Nat
  PROVE  PriorityRoutes(s, maxRoutes) \in Seq(OwnRoutes)
<1> DEFINE urls == Mapped(s.links, LAMBDA l : l.url)
    named == RoutesOf(urls)
    first == FirstOf(s.routes, maxRoutes)
    both == named \o first
    distinct == DistinctBy(both, RouteKey)
<1>1. s.links \in Seq(CleanLinks) /\ s.routes \in Seq(OwnRoutes)
  BY DEF CleanSnapshots
<1>2. urls \in Seq(RawUrls)
  <2>1. \A l \in CleanLinks : l.url \in RawUrls
    BY DEF CleanLinks, CleanUrls
  <2> QED
    BY <1>1, <2>1 DEF Mapped
<1> HIDE DEF urls
<1>3. named \in Seq(OwnRoutes)
  BY <1>2, RawRoutesAreOwn
<1>4. first \in Seq(OwnRoutes)
  BY <1>1, FirstOfStays
<1> HIDE DEF named, first
<1>5. both \in Seq(OwnRoutes)
  BY <1>3, <1>4, ConcatProperties
<1> HIDE DEF both
<1>6. distinct \in Seq(OwnRoutes)
  BY <1>5, RoutesByKey
<1>7. Caps.researchRoutes \in Nat
  BY CapsAssumption DEF CapNames
<1>8. PriorityRoutes(s, maxRoutes) = FirstOf(FirstOf(distinct, Caps.researchRoutes), maxRoutes)
  BY Zenon DEF PriorityRoutes, Unique, urls, named, first, both
<1> HIDE DEF distinct
<1>9. FirstOf(distinct, Caps.researchRoutes) \in Seq(OwnRoutes)
  BY <1>6, <1>7, FirstOfStays
<1> DEFINE some == FirstOf(distinct, Caps.researchRoutes)
<1> HIDE DEF some
<1>10. FirstOf(some, maxRoutes) \in Seq(OwnRoutes)
  BY <1>9, FirstOfStays DEF some
<1> QED
  BY <1>8, <1>10 DEF some

LEMMA SnapshotWith ==
  ASSUME NEW s \in CleanSnapshots, NEW routes \in Seq(RawUrls)
  PROVE  RawSnapshot([s EXCEPT !.routes = routes])
<1>1. CleanTexts \subseteq RawTexts
  BY DEF CleanTexts
<1>2. CleanHeadings \subseteq RawHeadings
  BY <1>1 DEF CleanHeadings, RawHeadings
<1>3. CleanLinks \subseteq RawLinks
  BY <1>1 DEF CleanLinks, CleanUrls, RawLinks
<1>4. CleanForms \subseteq RawForms
  <2>1. CleanFields \subseteq RawFields
    BY <1>1 DEF CleanFields, RawFields
  <2>2. BlankedUrls \subseteq Urls
    BY DEF BlankedUrls
  <2> SUFFICES ASSUME NEW f \in CleanForms PROVE f \in RawForms
    OBVIOUS
  <2>3. f.action \in SUBSET BlankedUrls /\ f.fields \in Seq(CleanFields)
        /\ f = [action |-> f.action, fields |-> f.fields]
    BY DEF CleanForms
  <2>4. f.fields \in Seq(RawFields)
    BY <2>1, <2>3, SeqOfMore
  <2> QED
    BY <2>2, <2>3, <2>4 DEF RawForms
<1>5. /\ s.target = site.target /\ s.final = site.final
      /\ s.title \in CleanTexts /\ s.description \in CleanTexts
      /\ s.headings \in Seq(CleanHeadings)
      /\ s.links \in Seq(CleanLinks) /\ s.buttons \in Seq(CleanTexts)
      /\ s.forms \in Seq(CleanForms) /\ s.signals \in Signalled
      /\ s.consoleErrors \in Nat /\ s.failedRequests \in Nat /\ "routes" \in DOMAIN s
  BY DEF CleanSnapshots
<1> DEFINE t == [s EXCEPT !.routes = routes]
<1>6. /\ t.target = s.target /\ t.final = s.final /\ t.title = s.title /\ t.description = s.description /\ t.headings = s.headings
      /\ t.links = s.links /\ t.buttons = s.buttons /\ t.forms = s.forms
      /\ t.routes = routes /\ t.signals = s.signals
      /\ t.consoleErrors = s.consoleErrors /\ t.failedRequests = s.failedRequests
  BY DEF CleanSnapshots
<1>7. s.headings \in Seq(RawHeadings) /\ s.links \in Seq(RawLinks)
  BY <1>2, <1>3, <1>5, SeqOfMore
<1>8. s.buttons \in Seq(RawTexts) /\ s.forms \in Seq(RawForms)
  BY <1>1, <1>4, <1>5, SeqOfMore
<1>9. s.title \in RawTexts /\ s.description \in RawTexts
  BY <1>1, <1>5
<1> HIDE DEF t
<1>10. RawSnapshot(t)
  BY <1>5, <1>6, <1>7, <1>8, <1>9 DEF RawSnapshot
<1> QED
  BY <1>10 DEF t

LEMMA CollectedIsRaw ==
  ASSUME site \in Pages
  PROVE  RawSnapshot(Collected(site))
<1> DEFINE Links == [text : AnyText, url : AbsoluteUrl]
    Fields == [kind : STRING, label : AnyText]
    Forms == [action : SUBSET AbsoluteUrl, fields : Seq(Fields)]
    Headings == [level : 1..6, text : AnyText]
<1>1. /\ site.title \in AnyText /\ site.description \in AnyText
      /\ site.headings \in Seq(Headings)
      /\ site.links \in Seq(Links) /\ site.buttons \in Seq(AnyText)
      /\ site.forms \in Seq(Forms) /\ site.routes \in Seq(AbsoluteUrl)
      /\ site.consoleErrors \in Nat /\ site.failedRequests \in Nat
  BY DEF Pages
<1>2. AnyText \subseteq RawTexts
  BY DEF AnyText, RawTexts
<1>3. Headings \subseteq RawHeadings
  BY <1>2 DEF RawHeadings
<1>4. AbsoluteUrl \subseteq Urls
  BY DEF AbsoluteUrl, AnyUrl, Urls, Words, Parameters
<1>5. Forms \subseteq RawForms
  <2>1. Fields \subseteq RawFields
    BY <1>2 DEF RawFields
  <2> HIDE DEF Fields
  <2> SUFFICES ASSUME NEW f \in Forms PROVE f \in RawForms
    OBVIOUS
  <2>2. f.action \in SUBSET AbsoluteUrl /\ f.fields \in Seq(Fields)
        /\ f = [action |-> f.action, fields |-> f.fields]
    OBVIOUS
  <2>3. f.fields \in Seq(RawFields)
    BY <2>1, <2>2, SeqOfMore
  <2> QED
    BY <1>4, <2>2, <2>3 DEF RawForms
<1>6. \A l \in Links : l.text \in RawTexts /\ l.url \in AbsoluteUrl /\ l = [text |-> l.text, url |-> l.url]
  BY <1>2
<1> HIDE DEF Links, Forms, Headings
<1>7. site.headings \in Seq(RawHeadings) /\ site.buttons \in Seq(RawTexts)
  BY <1>1, <1>2, <1>3, SeqOfMore
<1>8. site.forms \in Seq(RawForms)
  BY <1>1, <1>5, SeqOfMore
<1>9. site.routes \in Seq(RawUrls)
  <2> DEFINE routes == site.routes
  <2>1. ASSUME NEW i \in 1..Len(routes) PROVE routes[i] \in RawUrls
    <3>1. routes[i] \in AbsoluteUrl /\ routes[i] \in Range(routes)
      BY <1>1, RangeIs
    <3>2. routes[i] \in Named
      BY <3>1 DEF Named
    <3> QED
      BY <3>1, <3>2, NamedUrlsAreRaw
  <2> HIDE DEF routes
  <2>2. routes \in Seq(AbsoluteUrl)
    BY <1>1 DEF routes
  <2>3. routes \in Seq(RawUrls)
    BY <2>1, <2>2
  <2> QED
    BY <2>3 DEF routes
<1>10. site.links \in Seq(RawLinks)
  <2> DEFINE links == site.links
  <2>1. ASSUME NEW i \in 1..Len(links) PROVE links[i] \in RawLinks
    <3> DEFINE l == links[i]
    <3>1. l \in Links /\ l \in Range(links)
      BY <1>1, RangeIs
    <3>2. l.url \in Named
      BY <3>1 DEF Named
    <3> HIDE DEF l
    <3>3. l.text \in RawTexts /\ l.url \in RawUrls /\ l = [text |-> l.text, url |-> l.url]
      BY <1>6, <3>1, <3>2, NamedUrlsAreRaw
    <3>4. l \in RawLinks
      BY <3>3 DEF RawLinks
    <3> QED
      BY <3>4 DEF l
  <2> HIDE DEF links
  <2>2. links \in Seq(Links)
    BY <1>1 DEF links
  <2>3. links \in Seq(RawLinks)
    BY <2>1, <2>2
  <2> QED
    BY <2>3 DEF links
<1>11. Signals(site) \in Signalled
  BY DEF Signals, Signalled
<1>12. site.title \in RawTexts /\ site.description \in RawTexts
  BY <1>1, <1>2
<1>13. /\ Collected(site).target = site.target /\ Collected(site).final = site.final
       /\ Collected(site).title = site.title /\ Collected(site).description = site.description
       /\ Collected(site).headings = site.headings /\ Collected(site).links = site.links
       /\ Collected(site).buttons = site.buttons /\ Collected(site).forms = site.forms
       /\ Collected(site).routes = site.routes /\ Collected(site).signals = Signals(site)
       /\ Collected(site).consoleErrors = site.consoleErrors
       /\ Collected(site).failedRequests = site.failedRequests
  BY DEF Collected
<1> QED
  BY <1>1, <1>7, <1>8, <1>9, <1>10, <1>11, <1>12, <1>13 DEF RawSnapshot

\* A prompt that was built of a clean snapshot and a clean context. The
\* page's own addresses are in it as they are.
CleanPrompt(p) ==
  /\ p.target = site.target /\ p.research.from \in BlankedUrls
  /\ p.snapshot \in CleanSnapshots /\ ContextIsClean(p.context)
  /\ p.research.routes \in Seq(OwnRoutes) /\ p.research.journeys \in Seq(OwnJourneys)

LEMMA PromptIsBuiltClean ==
  ASSUME setting \in Settings, site \in Pages, NEW s \in CleanSnapshots
  PROVE  CleanPrompt(PlannerPrompt(site.target, s, setting.context, setting.maxRoutes))
<1> DEFINE n == setting.maxRoutes
    urls == Mapped(s.routes, AsUrl)
    limits == [links |-> Caps.researchLinks, forms |-> Caps.researchForms, routes |-> n]
    again == Sanitized([s EXCEPT !.routes = urls], limits)
    context == CleanContext(setting.context)
    research == [from |-> CleanUrl(again.final), signals |-> ProductSignals(again),
                 journeys |-> Journeys(again, context), routes |-> PriorityRoutes(again, n),
                 warnings |-> Warnings(again)]
<1>1. n \in Nat
  BY DEF Settings
<1>2. Caps.researchLinks \in Nat /\ Caps.researchForms \in Nat
  BY CapsAssumption DEF CapNames
<1>3. urls \in Seq(RawUrls)
  <2>1. s.routes \in Seq(OwnRoutes)
    BY DEF CleanSnapshots
  <2> QED
    BY <2>1, RoutesAsUrls DEF Mapped
<1> HIDE DEF urls, n
<1>4. again \in CleanSnapshots
  BY <1>1, <1>2, <1>3, SnapshotWith, SanitizedIsClean
<1>5. ContextIsClean(context)
  BY ContextIsCleaned
<1>6. Research(s, setting.context, n) = research
  BY Zenon DEF Research, urls
<1> HIDE DEF again, context
<1>11. CleanUrl(again.final) \in BlankedUrls
  <2>1. again.final = site.final
    BY <1>4 DEF CleanSnapshots
  <2>2. site.final \in Urls
    BY DEF Pages, PageUrl, AbsoluteUrl, AnyUrl, Urls, Words, Parameters
  <2> QED
    BY <2>1, <2>2, CleanUrlBlanks
<1>7. Journeys(again, context) \in Seq(OwnJourneys) /\ PriorityRoutes(again, n) \in Seq(OwnRoutes)
  BY <1>1, <1>4, <1>5, JourneysAreOwn, PriorityRoutesAreOwn
<1>8. /\ research.from = CleanUrl(again.final)
      /\ research.journeys = Journeys(again, context)
      /\ research.routes = PriorityRoutes(again, n)
  OBVIOUS
<1> HIDE DEF research
<1>9. PlannerPrompt(site.target, s, setting.context, n) =
        [target |-> site.target, snapshot |-> s, context |-> context, research |-> research]
  BY <1>6, Zenon DEF PlannerPrompt, context
<1>10. CleanPrompt(PlannerPrompt(site.target, s, setting.context, n))
  BY <1>5, <1>7, <1>8, <1>9, <1>11 DEF CleanPrompt
<1> QED
  BY <1>10 DEF n

-----------------------------------------------------------------------------
\* The strengthening of PromptIsClean: a snapshot is clean before anything is
\* built of it.
PromptInv ==
  /\ setting \in Settings /\ site \in Pages
  /\ snapshot \in Seq(CleanSnapshots)
  /\ step = "preparing" => snapshot # <<>>
  /\ \A i \in DOMAIN prompt : CleanPrompt(prompt[i])

LEMMA PromptInvInit == PlanningInit => PromptInv
<1> SUFFICES ASSUME PlanningInit PROVE PromptInv
  OBVIOUS
<1>1. setting \in Settings /\ site \in Pages
  BY PlanningAssumption DEF PlanningInit
<1>2. snapshot = <<>> /\ prompt = <<>> /\ step = "start"
  BY DEF PlanningInit
<1> QED
  BY <1>1, <1>2 DEF PromptInv

\* What is own depends on the page and the context only.
LEMMA OwnStays ==
  ASSUME setting' = setting, site' = site
  PROVE  /\ RawUrls' = RawUrls /\ OwnRoutes' = OwnRoutes /\ CleanSnapshots' = CleanSnapshots
         /\ OwnJourneys' = OwnJourneys /\ CleanUrls' = CleanUrls
<1>1. Named' = Named
  BY DEF Named
<1>2. RawUrls' = RawUrls
  BY <1>1, Zenon DEF RawUrls, NamedPath
<1>3. OwnRoutes' = OwnRoutes
  BY <1>1, Zenon DEF OwnRoutes, NamedPath
<1>4. CleanUrls' = CleanUrls
  BY <1>2 DEF CleanUrls
<1>5. OwnJourneys' = OwnJourneys
  BY <1>3 DEF OwnJourneys
<1>6. CleanLinks' = CleanLinks
  BY <1>4 DEF CleanLinks
<1>7. CleanSnapshots' = CleanSnapshots
  BY <1>3, <1>6 DEF CleanSnapshots
<1> QED
  BY <1>2, <1>3, <1>4, <1>5, <1>7

\* The snapshot is cleaned as it is taken ...
LEMMA SnapshotStaysClean ==
  ASSUME PromptInv, TakeSnapshot
  PROVE  /\ snapshot' \in Seq(CleanSnapshots)
         /\ step' = "preparing" => snapshot' # <<>>
<1> DEFINE s == Sanitized(Collected(site),
                          [links |-> setting.linksInContext, forms |-> setting.formsInContext,
                           routes |-> setting.maxRoutes])
    found == IF SnapshotFits(s) /\ ~stopAsked THEN "none" ELSE "UNKNOWN_PROVIDER_ERROR"
<1>1. s \in CleanSnapshots
  <2>1. /\ setting.linksInContext \in Nat /\ setting.formsInContext \in Nat
        /\ setting.maxRoutes \in Nat
    BY DEF PromptInv, Settings
  <2>2. RawSnapshot(Collected(site))
    BY CollectedIsRaw DEF PromptInv
  <2> QED
    BY <2>1, <2>2, SanitizedIsClean
<1>2. /\ snapshot' = Given(SnapshotFits(s), s)
      /\ fallbackReason' = ReasonAfter(found)
      /\ step' = IF MayAsk /\ fallbackReason' = "none" THEN "preparing" ELSE "merging"
  BY Zenon DEF TakeSnapshot
<1> HIDE DEF s
<1>3. snapshot' = IF SnapshotFits(s) THEN <<s>> ELSE <<>>
  BY <1>2 DEF Given
<1>4. step' = "preparing" => SnapshotFits(s)
  BY <1>2 DEF ReasonAfter
<1> QED
  BY <1>1, <1>3, <1>4

\* ... and the prompt is built of nothing else.
LEMMA PromptStaysClean ==
  ASSUME PromptInv, BuildPrompt
  PROVE  \A i \in DOMAIN prompt' : CleanPrompt(prompt'[i])
<1> DEFINE p == PlannerPrompt(site.target, snapshot[1], setting.context, setting.maxRoutes)
    refused == IF ~BaselineFits \/ ~ResearchFits(p.research)
               THEN "UNKNOWN_PROVIDER_ERROR"
               ELSE IF site.bulky THEN "INPUT_TOO_LARGE" ELSE "none"
<1>1. snapshot[1] \in CleanSnapshots
  BY DEF PromptInv, BuildPrompt
<1>2. CleanPrompt(p)
  BY <1>1, PromptIsBuiltClean DEF PromptInv
<1>3. prompt' = Given(refused = "none", p)
  BY Zenon DEF BuildPrompt
<1> HIDE DEF p, refused
<1>4. prompt' = <<p>> \/ prompt' = <<>>
  BY <1>3 DEF Given
<1> QED
  BY <1>2, <1>4

\* Every step of the planner's job keeps it.
LEMMA PromptInvStays == PromptInv /\ [PlanningNext]_planningVars => PromptInv'
<1> SUFFICES ASSUME PromptInv, [PlanningNext]_planningVars PROVE PromptInv'
  OBVIOUS
<1>1. ASSUME setting' = setting, site' = site, snapshot' \in Seq(CleanSnapshots),
             step' = "preparing" => snapshot' # <<>>,
             \A i \in DOMAIN prompt' : CleanPrompt(prompt'[i])
      PROVE  PromptInv'
  <2>1. setting' \in Settings /\ site' \in Pages
    BY <1>1 DEF PromptInv
  <2>2. snapshot' \in Seq(CleanSnapshots')
    BY <1>1, OwnStays
  <2>3. \A i \in DOMAIN prompt' : CleanPrompt(prompt[i])'
    BY <1>1, OwnStays DEF CleanPrompt, ContextIsClean
  <2> QED
    BY <1>1, <2>1, <2>2, <2>3 DEF PromptInv
<1>2. ASSUME setting' = setting, site' = site, snapshot' = snapshot, prompt' = prompt,
             step' = step \/ step' # "preparing"
      PROVE  PromptInv'
  BY <1>1, <1>2 DEF PromptInv
<1>3. CASE UserStopsPlanning
  BY <1>2, <1>3 DEF UserStopsPlanning, local
<1>4. CASE RefuseTarget
  BY <1>2, <1>4 DEF RefuseTarget, PlanningStep, stored, local
<1>5. CASE BeginPlanning
  BY <1>2, <1>5 DEF BeginPlanning, PlanningStep, stored, local
<1>6. CASE TakeSnapshot
  <2>1. setting' = setting /\ site' = site /\ prompt' = prompt
    BY <1>6 DEF TakeSnapshot, stored
  <2> QED
    BY <1>1, <1>6, <2>1, SnapshotStaysClean DEF PromptInv
<1>7. CASE SnapshotFails
  BY <1>2, <1>7 DEF SnapshotFails, PlanningStep, stored
<1>8. CASE BuildPrompt
  <2>1. setting' = setting /\ site' = site /\ snapshot' = snapshot
    BY <1>8 DEF BuildPrompt, stored
  <2>2. snapshot # <<>>
    BY <1>8 DEF BuildPrompt, PromptInv
  <2> QED
    BY <1>1, <1>8, <2>1, <2>2, PromptStaysClean DEF PromptInv
<1>9. CASE \E r \in Replies \cup {MockReply(setting.scenario)} : AskPlanner(r)
  <2>1. PICK r : AskPlanner(r)
    BY <1>9
  <2>2. setting' = setting /\ site' = site /\ snapshot' = snapshot /\ prompt' = prompt
    BY <2>1 DEF AskPlanner, stored
  <2>3. step' = step \/ step' # "preparing"
    BY <2>1 DEF AskPlanner, TakeAnswer, GiveUpAsking
  <2> QED
    BY <1>2, <2>2, <2>3
<1>10. CASE AskMockInstead
  BY <1>2, <1>10 DEF AskMockInstead, TakeAnswer, GiveUpAsking, stored
<1>11. CASE WritePlan
  BY <1>2, <1>11 DEF WritePlan, PlanningStep
<1>12. CASE PersistMission
  BY <1>2, <1>12 DEF PersistMission
<1>13. CASE QueueMissions
  BY <1>2, <1>13 DEF QueueMissions, PlanningStep, stored, local
<1>14. CASE PlanningDies
  <2>1. /\ setting' = setting /\ site' = site /\ snapshot' = <<>> /\ prompt' = <<>>
        /\ step' = "start"
    BY <1>14 DEF PlanningDies
  <2> QED
    BY <1>1, <2>1
<1>15. CASE UNCHANGED planningVars
  BY <1>2, <1>15 DEF planningVars
<1> QED
  BY <1>3, <1>4, <1>5, <1>6, <1>7, <1>8, <1>9, <1>10, <1>11, <1>12, <1>13, <1>14, <1>15
  DEF PlanningNext

\* Each text, URL, field and route of a clean prompt is clean.
LEMMA CleanTextsAreTold ==
  ASSUME NEW p, CleanPrompt(p), NEW text \in PromptTexts(p)
  PROVE  text \in CleanTexts
<1> DEFINE s == p.snapshot
<1>1. /\ s.title \in CleanTexts /\ s.description \in CleanTexts
      /\ s.headings \in Seq(CleanHeadings) /\ s.links \in Seq(CleanLinks)
      /\ s.buttons \in Seq(CleanTexts) /\ s.forms \in Seq(CleanForms)
      /\ p.context.notes \in Seq(CleanTexts)
  BY DEF CleanPrompt, CleanSnapshots, ContextIsClean
<1>2. /\ Range(s.headings) \subseteq CleanHeadings /\ Range(s.links) \subseteq CleanLinks
      /\ Range(s.buttons) \subseteq CleanTexts /\ Range(s.forms) \subseteq CleanForms
      /\ Range(p.context.notes) \subseteq CleanTexts
  BY <1>1, RangeIs
<1>3. CASE text \in {s.title, s.description}
  BY <1>1, <1>3
<1>4. CASE text \in {h.text : h \in Range(s.headings)}
  BY <1>2, <1>4 DEF CleanHeadings
<1>5. CASE text \in {l.text : l \in Range(s.links)}
  BY <1>2, <1>5 DEF CleanLinks
<1>6. CASE text \in Range(s.buttons) \cup Range(p.context.notes)
  BY <1>2, <1>6
<1>7. CASE text \in UNION {{x.label : x \in Range(f.fields)} : f \in Range(s.forms)}
  <2>1. PICK f \in Range(s.forms) : text \in {x.label : x \in Range(f.fields)}
    BY <1>7
  <2>2. PICK x \in Range(f.fields) : text = x.label
    BY <2>1
  <2>3. f.fields \in Seq(CleanFields)
    BY <1>2 DEF CleanForms
  <2>4. x \in CleanFields
    BY <2>3, RangeIs
  <2> QED
    BY <2>2, <2>4 DEF CleanFields
<1> QED
  BY <1>3, <1>4, <1>5, <1>6, <1>7 DEF PromptTexts

LEMMA BlankedUrlsAreTold ==
  ASSUME NEW p, CleanPrompt(p), NEW u \in PromptUrls(p)
  PROVE  u \in BlankedUrls
<1> DEFINE s == p.snapshot
<1>1. /\ s.links \in Seq(CleanLinks) /\ s.forms \in Seq(CleanForms)
      /\ p.context.login \subseteq CleanUrls
  BY DEF CleanPrompt, CleanSnapshots, ContextIsClean
<1>2. Range(s.links) \subseteq CleanLinks /\ Range(s.forms) \subseteq CleanForms
  BY <1>1, RangeIs
<1>3. CASE u \in {l.url : l \in Range(s.links)}
  BY <1>2, <1>3 DEF CleanLinks, CleanUrls
<1>4. CASE u \in p.context.login
  BY <1>1, <1>4 DEF CleanUrls
<1>5. CASE u \in UNION {f.action : f \in Range(s.forms)}
  BY <1>2, <1>5 DEF CleanForms
<1>6. CASE u = p.research.from
  BY <1>6 DEF CleanPrompt
<1> QED
  BY <1>3, <1>4, <1>5, <1>6 DEF PromptUrls

LEMMA CleanFieldsAreTold ==
  ASSUME NEW p, CleanPrompt(p), NEW field \in PromptFields(p)
  PROVE  field \in CleanFields
<1>1. p.snapshot.forms \in Seq(CleanForms)
  BY DEF CleanPrompt, CleanSnapshots
<1>2. Range(p.snapshot.forms) \subseteq CleanForms
  BY <1>1, RangeIs
<1>3. PICK f \in Range(p.snapshot.forms) : field \in Range(f.fields)
  BY DEF PromptFields
<1>4. f.fields \in Seq(CleanFields)
  BY <1>2 DEF CleanForms
<1> QED
  BY <1>3, <1>4, RangeIs

LEMMA OwnRoutesAreTold ==
  ASSUME NEW p, CleanPrompt(p), NEW route \in PromptRoutes(p)
  PROVE  route \in OwnRoutes \cup {Root}
<1>1. /\ p.snapshot.routes \in Seq(OwnRoutes) /\ p.research.routes \in Seq(OwnRoutes)
      /\ p.research.journeys \in Seq(OwnJourneys)
  BY DEF CleanPrompt, CleanSnapshots
<1>2. /\ Range(p.snapshot.routes) \subseteq OwnRoutes
      /\ Range(p.research.routes) \subseteq OwnRoutes
      /\ Range(p.research.journeys) \subseteq OwnJourneys
  BY <1>1, RangeIs
<1>3. CASE route \in UNION {Range(j.routes) : j \in Range(p.research.journeys)}
  <2>1. PICK j \in Range(p.research.journeys) : route \in Range(j.routes)
    BY <1>3
  <2>2. j.routes \in Seq(OwnRoutes \cup {Root})
    BY <1>2 DEF OwnJourneys
  <2> QED
    BY <2>1, <2>2, RangeIs
<1> QED
  BY <1>2, <1>3 DEF PromptRoutes

\* Whatever the page and the user's context hold, no prompt that buildPlannerInput
\* makes has a secret word in a text, a password field, a route that nobody named for
\* the target's own site, or a sensitive parameter in the URL of a link, a form, a login
\* page or the research. Its other URLs are the page's own two addresses, which it has
\* with every parameter they came with.
THEOREM PromptsAreClean == PlanningSpec => []PromptIsClean
<1>1. PlanningInit => PromptInv
  BY PromptInvInit
<1>2. PromptInv /\ [PlanningNext]_planningVars => PromptInv'
  BY PromptInvStays
<1>3. PromptInv => PromptIsClean
  <2> SUFFICES ASSUME PromptInv, NEW i \in DOMAIN prompt
               PROVE  LET p == prompt[i]
                      IN /\ \A text \in PromptTexts(p) : text \cap Secrets = {}
                         /\ \A u \in PromptUrls(p) : IsRedacted(u)
                         /\ PageUrls(p) \subseteq {site.target, site.final}
                         /\ \A field \in PromptFields(p) : Fold(field.kind) # "password"
                         /\ \A route \in PromptRoutes(p) :
                              /\ \A q \in route.params : q.name \notin SensitiveNames
                              /\ route = Root
                                 \/ \E u \in Named : /\ u.site = "self" /\ ~u.bad
                                                     /\ u.path = route.path
    BY Zenon DEF PromptIsClean, Named
  <2> DEFINE p == prompt[i]
  <2>1. CleanPrompt(p)
    BY DEF PromptInv
  <2> HIDE DEF p
  <2>2. \A text \in PromptTexts(p) : text \cap Secrets = {}
    BY <2>1, CleanTextsAreTold DEF CleanTexts
  <2>3. \A u \in PromptUrls(p) : IsRedacted(u)
    BY <2>1, BlankedUrlsAreTold DEF BlankedUrls, IsRedacted
  <2>6. PageUrls(p) \subseteq {site.target, site.final}
    BY <2>1 DEF CleanPrompt, CleanSnapshots, PageUrls
  <2>4. \A field \in PromptFields(p) : Fold(field.kind) # "password"
    BY <2>1, CleanFieldsAreTold DEF CleanFields
  <2>5. ASSUME NEW route \in PromptRoutes(p)
        PROVE  /\ \A q \in route.params : q.name \notin SensitiveNames
               /\ route = Root
                  \/ \E u \in Named : u.site = "self" /\ ~u.bad /\ u.path = route.path
    <3>1. CASE route = Root
      BY <3>1 DEF Root
    <3>2. CASE route \in OwnRoutes
      BY <3>2 DEF OwnRoutes, CleanRoutes, NamedPath
    <3> QED
      BY <2>1, <3>1, <3>2, OwnRoutesAreTold
  <2> QED
    BY <2>2, <2>3, <2>4, <2>5, <2>6 DEF p
<1> QED
  BY <1>1, <1>2, <1>3, PTL DEF PlanningSpec

\* What PlanningTypes adds to the other invariants: there is one snapshot at
\* most, the prompt is built of it, and only once.
PlanningSteps ==
  /\ step \in PlanningEnded \cup {"start", "looking", "preparing", "asking",
                                 "standing in", "merging", "persisting"}
  /\ Len(snapshot) <= 1 /\ Len(prompt) <= 1
  /\ step = "preparing" \/ prompt # <<>> => snapshot # <<>>
  /\ step \in {"start", "looking", "preparing"} => prompt = <<>>
  /\ step = "start" => snapshot = <<>>

LEMMA PlanningStepsStay ==
  ASSUME PlanningSteps, [PlanningNext]_planningVars
  PROVE  PlanningSteps'
<1>1. ASSUME UNCHANGED <<snapshot, prompt>>, step' # "preparing",
             step' \in PlanningEnded \cup {"looking", "asking", "standing in", "merging",
                                          "persisting"},
             step' = "looking" => step = "start"
      PROVE  PlanningSteps'
  BY <1>1 DEF PlanningSteps, PlanningEnded
<1>2. CASE UserStopsPlanning \/ PersistMission \/ UNCHANGED planningVars
  <2>1. UNCHANGED <<snapshot, prompt, step>>
    BY <1>2 DEF UserStopsPlanning, PersistMission, planningVars, local
  <2> QED
    BY <2>1 DEF PlanningSteps
<1>3. CASE RefuseTarget \/ BeginPlanning \/ SnapshotFails \/ QueueMissions \/ WritePlan
  <2>1. UNCHANGED <<snapshot, prompt>>
    BY <1>3 DEF RefuseTarget, BeginPlanning, SnapshotFails, QueueMissions, WritePlan, local
  <2>2. /\ step' \in {"refused", "stopped", "planned", "looking", "merging", "persisting"}
        /\ step' = "looking" => step = "start"
    BY <1>3 DEF RefuseTarget, BeginPlanning, SnapshotFails, QueueMissions, WritePlan,
       PlanningStep
  <2> QED
    BY <1>1, <2>1, <2>2 DEF PlanningEnded
<1>4. CASE TakeSnapshot
  <2> DEFINE s == Sanitized(Collected(site),
                            [links |-> setting.linksInContext,
                             forms |-> setting.formsInContext,
                             routes |-> setting.maxRoutes])
             found == IF SnapshotFits(s) /\ ~stopAsked THEN "none"
                      ELSE "UNKNOWN_PROVIDER_ERROR"
  <2>1. /\ snapshot' = Given(SnapshotFits(s), s)
        /\ fallbackReason' = ReasonAfter(found)
        /\ step' = IF MayAsk /\ fallbackReason' = "none" THEN "preparing" ELSE "merging"
        /\ step = "looking" /\ prompt' = prompt
    BY <1>4, Zenon DEF TakeSnapshot
  <2> HIDE DEF s
  <2>2. snapshot' = IF SnapshotFits(s) THEN <<s>> ELSE <<>>
    BY <2>1 DEF Given
  <2>3. step' = "preparing" => SnapshotFits(s)
    BY <2>1 DEF ReasonAfter
  <2>4. prompt' = <<>>
    BY <2>1 DEF PlanningSteps
  <2> QED
    BY <2>1, <2>2, <2>3, <2>4 DEF PlanningSteps
<1>5. CASE BuildPrompt
  <2> DEFINE p == PlannerPrompt(site.target, snapshot[1], setting.context, setting.maxRoutes)
             refused == IF ~BaselineFits \/ ~ResearchFits(p.research)
                        THEN "UNKNOWN_PROVIDER_ERROR"
                        ELSE IF site.bulky THEN "INPUT_TOO_LARGE" ELSE "none"
  <2>1. /\ prompt' = Given(refused = "none", p)
        /\ step' = IF refused = "none" THEN "asking" ELSE "merging"
        /\ step = "preparing" /\ snapshot' = snapshot
    BY <1>5, Zenon DEF BuildPrompt
  <2> HIDE DEF p, refused
  <2>2. prompt' = <<p>> \/ prompt' = <<>>
    BY <2>1 DEF Given
  <2>3. Len(prompt') <= 1
    BY <2>2
  <2>4. step' \in {"asking", "merging"}
    BY <2>1
  <2>5. snapshot' # <<>> /\ Len(snapshot') <= 1
    BY <2>1 DEF PlanningSteps
  <2> QED
    BY <2>3, <2>4, <2>5, Zenon DEF PlanningSteps
<1>6. CASE (\E r \in Replies \cup {MockReply(setting.scenario)} : AskPlanner(r))
           \/ AskMockInstead
  <2>1. UNCHANGED <<snapshot, prompt>>
    BY <1>6 DEF AskPlanner, AskMockInstead
  <2>2. step' \in {"asking", "standing in", "merging"}
    BY <1>6 DEF AskPlanner, AskMockInstead, TakeAnswer, GiveUpAsking
  <2> QED
    BY <1>1, <2>1, <2>2
<1>7. CASE PlanningDies
  <2>1. snapshot' = <<>> /\ prompt' = <<>> /\ step' = "start"
    BY <1>7 DEF PlanningDies
  <2>2. Len(<<>>) <= 1
    OBVIOUS
  <2> QED
    BY <2>1, <2>2, Zenon DEF PlanningSteps
<1> QED
  BY <1>2, <1>3, <1>4, <1>5, <1>6, <1>7 DEF PlanningNext

\* Through every restart, the planner's job has at most one snapshot, one
\* prompt, one output and one plan; it asks nothing before it has looked, and
\* what it persists are missions there are, of a plan that is written.
THEOREM PlanningIsTyped == PlanningSpec => []PlanningTypes
<1> DEFINE Inv == AskInv /\ RowsInv /\ PlanningSteps
<1>1. PlanningInit => Inv
  <2>1. PlanningInit => PlanningSteps
    BY DEF PlanningInit, PlanningSteps
  <2> QED
    BY <2>1, AskInvInit, RowsInvInit
<1>2. Inv /\ [PlanningNext]_planningVars => Inv'
  BY AskInvStays, RowsInvStays, PlanningStepsStay
<1>3. Inv => PlanningTypes
  <2> SUFFICES ASSUME Inv PROVE PlanningTypes
    OBVIOUS
  <2>1. Types \subseteq DOMAIN Defined
    BY BaselineIsDefined, RangeIs DEF AskInv, AskData, Types
  <2>2. {m.type : m \in Range(todo)} \subseteq Types
    <3>1. \A m \in Range(todo) : m \in Fitting
      BY RangeIs DEF RowsInv
    <3> QED
      BY <3>1 DEF Fitting
  <2>3. DOMAIN missionRows \subseteq Types /\ Len(planRow) <= 1
        /\ (DOMAIN missionRows # {} => planRow # <<>>)
    BY DEF RowsInv
  <2>4. Len(output) <= 1
    BY DEF AskInv, AskData
  <2> QED
    BY <2>1, <2>2, <2>3, <2>4 DEF PlanningSteps, PlanningTypes
<1> QED
  BY <1>1, <1>2, <1>3, PTL DEF PlanningSpec

-----------------------------------------------------------------------------
(***************************************************************************)
(* The pages of the deterministic missions.                                *)
(***************************************************************************)
LEMMA PageIs ==
  ASSUME page \in Targets
  PROVE  /\ page.events \in Seq(Range(page.events)) /\ page.controls \in Seq(Range(page.controls))
         /\ page.violations \in Seq(Range(page.violations))
         /\ page.links \in Seq(Range(page.links)) /\ page.buttons \in Seq(Range(page.buttons))
         /\ MaxLinks \in Nat /\ MaxInteractions \in Nat
         /\ \A i, j \in DOMAIN page.links :
              page.links[i].href = page.links[j].href => page.links[i].status = page.links[j].status
<1>1. page \in MissionPages
  BY TargetsAssumption
<1>2. ASSUME NEW S, NEW s \in Seq(S) PROVE s \in Seq(Range(s))
  BY DEF Range
<1>3. /\ \E S : page.events \in Seq(S)
      /\ \E S : page.controls \in Seq(S)
      /\ \E S : page.violations \in Seq(S)
      /\ \E S : page.links \in Seq(S)
      /\ \E S : page.buttons \in Seq(S)
  BY <1>1 DEF MissionPages
<1>4. /\ MaxLinks \in Nat /\ MaxInteractions \in Nat
      /\ \A i, j \in DOMAIN page.links :
           page.links[i].href = page.links[j].href => page.links[i].status = page.links[j].status
  BY TargetsAssumption
<1> QED
  BY <1>2, <1>3, <1>4

\* The listener of a kind keeps each key of its events.
LEMMA CountedKeys ==
  ASSUME page \in Targets, NEW kind
  PROVE  /\ Counted(kind) \in Seq(Range(page.events))
         /\ {e.key : e \in Range(Counted(kind))} =
              {e.key : e \in {x \in Range(page.events) : x.kind = kind}}
<1> DEFINE S == Range(page.events)
    T == {e \in S : e.kind = kind}
    all == Events(kind)
    key == [e \in Range(all) |-> e.key]
    out == FirstByKey(all, key)
<1>1. all = Among(page.events, T)
  BY DEF Events, Only
<1>2. Counted(kind) = out
  BY DEF Counted, DistinctBy
<1>3. page.events \in Seq(S) /\ Range(page.events) = S
  BY PageIs
<1>4. all \in Seq(S \cap T) /\ Range(all) = S \cap T
  <2> HIDE DEF S, T, all
  <2> QED
    BY <1>1, <1>3, AmongIs
<1>5. S \cap T = T
  OBVIOUS
<1> HIDE DEF S, T, all, out
<1>6. /\ out \in Seq(T) /\ Range(out) \subseteq T
      /\ \A k \in 0..Len(all) : \E m \in 0..Len(out) :
           {key[out[j]] : j \in 1..m} = {key[all[i]] : i \in 1..k}
  <2> HIDE DEF key
  <2>1. all \in Seq(T) /\ Range(all) = T
    BY <1>4, <1>5
  <2>2. KeepsKeys(out, T, all, key)
    BY <2>1, FirstByKeyKeeps DEF out
  <2> QED
    BY <2>1, <2>2 DEF KeepsKeys
<1>7. {key[e] : e \in Range(out)} = {key[e] : e \in Range(all)}
  <2> HIDE DEF key
  <2>1. Len(all) \in 0..Len(all) /\ Len(out) \in Nat
    BY <1>4, <1>6
  <2>2. PICK m \in 0..Len(out) :
          {key[out[j]] : j \in 1..m} = {key[all[i]] : i \in 1..Len(all)}
    BY <1>6, <2>1
  <2>3. /\ Range(out) = {out[j] : j \in 1..Len(out)} /\ Range(all) = {all[i] : i \in 1..Len(all)}
        /\ Range(out) \subseteq Range(all)
    BY <1>4, <1>5, <1>6, RangeIs
  <2>4. {all[i] : i \in 1..Len(all)} = Range(all)
    BY <2>3
  <2>5. {key[e] : e \in Range(all)} = {key[all[i]] : i \in 1..Len(all)}
    BY <2>3
  <2>6. {key[e] : e \in Range(all)} \subseteq {key[e] : e \in Range(out)}
    <3>1. \A j \in 1..m : out[j] \in Range(out)
      BY <2>1, <2>3
    <3> QED
      BY <2>2, <2>5, <3>1
  <2> QED
    BY <2>3, <2>6
<1>8. Range(all) = T
  BY <1>4, <1>5
<1>9. \A e \in T : key[e] = e.key
  BY <1>8
<1> HIDE DEF key
<1>10. {e.key : e \in Range(out)} = {e.key : e \in T}
  <2>1. {key[e] : e \in Range(out)} = {key[e] : e \in T}
    BY <1>7, <1>8
  <2>2. Range(out) \subseteq T
    BY <1>6
  <2>3. {key[e] : e \in Range(out)} = {e.key : e \in Range(out)}
    BY <1>9, <2>2
  <2>4. {key[e] : e \in T} = {e.key : e \in T}
    BY <1>9
  <2> QED
    BY <2>1, <2>3, <2>4, Zenon
<1>11. out \in Seq(S)
  <2>1. T \subseteq S
    BY DEF T
  <2> QED
    BY <1>6, <2>1, SeqOfMore
<1> QED
  BY <1>2, <1>10, <1>11, Zenon DEF T, S

\* The prints a list of findings has.
Marks(s) == {s[i].print : i \in DOMAIN s}
IsList(s) == s \in Seq(Range(s))

LEMMA ListIs ==
  ASSUME NEW S, NEW s \in Seq(S)
  PROVE  IsList(s) /\ DOMAIN s = 1..Len(s) /\ Marks(s) = {f.print : f \in Range(s)}
BY DEF IsList, Marks, Range

LEMMA ListsTogether ==
  ASSUME NEW s, NEW t, IsList(s), IsList(t)
  PROVE  IsList(s \o t) /\ Marks(s \o t) = Marks(s) \cup Marks(t)
<1> DEFINE S == Range(s) \cup Range(t)
    both == s \o t
<1>1. s \in Seq(S) /\ t \in Seq(S)
  BY DEF IsList
<1> HIDE DEF S, both
<1>2. /\ both \in Seq(S) /\ Len(both) = Len(s) + Len(t) /\ Len(s) \in Nat /\ Len(t) \in Nat
      /\ \A i \in 1..(Len(s) + Len(t)) :
           both[i] = IF i <= Len(s) THEN s[i] ELSE t[i - Len(s)]
  BY <1>1, ConcatProperties DEF both
<1>3. \A i \in 1..Len(s) : i \in 1..Len(both) /\ both[i] = s[i]
  BY <1>2
<1>4. ASSUME NEW i \in 1..Len(t)
      PROVE  i + Len(s) \in 1..Len(both) /\ both[i + Len(s)] = t[i]
  <2>1. /\ i + Len(s) \in 1..(Len(s) + Len(t)) /\ ~(i + Len(s) <= Len(s))
        /\ i + Len(s) - Len(s) = i
    BY <1>2
  <2> QED
    BY <1>2, <2>1
<1>5. \A i \in 1..Len(both) :
        \/ i \in 1..Len(s) /\ both[i] = s[i]
        \/ i - Len(s) \in 1..Len(t) /\ both[i] = t[i - Len(s)]
  BY <1>2
<1>6. DOMAIN both = 1..Len(both) /\ DOMAIN s = 1..Len(s) /\ DOMAIN t = 1..Len(t)
  BY <1>1, <1>2
<1>7. Marks(both) = Marks(s) \cup Marks(t)
  <2>1. /\ \A i \in 1..Len(s) : both[i].print = s[i].print
        /\ \A i \in 1..Len(t) : both[i + Len(s)].print = t[i].print
    BY <1>3, <1>4
  <2>2. Marks(s) \subseteq Marks(both)
    BY <1>3, <1>6, <2>1 DEF Marks
  <2>3. Marks(t) \subseteq Marks(both)
    BY <1>4, <1>6, <2>1 DEF Marks
  <2>4. Marks(both) \subseteq Marks(s) \cup Marks(t)
    BY <1>5, <1>6 DEF Marks
  <2> QED
    BY <2>2, <2>3, <2>4
<1>8. IsList(both)
  BY <1>2, ListIs
<1> QED
  BY <1>7, <1>8 DEF both

\* One finding for each text or URL of a kind.
EventsOf(kind) == {x \in Range(page.events) : x.kind = kind}

\* A list with one finding for each key of a kind.
ByKey(found, kind, print) ==
  /\ found = [i \in DOMAIN Counted(kind) |-> found[i]]
  /\ \A i \in DOMAIN Counted(kind) : found[i].print = print[Counted(kind)[i].key]

LEMMA ListenerTellsEachKey ==
  ASSUME page \in Targets, NEW kind, NEW found, NEW print, ByKey(found, kind, print)
  PROVE  /\ IsList(found)
         /\ Marks(found) = {print[e.key] : e \in EventsOf(kind)}
<1> DEFINE c == Counted(kind)
    T == EventsOf(kind)
<1>1. c \in Seq(Range(page.events)) /\ {e.key : e \in Range(c)} = {e.key : e \in T}
  BY CountedKeys DEF EventsOf
<1> HIDE DEF c, T
<1>2. DOMAIN c = 1..Len(c) /\ Len(c) \in Nat
  BY <1>1
<1>0. /\ found = [i \in DOMAIN c |-> found[i]]
      /\ \A i \in DOMAIN c : found[i].print = print[c[i].key]
  BY DEF c, ByKey
<1>3. Range(c) = {c[i] : i \in 1..Len(c)}
  BY <1>1, RangeIs
<1>4. IsList(found)
  <2>1. found \in [1..Len(c) -> Range(found)]
    BY <1>0, <1>2 DEF Range
  <2> QED
    BY <1>2, <2>1 DEF IsList
<1>5. Marks(found) = {print[c[i].key] : i \in 1..Len(c)}
  BY <1>0, <1>2 DEF Marks
<1>6. {print[c[i].key] : i \in 1..Len(c)} = {print[e.key] : e \in Range(c)}
  BY <1>3
<1>7. {print[e.key] : e \in Range(c)} = {print[e.key] : e \in T}
  <2>1. {print[e.key] : e \in Range(c)} = {print[k] : k \in {e.key : e \in Range(c)}}
    OBVIOUS
  <2>2. {print[e.key] : e \in T} = {print[k] : k \in {e.key : e \in T}}
    OBVIOUS
  <2> QED
    BY <1>1, <2>1, <2>2, Zenon
<1> QED
  BY <1>4, <1>5, <1>6, <1>7, Zenon DEF T

\* The parts of the error reviewer's list.
ConsoleFindings(kind, severity) ==
  Mapped(Counted(kind), LAMBDA e :
    Finding("console", severity, Fingerprint("console", 0, "none", page.final, e.key),
            Times(kind, e.key), FALSE))

LEMMA ConsoleIsTold ==
  ASSUME page \in Targets, NEW kind, NEW severity
  PROVE  /\ IsList(ConsoleFindings(kind, severity))
         /\ Marks(ConsoleFindings(kind, severity)) =
              {Fingerprint("console", 0, "none", page.final, e.key) : e \in EventsOf(kind)}
<1> DEFINE found == ConsoleFindings(kind, severity)
    c == Counted(kind)
    T == EventsOf(kind)
    print == [k \in {e.key : e \in Range(c)} |-> Fingerprint("console", 0, "none", page.final, k)]
<1>1. \A i \in DOMAIN c : c[i].key \in {e.key : e \in Range(c)}
  BY DEF Range
<1>2. \A i \in DOMAIN c : found[i].print = print[c[i].key]
  BY <1>1 DEF Mapped, Finding, ConsoleFindings
<1>3. ByKey(found, kind, print)
  BY <1>2 DEF Mapped, ByKey, ConsoleFindings
<1>4. IsList(found) /\ Marks(found) = {print[e.key] : e \in T}
  <2> HIDE DEF print, found
  <2> QED
    BY <1>3, ListenerTellsEachKey
<1>5. {e.key : e \in Range(c)} = {e.key : e \in T}
  BY CountedKeys DEF EventsOf
<1>6. \A e \in T : print[e.key] = Fingerprint("console", 0, "none", page.final, e.key)
  <2> HIDE DEF c, T
  <2> QED
    BY <1>5
<1> HIDE DEF print
<1> QED
  BY <1>4, <1>6

FailedFindings ==
  Mapped(Counted("failed"), LAMBDA e :
    Finding("network", "medium",
            Fingerprint("network", 0, "none", e.key, LastOf("failed", e.key).failure),
            Times("failed", e.key), FALSE))

HttpFindings ==
  Mapped(Counted("http"), LAMBDA e :
    LET status == LastOf("http", e.key).status IN
    Finding("network", Grave(status),
            Fingerprint("network", status, "none", e.key, "none"),
            Times("http", e.key), FALSE))

LEMMA FailuresAreTold ==
  ASSUME page \in Targets
  PROVE  /\ IsList(FailedFindings)
         /\ Marks(FailedFindings) =
              {Fingerprint("network", 0, "none", e.key, LastOf("failed", e.key).failure) :
                 e \in EventsOf("failed")}
<1> DEFINE found == FailedFindings
    c == Counted("failed")
    T == EventsOf("failed")
    print == [k \in {e.key : e \in Range(c)} |->
                Fingerprint("network", 0, "none", k, LastOf("failed", k).failure)]
<1>1. \A i \in DOMAIN c : c[i].key \in {e.key : e \in Range(c)}
  BY DEF Range
<1>2. \A i \in DOMAIN c : found[i].print = print[c[i].key]
  BY <1>1 DEF Mapped, Finding, FailedFindings
<1>3. ByKey(found, "failed", print)
  BY <1>2 DEF Mapped, ByKey, FailedFindings
<1>4. IsList(found) /\ Marks(found) = {print[e.key] : e \in T}
  <2> HIDE DEF print, found
  <2> QED
    BY <1>3, ListenerTellsEachKey
<1>5. {e.key : e \in Range(c)} = {e.key : e \in T}
  BY CountedKeys DEF EventsOf
<1>6. \A e \in T : print[e.key] =
                     Fingerprint("network", 0, "none", e.key, LastOf("failed", e.key).failure)
  <2> HIDE DEF c, T
  <2> QED
    BY <1>5
<1> HIDE DEF print
<1> QED
  BY <1>4, <1>6

LEMMA ResponsesAreTold ==
  ASSUME page \in Targets
  PROVE  /\ IsList(HttpFindings)
         /\ Marks(HttpFindings) =
              {Fingerprint("network", LastOf("http", e.key).status, "none", e.key, "none") :
                 e \in EventsOf("http")}
<1> DEFINE found == HttpFindings
    c == Counted("http")
    T == EventsOf("http")
    print == [k \in {e.key : e \in Range(c)} |->
                Fingerprint("network", LastOf("http", k).status, "none", k, "none")]
<1>1. \A i \in DOMAIN c : c[i].key \in {e.key : e \in Range(c)}
  BY DEF Range
<1>2. \A i \in DOMAIN c : found[i].print = print[c[i].key]
  BY <1>1 DEF Mapped, Finding, HttpFindings
<1>3. ByKey(found, "http", print)
  BY <1>2 DEF Mapped, ByKey, HttpFindings
<1>4. IsList(found) /\ Marks(found) = {print[e.key] : e \in T}
  <2> HIDE DEF print, found
  <2> QED
    BY <1>3, ListenerTellsEachKey
<1>5. {e.key : e \in Range(c)} = {e.key : e \in T}
  BY CountedKeys DEF EventsOf
<1>6. \A e \in T : print[e.key] =
                     Fingerprint("network", LastOf("http", e.key).status, "none", e.key, "none")
  <2> HIDE DEF c, T
  <2> QED
    BY <1>5
<1> HIDE DEF print
<1> QED
  BY <1>4, <1>6

LEMMA NavigationIsTold ==
  /\ IsList(NavigationFindings)
  /\ Marks(NavigationFindings) = {f.print : f \in Range(NavigationFindings)}
<1>1. \E S : NavigationFindings \in Seq(S)
  <2> DEFINE f == Finding("functional", IF page.status = 0 THEN "high" ELSE Grave(page.status),
                          Fingerprint("functional", page.status, "none", page.url,
                                      "initial-navigation"), 1, FALSE)
  <2>1. NavigationFindings = <<>> \/ NavigationFindings = <<f>>
    BY DEF NavigationFindings
  <2> HIDE DEF f
  <2>2. <<>> \in Seq({f}) /\ <<f>> \in Seq({f})
    OBVIOUS
  <2> QED
    BY <2>1, <2>2
<1> QED
  BY <1>1, ListIs

\* The error reviewer reports the defects of the page and no other.
LEMMA ErrorsAreTold ==
  ASSUME page \in Targets, role = "error-reviewer"
  PROVE  IsList(ErrorFindings) /\ Marks(ErrorFindings) = Defects
<1> DEFINE a == NavigationFindings
    b == ConsoleFindings("console", "medium")
    c == ConsoleFindings("thrown", "high")
    d == FailedFindings
    e == HttpFindings
<1>1. ErrorFindings = (((a \o b) \o c) \o d) \o e
  BY Zenon DEF ErrorFindings, ConsoleFindings, FailedFindings, HttpFindings
<1>2. IsList(a) /\ IsList(b) /\ IsList(c) /\ IsList(d) /\ IsList(e)
  BY NavigationIsTold, ConsoleIsTold, FailuresAreTold, ResponsesAreTold
<1> HIDE DEF a, b, c, d, e
<1>3. IsList(a \o b) /\ Marks(a \o b) = Marks(a) \cup Marks(b)
  BY <1>2, ListsTogether
<1>4. IsList((a \o b) \o c) /\ Marks((a \o b) \o c) = Marks(a) \cup Marks(b) \cup Marks(c)
  BY <1>2, <1>3, ListsTogether
<1>5. /\ IsList(((a \o b) \o c) \o d)
      /\ Marks(((a \o b) \o c) \o d) = Marks(a) \cup Marks(b) \cup Marks(c) \cup Marks(d)
  BY <1>2, <1>4, ListsTogether
<1>6. /\ IsList((((a \o b) \o c) \o d) \o e)
      /\ Marks((((a \o b) \o c) \o d) \o e) =
           Marks(a) \cup Marks(b) \cup Marks(c) \cup Marks(d) \cup Marks(e)
  BY <1>2, <1>5, ListsTogether
<1> DEFINE Spoken(x) == Fingerprint("console", 0, "none", page.final, x.key)
    Lost(x) == Fingerprint("network", 0, "none", x.key, LastOf("failed", x.key).failure)
    Bad(x) == Fingerprint("network", LastOf("http", x.key).status, "none", x.key, "none")
    Net(x) == Fingerprint("network", IF x.kind = "http" THEN LastOf("http", x.key).status ELSE 0,
                          "none", x.key,
                          IF x.kind = "http" THEN "none" ELSE LastOf("failed", x.key).failure)
    S == Range(page.events)
<1>7. /\ Marks(a) = {f.print : f \in Range(NavigationFindings)}
      /\ Marks(b) = {Spoken(x) : x \in EventsOf("console")}
      /\ Marks(c) = {Spoken(x) : x \in EventsOf("thrown")}
      /\ Marks(d) = {Lost(x) : x \in EventsOf("failed")}
      /\ Marks(e) = {Bad(x) : x \in EventsOf("http")}
  BY NavigationIsTold, ConsoleIsTold, FailuresAreTold, ResponsesAreTold DEF a, b, c, d, e
<1>8. Defects = {f.print : f \in Range(NavigationFindings)}
                \cup {Spoken(x) : x \in {y \in S : y.kind \in {"console", "thrown"}}}
                \cup {Net(x) : x \in {y \in S : y.kind \in {"failed", "http"}}}
  BY DEF Defects
<1>9. /\ \A x \in EventsOf("failed") : Net(x) = Lost(x)
      /\ \A x \in EventsOf("http") : Net(x) = Bad(x)
  BY DEF EventsOf
<1>10. /\ {y \in S : y.kind \in {"console", "thrown"}} = EventsOf("console") \cup EventsOf("thrown")
       /\ {y \in S : y.kind \in {"failed", "http"}} = EventsOf("failed") \cup EventsOf("http")
  BY DEF EventsOf
<1> HIDE DEF Spoken, Lost, Bad, Net, S
<1>11. {Spoken(x) : x \in {y \in S : y.kind \in {"console", "thrown"}}} = Marks(b) \cup Marks(c)
  BY <1>7, <1>10
<1>12. {Net(x) : x \in {y \in S : y.kind \in {"failed", "http"}}} = Marks(d) \cup Marks(e)
  BY <1>7, <1>9, <1>10
<1>13. Defects = Marks(a) \cup Marks(b) \cup Marks(c) \cup Marks(d) \cup Marks(e)
  BY <1>7, <1>8, <1>11, <1>12
<1> QED
  BY <1>1, <1>6, <1>13, Zenon

\* So does the form tester,
LEMMA LabelsAreTold ==
  ASSUME page \in Targets, role = "form-tester"
  PROVE  IsList(FormFindings) /\ Marks(FormFindings) = Defects
<1> DEFINE T == {x \in Range(page.controls) : ~x.named /\ ~x.hidden}
    shown == Only(page.controls, LAMBDA c : ~c.named /\ ~c.hidden)
    found == FormFindings
    Mark(c) == Fingerprint("accessibility", 0, c.selector, page.url, "missing-label")
<1>1. shown = Among(page.controls, T)
  BY DEF Only
<1>2. page.controls \in Seq(Range(page.controls))
  BY PageIs
<1>3. Range(page.controls) \cap T = T
  OBVIOUS
<1>4. shown \in Seq(T) /\ Range(shown) = T
  <2> DEFINE S == Range(page.controls)
  <2>1. page.controls \in Seq(S) /\ Range(page.controls) = S /\ S \cap T = T
    BY <1>2, <1>3
  <2> HIDE DEF S, T, shown
  <2>2. Among(page.controls, T) \in Seq(S \cap T) /\ Range(Among(page.controls, T)) = S \cap T
    BY <2>1, AmongIs
  <2> QED
    BY <1>1, <2>1, <2>2
<1>5. found = [i \in DOMAIN shown |-> Finding("accessibility", "medium", Mark(shown[i]), 1, FALSE)]
  BY Zenon DEF FormFindings, Mapped
<1>6. Defects = {Mark(c) : c \in T}
  BY DEF Defects
<1> HIDE DEF shown, T, found, Mark
<1>7. /\ DOMAIN found = DOMAIN shown /\ DOMAIN shown = 1..Len(shown)
      /\ \A i \in DOMAIN shown : found[i].print = Mark(shown[i])
  BY <1>4, <1>5 DEF Finding
<1>8. Range(shown) = {shown[i] : i \in DOMAIN shown}
  BY DEF Range
<1>9. Marks(found) = {Mark(c) : c \in T}
  BY <1>4, <1>7, <1>8 DEF Marks
<1>10. IsList(found)
  <2>1. Len(shown) \in Nat
    BY <1>4
  <2>2. found \in [1..Len(shown) -> Range(found)]
    BY <1>5, <1>7 DEF Range
  <2> QED
    BY <2>1, <2>2 DEF IsList
<1> QED
  BY <1>6, <1>9, <1>10, Zenon DEF found

\* the mobile tester,
LEMMA OverflowIsTold ==
  ASSUME role = "mobile-tester"
  PROVE  IsList(MobileFindings) /\ Marks(MobileFindings) = Defects
<1>1. \E S : MobileFindings \in Seq(S)
  <2> DEFINE f == Finding("ux", "medium",
                          Fingerprint("ux", 0, "none", page.url,
                                      "mobile-horizontal-overflow"), 1, TRUE)
  <2>1. MobileFindings = <<>> \/ MobileFindings = <<f>>
    BY DEF MobileFindings
  <2> HIDE DEF f
  <2>2. <<>> \in Seq({f}) /\ <<f>> \in Seq({f})
    OBVIOUS
  <2> QED
    BY <2>1, <2>2
<1>2. IsList(MobileFindings) /\ Marks(MobileFindings) = {f.print : f \in Range(MobileFindings)}
  BY <1>1, ListIs
<1>3. Defects = {f.print : f \in Range(MobileFindings)}
  BY DEF Defects
<1> QED
  BY <1>2, <1>3, Zenon

\* and the accessibility reviewer.
LEMMA ViolationsAreTold ==
  ASSUME page \in Targets, role = "accessibility-reviewer"
  PROVE  IsList(AxeFindings) /\ Marks(AxeFindings) = Defects
<1> DEFINE some == FirstOf(page.violations, MaxViolations)
    found == AxeFindings
    Mark(v) == Fingerprint("accessibility", 0, v.rule, page.url, v.help)
<1>1. some \in Seq(Range(page.violations))
  <2>1. page.violations \in Seq(Range(page.violations)) /\ MaxViolations \in Nat
    BY PageIs DEF MaxViolations
  <2> QED
    BY <2>1, FirstOfStays
<1>2. found = [i \in DOMAIN some |->
                 Finding("accessibility", AxeSeverity(some[i].impact), Mark(some[i]),
                         some[i].nodes, FALSE)]
  BY Zenon DEF AxeFindings, Mapped
<1>3. Defects = {Mark(v) : v \in Range(some)}
  BY DEF Defects
<1> HIDE DEF some, found, Mark
<1>4. /\ DOMAIN found = DOMAIN some /\ DOMAIN some = 1..Len(some)
      /\ \A i \in DOMAIN some : found[i].print = Mark(some[i])
  BY <1>1, <1>2 DEF Finding
<1>5. Range(some) = {some[i] : i \in DOMAIN some}
  BY DEF Range
<1>6. Marks(found) = {Mark(v) : v \in Range(some)}
  BY <1>4, <1>5 DEF Marks
<1>7. IsList(found)
  <2>1. Len(some) \in Nat
    BY <1>1
  <2>2. found \in [1..Len(some) -> Range(found)]
    BY <1>2, <1>4 DEF Range
  <2> QED
    BY <2>1, <2>2 DEF IsList
<1> QED
  BY <1>3, <1>6, <1>7, Zenon DEF found

-----------------------------------------------------------------------------
(***************************************************************************)
(* The links.                                                              *)
(***************************************************************************)
LEMMA LeastIndex ==
  ASSUME NEW S \in SUBSET Nat, S # {}
  PROVE  \E x \in S : \A y \in S : x <= y
<1>1. PICK x \in S : \A y \in S : ~(<<y, x>> \in OpToRel(<, Nat))
  BY NatLessThanWellFounded, WFMin
<1>2. ASSUME NEW y \in S PROVE x <= y
  <2>1. <<y, x>> \in OpToRel(<, Nat) <=> y < x
    BY DEF OpToRel
  <2>2. ~(y < x)
    BY <1>1, <2>1, Zenon
  <2> QED
    BY <2>2
<1> QED
  BY <1>2

\* The first d elements are different.
Distinct(f, d) == \A i, j \in 1..d : f[i] = f[j] => i = j

LEMMA DistinctCount ==
  ASSUME NEW f, NEW d \in Nat, Distinct(f, d)
  PROVE  /\ IsFiniteSet({f[j] : j \in 1..d}) /\ Cardinality({f[j] : j \in 1..d}) = d
<1> DEFINE S == {f[j] : j \in 1..d}
    g == [j \in 1..d |-> f[j]]
<1>1. g \in Bijection(1..d, S)
  BY DEF Bijection, Injection, IsInjective, Surjection, Distinct
<1>2. IsFiniteSet(1..d) /\ Cardinality(1..d) = d
  BY FS_Interval
<1>3. IsFiniteSet(S) /\ Cardinality(S) = d
  <2>1. ExistsBijection(1..d, S)
    BY <1>1, Zenon DEF ExistsBijection
  <2> HIDE DEF S, g
  <2> QED
    BY <1>2, <2>1, FS_Bijection
<1> QED
  BY <1>3

\* The safe links, each URL once, before the limit; where they are on the page;
\* and the URLs of those up to the k-th.
AllSafe == DistinctBy(Only(page.links, SafeLink), LAMBDA l : l.href)
SafeAt == {i \in DOMAIN page.links : SafeLink(page.links[i])}
HrefsUpTo(k) == {page.links[j].href : j \in {i \in SafeAt : i <= k}}

\* The URLs up to any place of the page are the first d of the list, for some d:
\* the list keeps the order in which URLs come first.
LEMMA SafeLinksInOrder ==
  ASSUME page \in Targets
  PROVE  /\ AllSafe \in Seq({l \in Range(page.links) : SafeLink(l)})
         /\ \A i, j \in 1..Len(AllSafe) : AllSafe[i].href = AllSafe[j].href => i = j
         /\ \A k \in 0..Len(page.links) : \E d \in 0..Len(AllSafe) :
              {AllSafe[j].href : j \in 1..d} = HrefsUpTo(k)
<1> DEFINE s == page.links
    T == {l \in Range(s) : SafeLink(l)}
    a == Only(s, SafeLink)
    key == [l \in Range(a) |-> l.href]
    out == AllSafe
<1>1. s \in Seq(Range(s)) /\ Range(s) \cap T = T
  BY PageIs
<1>2. a = Among(s, T) /\ out = FirstByKey(a, key)
  BY DEF Only, AllSafe, DistinctBy
<1>3. KeepsThose(a, Range(s), s, T)
  <2> HIDE DEF T, a
  <2> QED
    BY <1>1, <1>2, AmongKeeps
<1>4. a \in Seq(T) /\ Range(a) = T
  <2> HIDE DEF T, a
  <2> QED
    BY <1>1, <1>3 DEF KeepsThose
<1> HIDE DEF T, a
<1>5. KeepsKeys(out, T, a, key)
  <2> HIDE DEF out, key
  <2> QED
    BY <1>2, <1>4, FirstByKeyKeeps
<1>6. out \in Seq(T) /\ \A i, j \in 1..Len(out) : key[out[i]] = key[out[j]] => i = j
  <2> HIDE DEF out, key
  <2> QED
    BY <1>5 DEF KeepsKeys
<1>7. \A l \in T : key[l] = l.href
  BY <1>4
<1> HIDE DEF out, key
<1>8. \A j \in 1..Len(out) : out[j] \in T /\ key[out[j]] = out[j].href
  BY <1>6, <1>7
<1>9. \A i, j \in 1..Len(out) : out[i].href = out[j].href => i = j
  BY <1>6, <1>8
<1>10. ASSUME NEW k \in 0..Len(s)
       PROVE  \E d \in 0..Len(out) : {out[j].href : j \in 1..d} = HrefsUpTo(k)
  <2>1. PICK m \in 0..Len(a) : {a[j] : j \in 1..m} = {s[i] : i \in 1..k} \cap T
    BY <1>3, <1>10, Zenon DEF KeepsThose
  <2>2. PICK d \in 0..Len(out) : {key[out[j]] : j \in 1..d} = {key[a[i]] : i \in 1..m}
    BY <1>5, <2>1, Zenon DEF KeepsKeys
  <2>3. \A j \in 1..d : j \in 1..Len(out)
    BY <1>6
  <2>4. {out[j].href : j \in 1..d} = {key[out[j]] : j \in 1..d}
    BY <1>8, <2>3
  <2>5. {key[a[i]] : i \in 1..m} = {key[l] : l \in {a[j] : j \in 1..m}}
    OBVIOUS
  <2>6. {a[j] : j \in 1..m} = {s[i] : i \in {x \in SafeAt : x <= k}}
    <3>1. {x \in SafeAt : x <= k} = {i \in 1..k : SafeLink(s[i])}
      BY <1>1 DEF SafeAt
    <3>2. \A i \in 1..k : s[i] \in Range(s) /\ (s[i] \in T <=> SafeLink(s[i]))
      BY <1>1 DEF T, Range
    <3>3. {s[i] : i \in 1..k} \cap T = {s[i] : i \in {j \in 1..k : SafeLink(s[j])}}
      BY <3>2
    <3> QED
      BY <2>1, <3>1, <3>3
  <2>7. \A i \in {x \in SafeAt : x <= k} : key[s[i]] = s[i].href
    BY <1>7 DEF SafeAt, T, Range
  <2>8. {key[l] : l \in {s[i] : i \in {x \in SafeAt : x <= k}}} = HrefsUpTo(k)
    BY <2>7 DEF HrefsUpTo
  <2>9. {out[j].href : j \in 1..d} = HrefsUpTo(k)
    BY <2>2, <2>4, <2>5, <2>6, <2>8, Zenon
  <2> QED
    BY <2>9
<1>11. AllSafe \in Seq({l \in Range(page.links) : SafeLink(l)})
  BY <1>6 DEF T, out
<1> QED
  BY <1>9, <1>10, <1>11 DEF out

\* The first within the limit: each has its own URL, and they are there.
LEMMA SafeLinksAre ==
  ASSUME page \in Targets
  PROVE  /\ SafeLinks \in Seq({l \in Range(page.links) : SafeLink(l)})
         /\ Len(SafeLinks) <= MaxLinks /\ Len(SafeLinks) <= Len(AllSafe)
         /\ Len(SafeLinks) = MaxLinks \/ Len(SafeLinks) = Len(AllSafe)
         /\ \A i \in 1..Len(SafeLinks) : SafeLinks[i] = AllSafe[i]
<1> DEFINE T == {l \in Range(page.links) : SafeLink(l)}
    all == AllSafe
    some == FirstOf(all, MaxLinks)
<1>1. all \in Seq(T) /\ MaxLinks \in Nat
  BY SafeLinksInOrder, PageIs
<1>2. SafeLinks = some
  BY DEF SafeLinks, AllSafe
<1> HIDE DEF T, all
<1>3. /\ some \in Seq(T) /\ Len(some) <= MaxLinks /\ Len(some) <= Len(all)
      /\ Len(some) = MaxLinks \/ Len(some) = Len(all)
      /\ \A i \in 1..Len(some) : some[i] = all[i]
  BY <1>1 DEF FirstOf
<1> QED
  BY <1>2, <1>3 DEF T, all

\* That d is the number of the URLs, the rank by which Defects knows the limit.
LEMMA RanksCount ==
  ASSUME page \in Targets, NEW k \in 0..Len(page.links)
  PROVE  /\ IsFiniteSet(HrefsUpTo(k)) /\ Cardinality(HrefsUpTo(k)) \in 0..Len(AllSafe)
         /\ {AllSafe[j].href : j \in 1..Cardinality(HrefsUpTo(k))} = HrefsUpTo(k)
<1> DEFINE all == AllSafe
    href == [j \in 1..Len(all) |-> all[j].href]
<1>0. /\ \A i, j \in 1..Len(all) : all[i].href = all[j].href => i = j
      /\ \E d \in 0..Len(all) : {all[j].href : j \in 1..d} = HrefsUpTo(k)
  BY SafeLinksInOrder, Zenon
<1>1. Len(all) \in Nat
  BY SafeLinksInOrder
<1> HIDE DEF all
<1>2. PICK d \in 0..Len(all) : {all[j].href : j \in 1..d} = HrefsUpTo(k)
  BY <1>0
<1>3. \A j \in 1..d : j \in 1..Len(all)
  BY <1>1
<1>4. {href[j] : j \in 1..d} = HrefsUpTo(k)
  BY <1>2, <1>3
<1>5. d \in Nat /\ Distinct(href, d)
  BY <1>0, <1>1, <1>3 DEF Distinct
<1> HIDE DEF href
<1>6. IsFiniteSet({href[j] : j \in 1..d}) /\ Cardinality({href[j] : j \in 1..d}) = d
  BY <1>5, DistinctCount
<1> QED
  BY <1>2, <1>4, <1>6 DEF all

\* The broken links among those within the limit are the defects.
LEMMA BrokenLinksAreDefects ==
  ASSUME page \in Targets, role = "link-tester"
  PROVE  {LinkFinding(l).print : l \in {x \in Range(SafeLinks) : Broken(x.status)}} = Defects
<1> DEFINE s == page.links
    n == Len(s)
    some == SafeLinks
    all == AllSafe
    Mark(l) == LinkFinding(l).print
    Ranked == {k \in SafeAt : Broken(s[k].status) /\ Cardinality(HrefsUpTo(k)) <= MaxLinks}
<1>1. Defects = {Mark(s[i]) : i \in Ranked}
  BY DEF Defects, SafeAt, HrefsUpTo
<1>2. /\ s \in Seq(Range(s)) /\ n \in Nat /\ DOMAIN s = 1..n /\ MaxLinks \in Nat
      /\ \A i, j \in 1..n : s[i].href = s[j].href => s[i].status = s[j].status
  BY PageIs
<1>3. /\ \A i \in SafeAt : i \in 1..n /\ SafeLink(s[i])
      /\ \A i \in 1..n : SafeLink(s[i]) => i \in SafeAt
  BY <1>2 DEF SafeAt
<1>4. /\ Len(all) \in Nat /\ \A j \in 1..Len(all) : \E i \in SafeAt : all[j] = s[i]
      /\ \A i, j \in 1..Len(all) : all[i].href = all[j].href => i = j
  <2>1. /\ all \in Seq({l \in Range(s) : SafeLink(l)})
        /\ \A i, j \in 1..Len(all) : all[i].href = all[j].href => i = j
    BY SafeLinksInOrder
  <2>2. \A j \in 1..Len(all) : all[j] \in Range(s) /\ SafeLink(all[j])
    <3> HIDE DEF all
    <3> QED
      BY <2>1
  <2>3. ASSUME NEW j \in 1..Len(all) PROVE \E i \in SafeAt : all[j] = s[i]
    <3>1. PICK i \in 1..n : all[j] = s[i]
      BY <1>2, <2>2, RangeIs
    <3> QED
      BY <1>3, <2>2, <3>1
  <2>4. Len(all) \in Nat
    BY <2>1
  <2> QED
    BY <2>1, <2>3, <2>4
<1>5. /\ Len(some) \in Nat /\ Len(some) <= MaxLinks /\ Len(some) <= Len(all)
      /\ Len(some) = MaxLinks \/ Len(some) = Len(all)
      /\ \A i \in 1..Len(some) : some[i] = all[i]
      /\ Range(some) = {some[i] : i \in 1..Len(some)}
  <2>1. /\ some \in Seq({l \in Range(page.links) : SafeLink(l)})
        /\ Len(some) <= MaxLinks /\ Len(some) <= Len(all)
        /\ Len(some) = MaxLinks \/ Len(some) = Len(all)
        /\ \A i \in 1..Len(some) : some[i] = all[i]
    BY SafeLinksAre
  <2> HIDE DEF some, all
  <2>2. Len(some) \in Nat /\ Range(some) = {some[i] : i \in 1..Len(some)}
    BY <2>1, RangeIs
  <2> QED
    BY <2>1, <2>2
<1>6. \A i, j \in SafeAt : s[i].href = s[j].href => Mark(s[i]) = Mark(s[j]) /\ s[i].status = s[j].status
  BY <1>2, <1>3 DEF LinkFinding, Finding
<1> HIDE DEF s, n, some, all, Mark
\* A defect's link is among the first within the limit.
<1>7. ASSUME NEW i \in Ranked
      PROVE  \E q \in 1..Len(some) : Broken(some[q].status) /\ Mark(some[q]) = Mark(s[i])
  <2> DEFINE d == Cardinality(HrefsUpTo(i))
  <2>1. i \in SafeAt /\ Broken(s[i].status) /\ d <= MaxLinks /\ i \in 0..n
    BY <1>2, <1>3
  <2>2. d \in 0..Len(all) /\ {all[j].href : j \in 1..d} = HrefsUpTo(i)
    BY <2>1, RanksCount DEF all, n, s
  <2> HIDE DEF d
  <2>3. s[i].href \in HrefsUpTo(i)
    BY <1>2, <1>3, <2>1 DEF HrefsUpTo, s
  <2>4. PICK q \in 1..d : all[q].href = s[i].href
    BY <2>2, <2>3
  <2>5. q \in 1..Len(some) /\ q \in 1..Len(all)
    BY <1>2, <1>4, <1>5, <2>1, <2>2
  <2>6. PICK k \in SafeAt : all[q] = s[k]
    BY <1>4, <2>5
  <2>7. Mark(all[q]) = Mark(s[i]) /\ all[q].status = s[i].status
    BY <1>6, <2>1, <2>4, <2>6
  <2> QED
    BY <1>5, <2>1, <2>5, <2>7
\* A link within the limit is where its URL comes first.
<1>8. ASSUME NEW q \in 1..Len(some), Broken(some[q].status)
      PROVE  \E i \in Ranked : Mark(some[q]) = Mark(s[i])
  <2> DEFINE Places == {i \in SafeAt : s[i].href = all[q].href}
  <2>1. q \in 1..Len(all) /\ some[q] = all[q]
    BY <1>4, <1>5
  <2>2. PICK i0 \in SafeAt : all[q] = s[i0]
    BY <1>4, <2>1
  <2>3. PICK i \in Places : \A k \in Places : i <= k
    <3>1. Places \in SUBSET Nat /\ Places # {}
      BY <1>2, <1>3, <2>2
    <3> HIDE DEF Places
    <3> QED
      BY <3>1, LeastIndex
  <2>4. i \in SafeAt /\ s[i].href = all[q].href /\ i \in 1..n
    BY <1>3
  <2>5. Mark(some[q]) = Mark(s[i]) /\ Broken(s[i].status)
    BY <1>6, <1>8, <2>1, <2>2, <2>4
  <2> DEFINE d == Cardinality(HrefsUpTo(i))
      c == Cardinality(HrefsUpTo(i - 1))
  <2>6. /\ i - 1 \in 0..n /\ i \in 0..n
    BY <1>2, <2>4
  <2>7. /\ c \in 0..Len(all) /\ {all[j].href : j \in 1..c} = HrefsUpTo(i - 1)
        /\ IsFiniteSet(HrefsUpTo(i - 1))
    BY <2>6, RanksCount DEF all, n, s
  <2>8. HrefsUpTo(i) = HrefsUpTo(i - 1) \cup {s[i].href}
    <3>1. {k \in SafeAt : k <= i} = {k \in SafeAt : k <= i - 1} \cup {i}
      <4>1. \A k \in SafeAt : k <= i <=> k <= i - 1 \/ k = i
        BY <1>2, <1>3, <2>4
      <4>2. i <= i
        BY <1>2, <2>4
      <4> QED
        BY <2>4, <4>1, <4>2
    <3> QED
      BY <3>1 DEF HrefsUpTo, s
  <2>9. all[q].href \notin HrefsUpTo(i - 1)
    <3> SUFFICES ASSUME all[q].href \in HrefsUpTo(i - 1) PROVE FALSE
      OBVIOUS
    <3>1. PICK k \in SafeAt : k <= i - 1 /\ s[k].href = all[q].href
      BY DEF HrefsUpTo, s
    <3>2. k \in Places /\ k \in 1..n
      BY <1>3, <3>1
    <3> QED
      BY <1>2, <2>3, <2>4, <3>1, <3>2
  <2>10. d = c + 1
    BY <2>4, <2>7, <2>8, <2>9, FS_AddElement
  <2> HIDE DEF d, c, Places
  <2>11. c < q
    <3>1. q \notin 1..c
      BY <2>7, <2>9
    <3> QED
      BY <2>1, <2>7, <3>1
  <2>12. d <= MaxLinks
    BY <1>2, <1>5, <2>7, <2>10, <2>11
  <2> QED
    BY <2>4, <2>5, <2>12 DEF d
<1> HIDE DEF Ranked
<1>9. {Mark(l) : l \in {x \in Range(some) : Broken(x.status)}} = {Mark(s[i]) : i \in Ranked}
  <2>1. {Mark(s[i]) : i \in Ranked} \subseteq {Mark(l) : l \in {x \in Range(some) : Broken(x.status)}}
    BY <1>5, <1>7
  <2>2. {Mark(l) : l \in {x \in Range(some) : Broken(x.status)}} \subseteq {Mark(s[i]) : i \in Ranked}
    BY <1>5, <1>8
  <2> QED
    BY <2>1, <2>2
<1> QED
  BY <1>1, <1>9 DEF Mark, some

-----------------------------------------------------------------------------
(***************************************************************************)
(* The mission.                                                            *)
(***************************************************************************)
\* What is computed of the page stays while the page does.
LEMMA PageStays ==
  ASSUME page' = page
  PROVE  /\ SafeLinks' = SafeLinks /\ SafeCandidates' = SafeCandidates
         /\ NavigationFindings' = NavigationFindings /\ MobileFindings' = MobileFindings
         /\ StalledFinding' = StalledFinding /\ CheckoutCandidates' = CheckoutCandidates
         /\ \A kind, key : LastOf(kind, key)' = LastOf(kind, key)
<1>1. SafeLinks' = SafeLinks
  BY DEF SafeLinks, Only, DistinctBy
<1>2. SafeCandidates' = SafeCandidates
  BY DEF SafeCandidates, Only
<1>3. NavigationFindings' = NavigationFindings
  BY DEF NavigationFindings
<1>4. MobileFindings' = MobileFindings
  BY DEF MobileFindings
<1>5. StalledFinding' = StalledFinding
  BY DEF StalledFinding
<1>6. ASSUME NEW kind, NEW key PROVE LastOf(kind, key)' = LastOf(kind, key)
  <2>1. Events(kind)' = Events(kind)
    BY DEF Events, Only
  <2> QED
    BY <2>1 DEF LastOf, Only
<1>7. CheckoutCandidates' = CheckoutCandidates
  BY <1>2 DEF CheckoutCandidates, Only
<1> QED
  BY <1>1, <1>2, <1>3, <1>4, <1>5, <1>6, <1>7

LEMMA DefectsStay ==
  ASSUME page' = page, role' = role, touched' = touched
  PROVE  Defects' = Defects
BY PageStays DEF Defects

\* The roles that only look at the page, and touch nothing.
Looking == {"error-reviewer", "form-tester", "mobile-tester", "accessibility-reviewer"}

MissionBasics ==
  /\ page \in Targets /\ role \in Roles /\ IsList(results)
  /\ stage \in {"start", "opening", "open"} => results = <<>> /\ touched = <<>>
  /\ role \in Looking => stage # "trying"

\* The link tester goes through its links in their order.
LinksInOrder ==
  role = "link-tester" =>
    /\ touched \in Seq(Range(SafeLinks)) /\ Len(touched) <= Len(SafeLinks)
    /\ \A i \in 1..Len(touched) : touched[i] = SafeLinks[i]
    /\ stage = "trying" =>
         /\ checks \in Seq(Range(SafeLinks)) /\ Len(checks) = Len(SafeLinks) - Len(touched)
         /\ \A i \in 1..Len(checks) : checks[i] = SafeLinks[Len(touched) + i]
    /\ stage = "checked" => Len(touched) = Len(SafeLinks)
    /\ stage \in {"trying", "checked"} =>
         Marks(results) = {LinkFinding(l).print : l \in {x \in Range(touched) : Broken(x.status)}}

\* The buttons the clicker may choose, and those it may then find by a text.
Candidates == {b \in Range(page.buttons) : ~b.disabled /\ SafeLabel(b.label)}
Clickable == {b \in Range(page.buttons) : \E c \in Candidates : c.label \subseteq b.label}

\* The clicker clicks what has the text of a candidate, and reports one finding
\* if anything stalled.
ButtonsOfCandidates ==
  role = "interaction-tester" =>
    /\ touched \in Seq(Clickable)
    /\ stage = "trying" => checks \in Seq(Candidates)
    /\ stage \in {"trying", "checked"} =>
         Marks(results) = IF \E b \in Range(touched) : b.stalls THEN {StalledFinding.print} ELSE {}

\* Each button that is clicked has the text of the candidate whose turn it is.
Hits(c, b) == b.native /\ ~b.disabled /\ c.label \subseteq b.label

ClicksInOrder ==
  role = "interaction-tester" =>
    /\ Len(touched) <= Len(CheckoutCandidates)
    /\ \A i \in 1..Len(touched) : Hits(CheckoutCandidates[i], touched[i])
    /\ stage = "trying" =>
         /\ Len(checks) = Len(CheckoutCandidates) - Len(touched)
         /\ \A i \in 1..Len(checks) : checks[i] = CheckoutCandidates[Len(touched) + i]

\* Once a mission has checked its page its findings are the defects; once it
\* reports, each of them once.
FindingsAreDefects ==
  /\ stage = "checked" /\ role \in Looking => Marks(results) = Defects
  /\ stage = "reported" =>
       /\ Marks(results) = Defects
       /\ \A i, j \in DOMAIN results : results[i].print = results[j].print => i = j

\* The strengthening of MissionIsExact: what is found so far is of what has been
\* touched so far, and what is still to be checked is the rest of the list.
MissionInv ==
  MissionBasics /\ LinksInOrder /\ ButtonsOfCandidates /\ ClicksInOrder /\ FindingsAreDefects

LEMMA CandidatesAre ==
  ASSUME page \in Targets
  PROVE  SafeCandidates \in Seq(Candidates)
<1> DEFINE S == Range(page.buttons)
    T == {b \in S : ~b.disabled /\ SafeLabel(b.label)}
    some == Only(page.buttons, LAMBDA b : ~b.disabled /\ SafeLabel(b.label))
<1>1. page.buttons \in Seq(S) /\ MaxInteractions \in Nat /\ S \cap T = T
  BY PageIs
<1>2. some = Among(page.buttons, T)
  BY DEF Only
<1>3. T = Candidates
  BY DEF Candidates
<1>4. SafeCandidates = FirstOf(some, MaxInteractions)
  BY DEF SafeCandidates
<1> HIDE DEF S, T, some
<1>5. some \in Seq(Candidates)
  BY <1>1, <1>2, <1>3, AmongIs
<1> QED
  BY <1>1, <1>4, <1>5, FirstOfStays

LEMMA CheckoutsAre ==
  ASSUME page \in Targets
  PROVE  CheckoutCandidates \in Seq(Candidates)
<1> DEFINE T == {b \in Range(SafeCandidates) : "checkout" \in b.label}
<1>1. CheckoutCandidates = Among(SafeCandidates, T)
  BY DEF CheckoutCandidates, Only
<1>2. SafeCandidates \in Seq(Candidates)
  BY CandidatesAre
<1> HIDE DEF T
<1>3. CheckoutCandidates \in Seq(Candidates \cap T)
  BY <1>1, <1>2, AmongIs
<1>4. Candidates \cap T \subseteq Candidates
  OBVIOUS
<1> QED
  BY <1>3, <1>4, SeqOfMore

LEMMA MissionInvInit == MissionInit => MissionInv
<1> SUFFICES ASSUME MissionInit PROVE MissionInv
  OBVIOUS
<1>1. /\ page \in Targets /\ role \in Roles /\ stage = "start" /\ results = <<>>
      /\ touched = <<>>
  BY DEF MissionInit
<1>2. IsList(results)
  BY <1>1 DEF IsList
<1>3. LinksInOrder
  <2> SUFFICES ASSUME role = "link-tester" PROVE LinksInOrder
    BY DEF LinksInOrder
  <2>1. SafeLinks \in Seq({l \in Range(page.links) : SafeLink(l)})
    BY <1>1, SafeLinksAre
  <2>2. Len(SafeLinks) \in Nat
    BY <2>1
  <2> QED
    BY <1>1, <2>2 DEF LinksInOrder
<1>4. ButtonsOfCandidates
  BY <1>1 DEF ButtonsOfCandidates
<1>5. ClicksInOrder
  <2>1. Len(CheckoutCandidates) \in Nat
    BY <1>1, CheckoutsAre
  <2> QED
    BY <1>1, <2>1 DEF ClicksInOrder
<1> QED
  BY <1>1, <1>2, <1>3, <1>4, <1>5 DEF MissionInv, MissionBasics, FindingsAreDefects

\* What does not touch the page, the findings or the tries keeps all of it.
LEMMA OnlyTheStage ==
  ASSUME MissionInv, UNCHANGED <<page, role, results, touched, checks>>,
         stage' # "start", stage' # "reported",
         stage' \in {"opening", "open"} => stage \in {"start", "opening", "open"},
         stage' = "trying" => stage = "trying",
         stage' = "checked" => stage = "checked" \/ (stage = "trying" /\ checks = <<>>)
  PROVE  MissionInv'
<1>0. /\ MissionBasics /\ LinksInOrder /\ ButtonsOfCandidates /\ FindingsAreDefects
      /\ ClicksInOrder
      /\ page' = page /\ role' = role /\ results' = results /\ touched' = touched
      /\ checks' = checks
  BY DEF MissionInv
<1>1. MissionBasics'
  BY <1>0 DEF MissionBasics, IsList
<1>2. LinksInOrder'
  <2> SUFFICES ASSUME role = "link-tester" PROVE LinksInOrder'
    BY <1>0 DEF LinksInOrder
  <2>1. SafeLinks' = SafeLinks /\ Len(SafeLinks) \in Nat
    <3>1. SafeLinks \in Seq({l \in Range(page.links) : SafeLink(l)})
      BY <1>0, SafeLinksAre DEF MissionBasics
    <3> QED
      BY <1>0, <3>1, PageStays
  <2>2. stage = "trying" /\ checks = <<>> => Len(touched) = Len(SafeLinks)
    BY <1>0, <2>1 DEF LinksInOrder
  <2> QED
    BY <1>0, <2>1, <2>2 DEF LinksInOrder, Marks
<1>3. ButtonsOfCandidates'
  <2>1. Candidates' = Candidates /\ Clickable' = Clickable
    BY <1>0 DEF Candidates, Clickable
  <2>2. StalledFinding' = StalledFinding
    BY <1>0, PageStays
  <2> QED
    BY <1>0, <2>1, <2>2 DEF ButtonsOfCandidates, Marks
<1>4. FindingsAreDefects'
  <2>1. Defects' = Defects
    BY <1>0, DefectsStay
  <2> QED
    BY <1>0, <2>1 DEF FindingsAreDefects, Marks, MissionBasics
<1>5. ClicksInOrder'
  BY <1>0, PageStays DEF ClicksInOrder
<1> QED
  BY <1>1, <1>2, <1>3, <1>4, <1>5 DEF MissionInv

LEMMA InspectStays ==
  ASSUME MissionInv, Inspect
  PROVE  MissionInv'
<1>1. /\ page \in Targets /\ role \in Looking /\ page' = page /\ role' = role
      /\ touched' = touched /\ stage' = "checked"
  BY DEF MissionInv, MissionBasics, Inspect, Looking, Roles
<1>2. /\ role = "error-reviewer" => results' = ErrorFindings
      /\ role = "form-tester" => results' = FormFindings
      /\ role = "mobile-tester" => results' = MobileFindings
      /\ role = "accessibility-reviewer" => results' = AxeFindings
  BY DEF Inspect
<1>3. IsList(results') /\ Marks(results') = Defects
  <2>1. CASE role = "error-reviewer"
    BY <1>1, <1>2, <2>1, ErrorsAreTold
  <2>2. CASE role = "form-tester"
    BY <1>1, <1>2, <2>2, LabelsAreTold
  <2>3. CASE role = "mobile-tester"
    BY <1>2, <2>3, OverflowIsTold
  <2>4. CASE role = "accessibility-reviewer"
    BY <1>1, <1>2, <2>4, ViolationsAreTold
  <2> QED
    BY <1>1, <2>1, <2>2, <2>3, <2>4 DEF Looking
<1>4. Defects' = Defects
  BY <1>1, DefectsStay
<1>5. IsList(results)' /\ Marks(results)' = Defects'
  BY <1>3, <1>4 DEF IsList, Marks
<1>6. MissionBasics'
  BY <1>1, <1>5 DEF MissionBasics, MissionInv
<1>7. LinksInOrder' /\ ButtonsOfCandidates' /\ ClicksInOrder'
  BY <1>1 DEF LinksInOrder, ButtonsOfCandidates, ClicksInOrder, Looking
<1>8. FindingsAreDefects'
  BY <1>1, <1>5 DEF FindingsAreDefects
<1> QED
  BY <1>6, <1>7, <1>8 DEF MissionInv

LEMMA AppendedMark ==
  ASSUME NEW s, IsList(s), NEW f
  PROVE  IsList(Append(s, f)) /\ Marks(Append(s, f)) = Marks(s) \cup {f.print}
<1> DEFINE S == Range(s) \cup {f}
    t == Append(s, f)
<1>1. s \in Seq(S) /\ f \in S
  BY DEF IsList
<1> HIDE DEF S, t
<1>2. /\ t \in Seq(S) /\ Len(t) = Len(s) + 1 /\ Len(s) \in Nat
      /\ \A j \in 1..Len(s) : t[j] = s[j]
      /\ t[Len(s) + 1] = f
  BY <1>1, AllOfAppended DEF t
<1>3. DOMAIN s = 1..Len(s) /\ DOMAIN t = 1..Len(s) \cup {Len(s) + 1}
  BY <1>1, <1>2
<1>4. Marks(t) = Marks(s) \cup {f.print}
  BY <1>2, <1>3 DEF Marks
<1>5. IsList(t)
  BY <1>2, ListIs
<1> QED
  BY <1>4, <1>5 DEF t

LEMMA ListingLinksStays ==
  ASSUME MissionInv, ListLinks
  PROVE  MissionInv'
<1>1. CASE \E i \in DOMAIN page.links : page.links[i].malformed
  <2>1. Ends("failed") /\ UNCHANGED <<page, role, results, touched, checks>> /\ stage' = "failed"
    BY <1>1 DEF ListLinks, Ends
  <2> QED
    BY <2>1, OnlyTheStage
<1>2. CASE ~\E i \in DOMAIN page.links : page.links[i].malformed
  <2>1. /\ page' = page /\ role' = role /\ results' = results /\ touched' = touched
        /\ role = "link-tester" /\ stage' = "trying" /\ checks' = SafeLinks
        /\ results = <<>> /\ touched = <<>> /\ page \in Targets
    BY <1>2 DEF ListLinks, MissionInv, MissionBasics
  <2>2. MissionBasics'
    BY <2>1 DEF MissionBasics, MissionInv, IsList, Looking
  <2>3. SafeLinks' = SafeLinks /\ SafeLinks \in Seq(Range(SafeLinks)) /\ Len(SafeLinks) \in Nat
    <3>1. SafeLinks \in Seq({l \in Range(page.links) : SafeLink(l)})
      BY <2>1, SafeLinksAre
    <3>2. SafeLinks \in Seq(Range(SafeLinks)) /\ Len(SafeLinks) \in Nat
      BY <3>1, ListIs DEF IsList
    <3> QED
      BY <2>1, <3>2, PageStays
  <2>4. LinksInOrder'
    <3>1. Range(<<>>) = {} /\ Marks(<<>>) = {} /\ Len(<<>>) = 0
      BY DEF Range, Marks
    <3>2. touched' \in Seq(Range(SafeLinks))
      BY <2>1
    <3>3. {LinkFinding(l).print : l \in {x \in Range(touched') : Broken(x.status)}} = {}
      BY <2>1, <3>1
    <3>4. \A i \in 1..Len(SafeLinks) : SafeLinks[i] = SafeLinks[0 + i]
      BY <2>3
    <3>5. Marks(results)' = {}
      BY <2>1, <3>1 DEF Marks
    <3> QED
      BY <2>1, <2>3, <3>1, <3>2, <3>3, <3>4, <3>5 DEF LinksInOrder
  <2>5. ButtonsOfCandidates' /\ ClicksInOrder' /\ FindingsAreDefects'
    BY <2>1 DEF ButtonsOfCandidates, ClicksInOrder, FindingsAreDefects
  <2> QED
    BY <2>2, <2>4, <2>5 DEF MissionInv
<1> QED
  BY <1>1, <1>2

LEMMA ListingButtonsStays ==
  ASSUME MissionInv, ListButtons
  PROVE  MissionInv'
<1>1. /\ page' = page /\ role' = role /\ results' = results /\ touched' = touched
      /\ role = "interaction-tester" /\ stage' = "trying"
      /\ results = <<>> /\ touched = <<>> /\ page \in Targets
  BY DEF ListButtons, MissionInv, MissionBasics
<1>2. /\ checks' = CheckoutCandidates /\ CheckoutCandidates \in Seq(Candidates)
      /\ CheckoutCandidates' = CheckoutCandidates
  BY <1>1, CheckoutsAre, PageStays DEF ListButtons
<1>3. MissionBasics'
  BY <1>1 DEF MissionBasics, MissionInv, IsList, Looking
<1>4. ButtonsOfCandidates'
  <2>1. Candidates' = Candidates
    BY <1>1 DEF Candidates
  <2>2. Range(<<>>) = {} /\ Marks(<<>>) = {}
    BY DEF Range, Marks
  <2>3. Marks(results)' = {}
    BY <1>1, <2>2 DEF Marks
  <2>4. touched' \in Seq(Clickable') /\ Range(touched') = {}
    BY <1>1, <2>2
  <2> QED
    BY <1>1, <1>2, <2>1, <2>3, <2>4 DEF ButtonsOfCandidates
<1>5. LinksInOrder' /\ FindingsAreDefects'
  BY <1>1 DEF LinksInOrder, FindingsAreDefects
<1>6. ClicksInOrder'
  <2> DEFINE all == CheckoutCandidates
  <2>1. /\ Len(touched') = 0 /\ Len(all) \in Nat
        /\ \A i \in 1..Len(all) : all[i] = all[0 + i]
    BY <1>1, <1>2
  <2> QED
    BY <1>1, <1>2, <2>1 DEF ClicksInOrder
<1> QED
  BY <1>3, <1>4, <1>5, <1>6 DEF MissionInv

\* A requested link joins the touched ones, with its finding if it is broken.
LEMMA RequestStays ==
  ASSUME MissionInv, RequestLink
  PROVE  MissionInv'
<1> DEFINE h == Head(checks)
    n == Len(touched)
    links == SafeLinks
<1>1. /\ page' = page /\ role' = role /\ page \in Targets /\ role = "link-tester"
      /\ role \in Roles /\ IsList(results)
      /\ stage = "trying" /\ checks # <<>> /\ touched' = Append(touched, h)
  BY DEF RequestLink, MissionInv, MissionBasics
<1>2. /\ touched \in Seq(Range(links)) /\ n <= Len(links)
      /\ \A i \in 1..n : touched[i] = links[i]
      /\ checks \in Seq(Range(links)) /\ Len(checks) = Len(links) - n
      /\ \A i \in 1..Len(checks) : checks[i] = links[n + i]
      /\ Marks(results) = {LinkFinding(l).print : l \in {x \in Range(touched) : Broken(x.status)}}
  BY <1>1 DEF MissionInv, LinksInOrder
<1>3. links' = links /\ Len(links) \in Nat /\ n \in Nat
  <2>1. SafeLinks \in Seq({l \in Range(page.links) : SafeLink(l)})
    BY <1>1, SafeLinksAre
  <2>2. Len(SafeLinks) \in Nat
    BY <2>1
  <2> QED
    BY <1>1, <1>2, <2>2, PageStays
<1> HIDE DEF links
<1>4. /\ h \in Range(links) /\ h = links[n + 1] /\ n + 1 <= Len(links)
      /\ Tail(checks) \in Seq(Range(links)) /\ Len(Tail(checks)) = Len(links) - (n + 1)
      /\ \A i \in 1..Len(Tail(checks)) : Tail(checks)[i] = links[(n + 1) + i]
  <2>1. Len(checks) \in Nat /\ Len(checks) >= 1 /\ 1 \in 1..Len(checks)
    BY <1>1, <1>2
  <2>2. h = checks[1] /\ h \in Range(links)
    BY <1>1, <1>2
  <2>3. Tail(checks) \in Seq(Range(links)) /\ Len(Tail(checks)) = Len(checks) - 1
    BY <1>1, <1>2
  <2>4. ASSUME NEW i \in 1..Len(Tail(checks)) PROVE Tail(checks)[i] = links[(n + 1) + i]
    <3>1. Tail(checks)[i] = checks[i + 1]
      BY <1>1, <1>2
    <3>2. i + 1 \in 1..Len(checks) /\ n + (i + 1) = (n + 1) + i
      BY <1>3, <2>1, <2>3
    <3> QED
      BY <1>2, <3>1, <3>2
  <2>5. n + 1 <= Len(links) /\ Len(Tail(checks)) = Len(links) - (n + 1) /\ checks[1] = links[n + 1]
    BY <1>2, <1>3, <2>1, <2>3
  <2> QED
    BY <2>2, <2>3, <2>4, <2>5
<1> HIDE DEF h
<1>5. /\ touched' \in Seq(Range(links)) /\ Len(touched') = n + 1
      /\ \A i \in 1..n : touched'[i] = touched[i]
      /\ touched'[n + 1] = h
      /\ Range(touched') = Range(touched) \cup {h}
  <2> DEFINE t == Append(touched, h)
      S == Range(links)
  <2>1. touched \in Seq(S) /\ h \in S
    BY <1>2, <1>4
  <2> HIDE DEF S
  <2>2. /\ t \in Seq(S) /\ Len(t) = n + 1 /\ \A i \in 1..n : t[i] = touched[i]
        /\ t[n + 1] = h
        /\ {t[j] : j \in 1..Len(t)} = {touched[j] : j \in 1..n} \cup {h}
    BY <2>1, AllOfAppended
  <2> HIDE DEF t
  <2>3. Range(t) = {t[j] : j \in 1..Len(t)} /\ Range(touched) = {touched[j] : j \in 1..n}
    BY <2>1, <2>2, RangeIs
  <2> QED
    BY <1>1, <2>2, <2>3 DEF t, S
<1> HIDE DEF n
<1>6. \A i \in 1..(n + 1) : touched'[i] = links[i]
  <2>1. 1..(n + 1) = 1..n \cup {n + 1}
    BY <1>3
  <2> QED
    BY <1>2, <1>4, <1>5, <2>1
<1>7. CASE h.status = 0
  <2>1. stage' = "failed" /\ results' = results
    BY <1>7 DEF RequestLink, h
  <2>2. LinksInOrder'
    BY <1>1, <1>3, <1>4, <1>5, <1>6, <2>1 DEF LinksInOrder, links
  <2>3. MissionBasics'
    BY <1>1, <2>1 DEF MissionBasics, IsList
  <2>4. ButtonsOfCandidates' /\ ClicksInOrder' /\ FindingsAreDefects'
    BY <1>1, <2>1 DEF ButtonsOfCandidates, ClicksInOrder, FindingsAreDefects
  <2> QED
    BY <2>2, <2>3, <2>4 DEF MissionInv
<1>8. CASE h.status # 0
  <2>1. /\ stage' = "trying" /\ checks' = Tail(checks)
        /\ results' = IF Broken(h.status) THEN Append(results, LinkFinding(h)) ELSE results
    BY <1>1, <1>8 DEF RequestLink, h
  <2> DEFINE bad == {LinkFinding(l).print : l \in {x \in Range(touched) : Broken(x.status)}}
      more == {LinkFinding(l).print : l \in {x \in Range(touched') : Broken(x.status)}}
  <2>2. IsList(results') /\ Marks(results') = more
    <3>1. CASE Broken(h.status)
      <4>1. IsList(results') /\ Marks(results') = Marks(results) \cup {LinkFinding(h).print}
        BY <1>1, <2>1, <3>1, AppendedMark
      <4>2. {x \in Range(touched') : Broken(x.status)} =
              {x \in Range(touched) : Broken(x.status)} \cup {h}
        BY <1>5, <3>1
      <4>3. more = bad \cup {LinkFinding(h).print}
        BY <4>2
      <4> QED
        BY <1>2, <4>1, <4>3
    <3>2. CASE ~Broken(h.status)
      <4>1. {x \in Range(touched') : Broken(x.status)} = {x \in Range(touched) : Broken(x.status)}
        BY <1>5, <3>2
      <4> QED
        BY <1>1, <1>2, <2>1, <3>2, <4>1
    <3> QED
      BY <3>1, <3>2
  <2>3. LinksInOrder'
    BY <1>1, <1>3, <1>4, <1>5, <1>6, <2>1, <2>2 DEF LinksInOrder, links, Marks
  <2>4. MissionBasics'
    BY <1>1, <2>1, <2>2 DEF MissionBasics, IsList, Looking
  <2>5. ButtonsOfCandidates' /\ ClicksInOrder' /\ FindingsAreDefects'
    BY <1>1, <2>1 DEF ButtonsOfCandidates, ClicksInOrder, FindingsAreDefects
  <2> QED
    BY <2>3, <2>4, <2>5 DEF MissionInv
<1> QED
  BY <1>7, <1>8

\* The button that is clicked has the text of a safe candidate.
LEMMA ButtonIsClickable ==
  ASSUME page \in Targets, NEW c \in Candidates, HasText(c.label) # <<>>
  PROVE  /\ Head(HasText(c.label)) \in Clickable
         /\ Head(HasText(c.label)).native /\ c.label \subseteq Head(HasText(c.label)).label
<1> DEFINE S == Range(page.buttons)
    T == {b \in S : b.native /\ c.label \subseteq b.label}
    matches == HasText(c.label)
<1>1. page.buttons \in Seq(S)
  BY PageIs
<1>2. matches = Among(page.buttons, T)
  BY DEF HasText, Only
<1>3. T \subseteq Clickable /\ \A b \in T : b.native /\ c.label \subseteq b.label
  BY DEF Clickable
<1> HIDE DEF S, T, matches
<1>4. matches \in Seq(S \cap T)
  BY <1>1, <1>2, AmongIs
<1>5. matches # <<>> => Head(matches) \in T
  BY <1>4
<1> QED
  BY <1>3, <1>5 DEF matches

\* A clicked button joins the touched ones; what stalls is found.
LEMMA ClickStays ==
  ASSUME MissionInv, ClickCheckout
  PROVE  MissionInv'
<1> DEFINE matches == HasText(Head(checks).label)
    b == Head(matches)
<1>1. /\ page' = page /\ role' = role /\ page \in Targets /\ role = "interaction-tester"
      /\ role \in Roles /\ IsList(results) /\ stage = "trying" /\ checks # <<>>
  BY DEF ClickCheckout, MissionInv, MissionBasics
<1>2. CASE matches = <<>> \/ b.disabled
  <2>1. UNCHANGED <<page, role, results, touched, checks>> /\ stage' = "failed"
    BY <1>2 DEF ClickCheckout
  <2> QED
    BY <2>1, OnlyTheStage
<1>3. CASE ~(matches = <<>> \/ b.disabled)
  <2>1. /\ stage' = "trying" /\ checks' = Tail(checks) /\ touched' = Append(touched, b)
        /\ results' = IF b.stalls THEN Append(results, StalledFinding) ELSE results
    BY <1>1, <1>3 DEF ClickCheckout
  <2>2. /\ touched \in Seq(Clickable) /\ checks \in Seq(Candidates)
        /\ Marks(results) = IF \E x \in Range(touched) : x.stalls
                            THEN {StalledFinding.print} ELSE {}
    BY <1>1 DEF MissionInv, ButtonsOfCandidates
  <2>3. Head(checks) \in Candidates /\ Tail(checks) \in Seq(Candidates)
    BY <1>1, <2>2
  <2>4. b \in Clickable /\ Hits(Head(checks), b)
    BY <1>1, <1>3, <2>3, ButtonIsClickable DEF Hits
  <2>5. /\ Candidates' = Candidates /\ Clickable' = Clickable
        /\ StalledFinding' = StalledFinding /\ CheckoutCandidates' = CheckoutCandidates
    BY <1>1, PageStays DEF Candidates, Clickable
  <2> HIDE DEF b, matches
  <2>6. /\ touched' \in Seq(Clickable) /\ Range(touched') = Range(touched) \cup {b}
        /\ Len(touched') = Len(touched) + 1 /\ touched'[Len(touched) + 1] = b
        /\ \A i \in 1..Len(touched) : touched'[i] = touched[i]
    <3> DEFINE t == Append(touched, b)
    <3>1. /\ t \in Seq(Clickable) /\ Len(t) = Len(touched) + 1 /\ t[Len(touched) + 1] = b
          /\ \A i \in 1..Len(touched) : t[i] = touched[i]
          /\ {t[j] : j \in 1..Len(t)} = {touched[j] : j \in 1..Len(touched)} \cup {b}
      BY <2>2, <2>4, AllOfAppended
    <3> HIDE DEF t
    <3>2. Range(t) = {t[j] : j \in 1..Len(t)} /\ Range(touched) = {touched[j] : j \in 1..Len(touched)}
      BY <2>2, <3>1, RangeIs
    <3> QED
      BY <2>1, <3>1, <3>2 DEF t
  <2>7. IsList(results') /\ Marks(results') = IF \E x \in Range(touched') : x.stalls
                                              THEN {StalledFinding.print} ELSE {}
    <3>1. CASE b.stalls
      <4>1. IsList(results') /\ Marks(results') = Marks(results) \cup {StalledFinding.print}
        BY <1>1, <2>1, <3>1, AppendedMark
      <4> QED
        BY <2>2, <2>6, <3>1, <4>1
    <3>2. CASE ~b.stalls
      BY <1>1, <2>1, <2>2, <2>6, <3>2
    <3> QED
      BY <3>1, <3>2
  <2>8. ButtonsOfCandidates'
    BY <1>1, <2>1, <2>3, <2>5, <2>6, <2>7 DEF ButtonsOfCandidates, Marks
  <2>9. MissionBasics'
    BY <1>1, <2>1, <2>7 DEF MissionBasics, IsList, Looking
  <2>10. LinksInOrder' /\ FindingsAreDefects'
    BY <1>1, <2>1 DEF LinksInOrder, FindingsAreDefects
  <2>11. ClicksInOrder'
    <3> DEFINE all == CheckoutCandidates
        n == Len(touched)
    <3>1. /\ n <= Len(all) /\ \A i \in 1..n : Hits(all[i], touched[i])
          /\ Len(checks) = Len(all) - n /\ \A i \in 1..Len(checks) : checks[i] = all[n + i]
      BY <1>1 DEF MissionInv, ClicksInOrder
    <3>2. Len(all) \in Nat /\ n \in Nat
      BY <1>1, <2>2, CheckoutsAre
    <3>3. /\ Len(checks) \in Nat /\ Len(checks) >= 1 /\ Head(checks) = checks[1]
          /\ Len(Tail(checks)) = Len(checks) - 1
          /\ \A i \in 1..Len(Tail(checks)) : Tail(checks)[i] = checks[i + 1]
      BY <1>1, <2>2
    <3> HIDE DEF all, n
    <3>4. Hits(all[n + 1], b) /\ n + 1 <= Len(all)
      <4>1. checks[1] = all[n + 1] /\ 1 \in 1..Len(checks)
        BY <3>1, <3>3
      <4> QED
        BY <2>4, <3>1, <3>2, <3>3, <4>1
    <3>5. \A i \in 1..Len(touched') : Hits(all[i], touched'[i])
      <4>1. 1..Len(touched') = 1..n \cup {n + 1}
        BY <2>6, <3>2 DEF n
      <4> QED
        BY <2>6, <3>1, <3>4, <4>1 DEF n
    <3>6. \A i \in 1..Len(checks') : checks'[i] = all[(n + 1) + i]
      <4> SUFFICES ASSUME NEW i \in 1..Len(Tail(checks)) PROVE Tail(checks)[i] = all[(n + 1) + i]
        BY <2>1
      <4>1. i + 1 \in 1..Len(checks) /\ n + (i + 1) = (n + 1) + i
        BY <3>2, <3>3
      <4> QED
        BY <3>1, <3>3, <4>1
    <3>7. Len(checks') = Len(all) - (n + 1) /\ Len(touched') = n + 1
      BY <2>1, <2>6, <3>1, <3>2, <3>3 DEF n
    <3> QED
      BY <2>5, <3>4, <3>5, <3>6, <3>7 DEF ClicksInOrder, all
  <2> QED
    BY <2>8, <2>9, <2>10, <2>11 DEF MissionInv
<1> QED
  BY <1>2, <1>3

\* For every role: what a mission has found is what there is.
LEMMA CheckedIsExact ==
  ASSUME MissionInv, stage = "checked"
  PROVE  Marks(results) = Defects
<1>1. page \in Targets /\ role \in Roles
  BY DEF MissionInv, MissionBasics
<1>2. CASE role \in Looking
  BY <1>2 DEF MissionInv, FindingsAreDefects
<1>3. CASE role = "link-tester"
  <2>1. /\ touched \in Seq(Range(SafeLinks)) /\ Len(touched) = Len(SafeLinks)
        /\ \A i \in 1..Len(touched) : touched[i] = SafeLinks[i]
        /\ Marks(results) = {LinkFinding(l).print : l \in {x \in Range(touched) : Broken(x.status)}}
    BY <1>3 DEF MissionInv, LinksInOrder
  <2>2. SafeLinks \in Seq({l \in Range(page.links) : SafeLink(l)})
    BY <1>1, SafeLinksAre
  <2>3. Range(touched) = Range(SafeLinks)
    <3>1. Range(touched) = {touched[i] : i \in 1..Len(touched)}
      BY <2>1, RangeIs
    <3>2. Range(SafeLinks) = {SafeLinks[i] : i \in 1..Len(SafeLinks)}
      BY <2>2, RangeIs
    <3> QED
      BY <2>1, <3>1, <3>2
  <2> QED
    BY <1>1, <1>3, <2>1, <2>3, BrokenLinksAreDefects
<1>4. CASE role = "interaction-tester"
  <2>1. Marks(results) = IF \E b \in Range(touched) : b.stalls THEN {StalledFinding.print} ELSE {}
    BY <1>4 DEF MissionInv, ButtonsOfCandidates
  <2>2. Defects = IF \E b \in Range(touched) : b.stalls THEN {StalledFinding.print} ELSE {}
    BY <1>4 DEF Defects
  <2> QED
    BY <2>1, <2>2
<1> QED
  BY <1>1, <1>2, <1>3, <1>4 DEF Roles, Looking

\* Reporting keeps one finding for each print.
LEMMA ReportStays ==
  ASSUME MissionInv, ReportFindings
  PROVE  MissionInv'
<1>1. CASE cancelAsked
  <2>1. UNCHANGED <<page, role, results, touched, checks>> /\ stage' = "cancelled"
    BY <1>1 DEF ReportFindings
  <2> QED
    BY <2>1, OnlyTheStage
<1>2. CASE ~cancelAsked
  <2> DEFINE print == [f \in Range(results) |-> f.print]
      S == Range(results)
      out == FirstByKey(results, print)
  <2>1. /\ page' = page /\ role' = role /\ touched' = touched /\ page \in Targets
        /\ role \in Roles /\ stage = "checked" /\ stage' = "reported" /\ results' = out
    BY <1>2 DEF ReportFindings, MissionInv, MissionBasics, DistinctBy
  <2>2. results \in Seq(S) /\ Range(results) = S
    BY DEF MissionInv, MissionBasics, IsList
  <2>3. KeepsKeys(out, S, results, print)
    <3> HIDE DEF S, print
    <3> QED
      BY <2>2, FirstByKeyKeeps
  <2> HIDE DEF out
  <2>4. \A f \in S : print[f] = f.print
    OBVIOUS
  <2> HIDE DEF S, print
  <2>5. /\ out \in Seq(S) /\ \A i, j \in 1..Len(out) : print[out[i]] = print[out[j]] => i = j
    BY <2>3 DEF KeepsKeys
  <2>6. /\ DOMAIN out = 1..Len(out) /\ DOMAIN results = 1..Len(results)
        /\ Len(out) \in Nat /\ Len(results) \in Nat
        /\ \A i \in 1..Len(out) : out[i] \in S /\ print[out[i]] = out[i].print
        /\ \A i \in 1..Len(results) : results[i] \in S /\ print[results[i]] = results[i].print
    BY <2>2, <2>4, <2>5
  <2>7. Marks(out) = Marks(results)
    <3>1. Len(results) \in 0..Len(results)
      BY <2>6
    <3>2. PICK m \in 0..Len(out) :
            {print[out[j]] : j \in 1..m} = {print[results[i]] : i \in 1..Len(results)}
      BY <2>3, <3>1, Zenon DEF KeepsKeys
    <3>3. Marks(results) = {print[results[i]] : i \in 1..Len(results)}
      BY <2>6 DEF Marks
    <3>4. {print[out[j]] : j \in 1..m} \subseteq Marks(out)
      BY <2>6 DEF Marks
    <3>5. Range(out) \subseteq Range(results)
      BY <2>3 DEF KeepsKeys
    <3>6. Marks(out) \subseteq Marks(results)
      <4>1. /\ Marks(out) = {f.print : f \in Range(out)}
            /\ Marks(results) = {f.print : f \in Range(results)}
        BY <2>2, <2>5, ListIs
      <4> QED
        BY <3>5, <4>1
    <3> QED
      BY <3>2, <3>3, <3>4, <3>6
  <2>8. \A i, j \in DOMAIN out : out[i].print = out[j].print => i = j
    BY <2>5, <2>6
  <2>9. Defects' = Defects /\ Marks(results) = Defects
    BY <2>1, DefectsStay, CheckedIsExact
  <2>10. IsList(out)
    BY <2>5, ListIs
  <2>11. MissionBasics'
    BY <2>1, <2>10 DEF MissionBasics, IsList
  <2>12. FindingsAreDefects'
    <3>1. Marks(results)' = Marks(out)
      BY <2>1 DEF Marks
    <3> QED
      BY <2>1, <2>7, <2>8, <2>9, <3>1 DEF FindingsAreDefects
  <2>13. LinksInOrder' /\ ButtonsOfCandidates' /\ ClicksInOrder'
    <3>1. /\ SafeLinks' = SafeLinks /\ Clickable' = Clickable
          /\ CheckoutCandidates' = CheckoutCandidates
      BY <2>1, PageStays DEF Clickable, Candidates
    <3> QED
      BY <2>1, <3>1 DEF MissionInv, LinksInOrder, ButtonsOfCandidates, ClicksInOrder
  <2> QED
    BY <2>11, <2>12, <2>13 DEF MissionInv
<1> QED
  BY <1>1, <1>2

\* Every step of a mission keeps it.
LEMMA MissionInvStays == MissionInv /\ [MissionNext]_missionVars => MissionInv'
<1> SUFFICES ASSUME MissionInv, [MissionNext]_missionVars PROVE MissionInv'
  OBVIOUS
<1> DEFINE Rest == UNCHANGED <<page, role, results, touched, checks>>
<1>1. CASE UserCancels
  <2>1. Rest /\ stage' = stage /\ stage \notin {"reported"}
    BY <1>1 DEF UserCancels
  <2>2. CASE stage = "start"
    <3>1. page' = page /\ role' = role /\ results' = results /\ touched' = touched /\ stage' = "start"
      BY <2>1, <2>2
    <3>2. /\ SafeLinks' = SafeLinks /\ Clickable' = Clickable
          /\ CheckoutCandidates' = CheckoutCandidates
      BY <3>1, PageStays DEF Clickable, Candidates
    <3> QED
      BY <2>2, <3>1, <3>2 DEF MissionInv, MissionBasics, LinksInOrder, ButtonsOfCandidates,
                              ClicksInOrder, FindingsAreDefects, IsList
  <2>3. CASE stage # "start"
    BY <2>1, <2>3, OnlyTheStage
  <2> QED
    BY <2>2, <2>3
<1>2. CASE Begin
  <2>1. Rest /\ stage' \in {"cancelled", "opening"} /\ stage = "start"
    BY <1>2 DEF Begin, Ends
  <2> QED
    BY <2>1, OnlyTheStage
<1>3. CASE Navigate
  <2>1. Rest /\ stage' \in {"cancelled", "failed", "open"} /\ stage = "opening"
    BY <1>3 DEF Navigate, Ends
  <2> QED
    BY <2>1, OnlyTheStage
<1>4. CASE NavigationFails
  <2>1. Rest /\ stage' \in {"cancelled", "failed"}
    BY <1>4 DEF NavigationFails, Ends
  <2> QED
    BY <2>1, OnlyTheStage
<1>5. CASE Inspect
  BY <1>5, InspectStays
<1>6. CASE ListLinks
  BY <1>6, ListingLinksStays
<1>7. CASE ListButtons
  BY <1>7, ListingButtonsStays
<1>8. CASE RequestLink
  BY <1>8, RequestStays
<1>9. CASE ClickCheckout
  BY <1>9, ClickStays
<1>10. CASE TriedAll
  <2>1. Rest /\ stage' = "checked" /\ stage = "trying" /\ checks = <<>>
    BY <1>10 DEF TriedAll, Ends
  <2> QED
    BY <2>1, OnlyTheStage
<1>11. CASE MissionFails
  <2>1. Rest /\ stage' = "failed"
    BY <1>11 DEF MissionFails, Ends
  <2> QED
    BY <2>1, OnlyTheStage
<1>12. CASE ReportFindings
  BY <1>12, ReportStays
<1>13. CASE UNCHANGED missionVars
  <2>1. Rest /\ stage' = stage
    BY <1>13 DEF missionVars
  <2>2. /\ SafeLinks' = SafeLinks /\ Clickable' = Clickable /\ Candidates' = Candidates
        /\ CheckoutCandidates' = CheckoutCandidates
        /\ StalledFinding' = StalledFinding /\ Defects' = Defects /\ Marks(results)' = Marks(results)
    BY <2>1, PageStays, DefectsStay DEF Clickable, Candidates, Marks
  <2> QED
    BY <2>1, <2>2 DEF MissionInv, MissionBasics, LinksInOrder, ButtonsOfCandidates,
                      ClicksInOrder, FindingsAreDefects, IsList
<1> QED
  BY <1>1, <1>2, <1>3, <1>4, <1>5, <1>6, <1>7, <1>8, <1>9, <1>10, <1>11, <1>12, <1>13
     DEF MissionNext

\* It contains the property.
LEMMA MissionInvIsExact == MissionInv => MissionIsExact
<1> SUFFICES ASSUME MissionInv PROVE MissionIsExact
  OBVIOUS
<1>1. page \in Targets
  BY DEF MissionInv, MissionBasics
<1>2. ReportIsExact
  BY DEF MissionInv, FindingsAreDefects, ReportIsExact, Marks
<1>3. ASSUME role = "link-tester"
      PROVE  /\ Len(touched) <= MaxLinks
             /\ \A i \in DOMAIN touched :
                  /\ touched[i].sameOrigin /\ ~touched[i].destructive
                  /\ \A j \in DOMAIN touched : touched[i].href = touched[j].href => i = j
  <2>1. /\ touched \in Seq(Range(SafeLinks)) /\ Len(touched) <= Len(SafeLinks)
        /\ \A i \in 1..Len(touched) : touched[i] = SafeLinks[i]
    BY <1>3 DEF MissionInv, LinksInOrder
  <2>2. /\ SafeLinks \in Seq({l \in Range(page.links) : SafeLink(l)})
        /\ Len(SafeLinks) <= MaxLinks /\ Len(SafeLinks) <= Len(AllSafe)
        /\ \A i \in 1..Len(SafeLinks) : SafeLinks[i] = AllSafe[i]
    BY <1>1, SafeLinksAre
  <2>3. AllSafe \in Seq({l \in Range(page.links) : SafeLink(l)})
    BY <1>1, SafeLinksInOrder
  <2>4. \A i, j \in 1..Len(AllSafe) : AllSafe[i].href = AllSafe[j].href => i = j
    BY <1>1, SafeLinksInOrder, Zenon
  <2>5. MaxLinks \in Nat
    BY <1>1, PageIs
  <2>6. /\ DOMAIN touched = 1..Len(touched) /\ Len(touched) \in Nat /\ Len(SafeLinks) \in Nat
        /\ Len(AllSafe) \in Nat
        /\ \A i \in 1..Len(SafeLinks) : SafeLink(SafeLinks[i])
    BY <2>1, <2>2, <2>3
  <2>7. \A i \in 1..Len(touched) : /\ i \in 1..Len(SafeLinks) /\ i \in 1..Len(AllSafe)
                                   /\ touched[i] = AllSafe[i] /\ SafeLink(touched[i])
    BY <2>1, <2>2, <2>6
  <2>8. Len(touched) <= MaxLinks
    BY <2>1, <2>2, <2>5, <2>6
  <2> QED
    BY <2>4, <2>6, <2>7, <2>8 DEF SafeLink
<1>4. ASSUME role = "interaction-tester"
      PROVE  /\ Len(touched) <= Len(CheckoutCandidates)
             /\ \A i \in DOMAIN touched :
                  /\ touched[i].native /\ ~touched[i].disabled
                  /\ SafeLabel(CheckoutCandidates[i].label)
                  /\ CheckoutCandidates[i].label \subseteq touched[i].label
  <2>1. /\ touched \in Seq(Clickable) /\ Len(touched) <= Len(CheckoutCandidates)
        /\ \A i \in 1..Len(touched) : Hits(CheckoutCandidates[i], touched[i])
    BY <1>4 DEF MissionInv, ButtonsOfCandidates, ClicksInOrder
  <2>2. CheckoutCandidates \in Seq(Candidates)
    BY <1>1, CheckoutsAre
  <2>3. /\ DOMAIN touched = 1..Len(touched) /\ Len(touched) \in Nat
        /\ Len(CheckoutCandidates) \in Nat
        /\ \A i \in 1..Len(CheckoutCandidates) : CheckoutCandidates[i] \in Candidates
    BY <2>1, <2>2
  <2>4. \A i \in DOMAIN touched : SafeLabel(CheckoutCandidates[i].label)
    BY <2>1, <2>3 DEF Candidates
  <2> QED
    BY <2>1, <2>3, <2>4 DEF Hits
<1> QED
  BY <1>2, <1>3, <1>4 DEF MissionIsExact, TouchesOnlyCandidates

\* Whatever the page does, a deterministic mission that reports has found every
\* defect its listeners heard, saw or tried, no other, and each once; it has requested
\* no link twice, no more than the limit and none it should leave alone; and of the
\* clicks, one at most for each safe checkout candidate and in their order, each went
\* to an enabled button with the candidate's text in its own, which need not be safe.
THEOREM MissionsAreExact == MissionSpec => []MissionIsExact
<1>1. MissionInit => MissionInv
  BY MissionInvInit
<1>2. MissionInv /\ [MissionNext]_missionVars => MissionInv'
  BY MissionInvStays
<1>3. MissionInv => MissionIsExact
  BY MissionInvIsExact
<1> QED
  BY <1>1, <1>2, <1>3, PTL DEF MissionSpec

-----------------------------------------------------------------------------
(***************************************************************************)
(* The mission's types.                                                    *)
(***************************************************************************)
Counts(s) == \A i \in DOMAIN s : s[i].times > 0

\* A key that the listeners keep has been heard.
LEMMA EachKeyIsHeard ==
  ASSUME page \in Targets, NEW kind, NEW i \in DOMAIN Counted(kind)
  PROVE  Times(kind, Counted(kind)[i].key) > 0
<1> DEFINE S == Range(page.events)
    T == {e \in S : e.kind = kind}
    all == Events(kind)
    k == Counted(kind)[i].key
    U == {e \in Range(all) : e.key = k}
    heard == Only(all, LAMBDA e : e.key = k)
<1>1. all = Among(page.events, T) /\ heard = Among(all, U) /\ Times(kind, k) = Len(heard)
  BY Zenon DEF Events, Only, Times
<1>2. page.events \in Seq(S) /\ Range(page.events) = S
  BY PageIs
<1>3. PICK x \in T : x.key = k
  <2>1. Counted(kind)[i] \in Range(Counted(kind))
    BY DEF Range
  <2> QED
    BY <2>1, CountedKeys
<1>4. all \in Seq(S \cap T) /\ Range(all) = S \cap T
  <2> HIDE DEF S, T, all
  <2> QED
    BY <1>1, <1>2, AmongIs
<1>5. x \in U
  BY <1>3, <1>4
<1>6. heard \in Seq((S \cap T) \cap U) /\ Range(heard) = Range(all) \cap U
  <2> HIDE DEF S, T, all, U, heard
  <2> QED
    BY <1>1, <1>4, AmongIs
<1>7. x \in Range(heard)
  BY <1>5, <1>6
<1> HIDE DEF S, T, U, heard
<1>8. Range(heard) = {heard[j] : j \in 1..Len(heard)} /\ Len(heard) \in Nat
  BY <1>6, RangeIs
<1> QED
  BY <1>1, <1>7, <1>8

LEMMA CountsTogether ==
  ASSUME NEW s, NEW t, IsList(s), IsList(t), Counts(s), Counts(t)
  PROVE  Counts(s \o t)
<1> DEFINE S == Range(s) \cup Range(t)
    both == s \o t
<1>1. s \in Seq(S) /\ t \in Seq(S)
  BY DEF IsList
<1> HIDE DEF S, both
<1>2. /\ both \in Seq(S) /\ Len(both) = Len(s) + Len(t) /\ Len(s) \in Nat /\ Len(t) \in Nat
      /\ \A i \in 1..(Len(s) + Len(t)) :
           both[i] = IF i <= Len(s) THEN s[i] ELSE t[i - Len(s)]
  BY <1>1, ConcatProperties DEF both
<1>3. \A i \in 1..Len(both) :
        \/ i \in 1..Len(s) /\ both[i] = s[i]
        \/ i - Len(s) \in 1..Len(t) /\ both[i] = t[i - Len(s)]
  BY <1>2
<1>4. DOMAIN both = 1..Len(both) /\ DOMAIN s = 1..Len(s) /\ DOMAIN t = 1..Len(t)
  BY <1>1, <1>2
<1>5. Counts(both)
  BY <1>3, <1>4 DEF Counts
<1> QED
  BY <1>5 DEF both

\* Whatever a mission that looks once finds, it has found at least once.
LEMMA InspectedCounts ==
  ASSUME page \in Targets
  PROVE  Counts(ErrorFindings) /\ Counts(FormFindings) /\ Counts(MobileFindings)
         /\ Counts(AxeFindings)
<1> DEFINE a == NavigationFindings
    b == ConsoleFindings("console", "medium")
    c == ConsoleFindings("thrown", "high")
    d == FailedFindings
    e == HttpFindings
<1>1. ErrorFindings = (((a \o b) \o c) \o d) \o e
  BY Zenon DEF ErrorFindings, ConsoleFindings, FailedFindings, HttpFindings
<1>2. IsList(a) /\ IsList(b) /\ IsList(c) /\ IsList(d) /\ IsList(e)
  BY NavigationIsTold, ConsoleIsTold, FailuresAreTold, ResponsesAreTold
<1>3. Counts(a)
  BY DEF Counts, NavigationFindings, Finding
<1>4. Counts(b) /\ Counts(c)
  BY EachKeyIsHeard DEF Counts, ConsoleFindings, Mapped, Finding
<1>5. Counts(d)
  BY EachKeyIsHeard DEF Counts, FailedFindings, Mapped, Finding
<1>6. Counts(e)
  BY EachKeyIsHeard DEF Counts, HttpFindings, Mapped, Finding
<1>7. Counts(ErrorFindings)
  <2> HIDE DEF a, b, c, d, e
  <2>1. IsList(a \o b) /\ Counts(a \o b)
    BY <1>2, <1>3, <1>4, ListsTogether, CountsTogether
  <2>2. IsList((a \o b) \o c) /\ Counts((a \o b) \o c)
    BY <1>2, <1>4, <2>1, ListsTogether, CountsTogether
  <2>3. IsList(((a \o b) \o c) \o d) /\ Counts(((a \o b) \o c) \o d)
    BY <1>2, <1>5, <2>2, ListsTogether, CountsTogether
  <2> QED
    BY <1>1, <1>2, <1>6, <2>3, CountsTogether
<1>8. Counts(FormFindings) /\ Counts(MobileFindings)
  <2> DEFINE bare == Only(page.controls, LAMBDA x : ~x.named /\ ~x.hidden)
  <2>1. FormFindings = [i \in DOMAIN bare |->
                 Finding("accessibility", "medium",
                         Fingerprint("accessibility", 0, bare[i].selector, page.url,
                                     "missing-label"), 1, FALSE)]
    BY Zenon DEF FormFindings, Mapped
  <2> HIDE DEF bare
  <2>2. Counts(FormFindings)
    BY <2>1 DEF Counts, Finding
  <2>3. Counts(MobileFindings)
    BY DEF Counts, MobileFindings, Finding
  <2> QED
    BY <2>2, <2>3
<1>9. Counts(AxeFindings)
  <2> DEFINE some == FirstOf(page.violations, MaxViolations)
             Rules == [rule : STRING, impact : STRING, help : STRING, nodes : Nat \ {0}]
  <2>1. page.violations \in Seq(Rules)
    BY TargetsAssumption DEF MissionPages
  <2>2. \A v \in Rules : v.nodes > 0
    OBVIOUS
  <2>3. some \in Seq(Rules)
    <3> HIDE DEF Rules
    <3> QED
      BY <2>1, FirstOfStays DEF MaxViolations
  <2> HIDE DEF some, Rules
  <2>4. \A i \in DOMAIN some : some[i].nodes > 0
    BY <2>2, <2>3
  <2>5. AxeFindings = [i \in DOMAIN some |->
                 Finding("accessibility", AxeSeverity(some[i].impact),
                         Fingerprint("accessibility", 0, some[i].rule, page.url, some[i].help),
                         some[i].nodes, FALSE)]
    BY Zenon DEF AxeFindings, Mapped, some
  <2> QED
    BY <2>4, <2>5 DEF Counts, Finding
<1> QED
  BY <1>7, <1>8, <1>9

\* One more finding, counted once.
LEMMA OneMoreCounts ==
  ASSUME IsList(results), Counts(results), NEW f, f.times > 0,
         results' = Append(results, f)
  PROVE  Counts(results')
<1>1. results \in Seq(Range(results) \cup {f})
  BY DEF IsList
<1>2. \A i \in DOMAIN results' : results'[i] = f \/ (i \in DOMAIN results /\ results'[i] = results[i])
  BY <1>1
<1> QED
  BY <1>2 DEF Counts

LEMMA MissionTypesStay ==
  ASSUME MissionInv, MissionTypes, [MissionNext]_missionVars
  PROVE  MissionTypes'
<1>0. page \in Targets /\ IsList(results) /\ Counts(results)
  BY DEF MissionInv, MissionBasics, MissionTypes, Counts
<1>1. ASSUME UNCHANGED <<role, results>>, cancelAsked' \in {cancelAsked, TRUE},
             stage' \in {stage, "opening", "open", "trying", "checked", "failed"}
               \/ (stage' = "cancelled" /\ cancelAsked /\ cancelAsked' = cancelAsked)
      PROVE  MissionTypes'
  <2>1. role' \in Roles /\ cancelAsked' \in BOOLEAN
        /\ \A i \in DOMAIN results' : results'[i].times > 0
    BY <1>1, Zenon DEF MissionTypes
  <2>2. stage' \in {"start", "opening", "open", "trying", "checked", "reported", "failed",
                   "cancelled"}
    BY <1>1 DEF MissionTypes
  <2>3. stage' = "cancelled" => cancelAsked'
    <3>1. stage' = stage \/ stage' # "cancelled" \/ (cancelAsked /\ cancelAsked' = cancelAsked)
      BY <1>1
    <3>2. cancelAsked => cancelAsked'
      BY <1>1, Zenon
    <3> QED
      BY <3>1, <3>2, Zenon DEF MissionTypes
  <2> QED
    BY <2>1, <2>2, <2>3 DEF MissionTypes
<1>2. ASSUME role' = role, cancelAsked' = cancelAsked, Counts(results'),
             stage' \in {"trying", "checked", "reported", "failed"}
      PROVE  MissionTypes'
  BY <1>2 DEF MissionTypes, Counts
<1>3. CASE UserCancels \/ Begin \/ Navigate \/ NavigationFails \/ TriedAll \/ MissionFails
           \/ ListButtons \/ UNCHANGED missionVars
  BY <1>1, <1>3 DEF UserCancels, Begin, Navigate, NavigationFails, TriedAll, MissionFails,
     ListButtons, Ends, missionVars, MissionTypes
<1>4. CASE ListLinks
  BY <1>1, <1>4 DEF ListLinks, Ends
<1>5. CASE Inspect
  <2>1. Counts(results')
    BY <1>0, <1>5, InspectedCounts DEF Inspect, MissionTypes, Roles
  <2> QED
    BY <1>2, <1>5, <2>1 DEF Inspect
<1>6. CASE RequestLink
  <2>1. stage' \in {"trying", "failed"} /\ role' = role /\ cancelAsked' = cancelAsked
    BY <1>6 DEF RequestLink
  <2>2. Counts(results')
    <3>1. results' = results \/ results' = Append(results, LinkFinding(Head(checks)))
      BY <1>6 DEF RequestLink
    <3>2. LinkFinding(Head(checks)).times > 0
      BY DEF LinkFinding, Finding
    <3> HIDE DEF Counts
    <3> QED
      BY <1>0, <3>1, <3>2, OneMoreCounts
  <2> QED
    BY <1>2, <2>1, <2>2
<1>7. CASE ClickCheckout
  <2>1. stage' \in {"trying", "failed"} /\ role' = role /\ cancelAsked' = cancelAsked
    BY <1>7 DEF ClickCheckout
  <2>2. Counts(results')
    <3>1. results' = results \/ results' = Append(results, StalledFinding)
      BY <1>7 DEF ClickCheckout
    <3>2. StalledFinding.times > 0
      BY DEF StalledFinding, Finding
    <3> QED
      BY <1>0, <3>1, <3>2, OneMoreCounts
  <2> QED
    BY <1>2, <2>1, <2>2
<1>8. CASE ReportFindings
  <2>1. CASE cancelAsked
    BY <1>1, <1>8, <2>1 DEF ReportFindings
  <2>2. CASE ~cancelAsked
    <3> DEFINE S == Range(results)
        print == [f \in S |-> f.print]
    <3>1. results' = FirstByKey(results, print) /\ stage' = "reported"
      BY <1>8, <2>2 DEF ReportFindings, DistinctBy
    <3>2. results \in Seq(S)
      BY <1>0 DEF IsList
    <3>3. results' \in Seq(S)
      <4> HIDE DEF S, print
      <4> QED
        BY <3>1, <3>2, FirstByKeyIs
    <3>4. \A f \in S : f.times > 0
      BY <1>0 DEF Counts, Range
    <3>5. Counts(results')
      <4> HIDE DEF S
      <4> QED
        BY <3>3, <3>4 DEF Counts
    <3> QED
      BY <1>2, <1>8, <3>1, <3>5 DEF ReportFindings
  <2> QED
    BY <2>1, <2>2 DEF MissionTypes
<1> QED
  BY <1>3, <1>4, <1>5, <1>6, <1>7, <1>8 DEF MissionNext

\* Every finding of a mission was found at least once, and a mission is over as
\* cancelled only if the user asked for it.
THEOREM MissionsAreTyped == MissionSpec => []MissionTypes
<1>1. MissionInit => MissionInv /\ MissionTypes
  <2>1. MissionInit => MissionTypes
    <3> SUFFICES ASSUME MissionInit PROVE MissionTypes
      OBVIOUS
    <3>1. role \in Roles /\ cancelAsked \in BOOLEAN
      BY Zenon DEF MissionInit
    <3>2. stage = "start" /\ results = <<>>
      BY DEF MissionInit
    <3>3. \A i \in DOMAIN results : results[i].times > 0
      BY <3>2
    <3> QED
      BY <3>1, <3>2, <3>3, Zenon DEF MissionTypes
  <2> QED
    BY <2>1, MissionInvInit
<1>2. MissionInv /\ MissionTypes /\ [MissionNext]_missionVars => MissionInv' /\ MissionTypes'
  BY MissionInvStays, MissionTypesStay
<1> QED
  BY <1>1, <1>2, PTL DEF MissionSpec
=============================================================================
