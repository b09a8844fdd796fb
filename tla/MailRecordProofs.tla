--------------------------- MODULE MailRecordProofs ---------------------------
(***************************************************************************)
(* Proofs about the mail records of a domain.  SPFWalk: what a merge into   *)
(* an SPF record and the two walks through the records it leads to give,    *)
(* for every finite set of domains, every content of DNS and every limit    *)
(* within the depth cap.  PushService: what pushes of records promise, for  *)
(* every number of pushes, texts, includes and combination of faults, and   *)
(* for all five providers.  The last theorem relates the two: to a push, a  *)
(* merge is what it makes of the includes.                                  *)
(***************************************************************************)
EXTENDS PushService, SPFWalk, SequenceTheorems, FiniteSetTheorems, WellFoundedInduction, TLAPS


\* Every set of naturals that has an element has a least one.
LEMMA LeastElement ==
    ASSUME NEW T, T \subseteq Nat, T # {}
    PROVE  \E x \in T : \A y \in T : x <= y
<1> DEFINE R == OpToRel(<, Nat)
<1>1. IsWellFoundedOn(R, Nat)
  BY NatLessThanWellFounded
<1> HIDE DEF R
<1>2. PICK x \in T : \A y \in T : ~(<<y, x>> \in R)
  BY <1>1, WFMin
<1>3. \A y \in T : y < x => <<y, x>> \in R
  BY DEF R, OpToRel
<1>4. \A y \in T : ~(y < x)
  BY <1>2, <1>3
<1> QED
  BY <1>4

-----------------------------------------------------------------------------
(* Sequences.                                                               *)

\* What holds of 0 and is passed on up to m holds up to m.
LEMMA UpTo ==
    ASSUME NEW m \in Nat, NEW T, 0 \in T, \A k \in 1..m : k - 1 \in T => k \in T
    PROVE  \A k \in 0..m : k \in T
<1> DEFINE Bad == {k \in 0..m : k \notin T}
<1> SUFFICES ASSUME Bad # {} PROVE FALSE
  OBVIOUS
<1>1. Bad \subseteq Nat
  OBVIOUS
<1>2. PICK k \in Bad : \A j \in Bad : k <= j
  BY <1>1, LeastElement, Zenon
<1>3. k \in 1..m
  BY <1>2
<1>4. k - 1 \notin Bad /\ k - 1 \in 0..m
  BY <1>2, <1>3
<1> QED BY <1>2, <1>3, <1>4

\* A sequence of values that goes from each to the next by a function of it and
\* of its place.
Iteration(f, m, S, init, step) ==
    f \in [0..m -> S] /\ f[0] = init /\ \A k \in 1..m : f[k] = step[k][f[k-1]]

LEMMA Iterates ==
    ASSUME NEW m \in Nat, NEW S, NEW init \in S, NEW step \in [1..m -> [S -> S]]
    PROVE  \E f : Iteration(f, m, S, init, step)
<1> DEFINE Solves(f, n) == Iteration(f, n, S, init, step)
           T == {n \in 0..m : \E f : Solves(f, n)}
<1>1. 0 \in T
  <2> DEFINE g == [k \in 0..0 |-> init]
  <2>1. g \in [0..0 -> S] /\ g[0] = init /\ 1..0 = {}
    OBVIOUS
  <2>2. Solves(g, 0)
    BY <2>1 DEF Iteration
  <2> HIDE DEF Solves
  <2> QED BY <2>2
<1>2. ASSUME NEW n \in 1..m, n - 1 \in T PROVE n \in T
  <2>0. PICK f : Solves(f, n - 1)
    BY <1>2
  <2>1. /\ f \in [0..(n-1) -> S] /\ f[0] = init
        /\ \A k \in 1..(n-1) : f[k] = step[k][f[k-1]]
    BY <2>0 DEF Iteration
  <2> DEFINE g == [k \in 0..n |-> IF k < n THEN f[k] ELSE step[n][f[n-1]]]
  <2>2. n - 1 \in 0..(n-1) /\ f[n-1] \in S /\ step[n] \in [S -> S]
    BY <2>1
  <2>3. \A k \in 0..(n-1) : g[k] = f[k] /\ f[k] \in S
    BY <2>1
  <2>4. g[n] = step[n][f[n-1]] /\ step[n][f[n-1]] \in S
    BY <2>2
  <2>5. \A k \in 0..n : k \in 0..(n-1) \/ k = n
    OBVIOUS
  <2>6. g \in [0..n -> S]
    <3>1. \A k \in 0..n : (IF k < n THEN f[k] ELSE step[n][f[n-1]]) \in S
      BY <2>3, <2>4, <2>5
    <3> QED BY <3>1
  <2> HIDE DEF g
  <2>7. ASSUME NEW k \in 1..n PROVE g[k] = step[k][g[k-1]]
    <3>1. k - 1 \in 0..(n-1) /\ g[k-1] = f[k-1]
      BY <2>3
    <3>2. CASE k = n
      BY <2>4, <3>1, <3>2
    <3>3. CASE k # n
      <4>1. k \in 0..(n-1) /\ k \in 1..(n-1)
        BY <3>3
      <4> QED BY <2>1, <2>3, <3>1, <4>1
    <3> QED BY <3>2, <3>3
  <2>8. Solves(g, n)
    BY <2>1, <2>3, <2>6, <2>7 DEF Iteration
  <2> QED BY <2>8
<1> HIDE DEF T
<1>3. \A k \in 1..m : k - 1 \in T => k \in T
  BY <1>2
<1>4. \A k \in 0..m : k \in T
  BY <1>1, <1>3, UpTo
<1>5. m \in T
  BY <1>4
<1> QED BY <1>5 DEF T

\* The range of a sequence, by its places.
LEMMA RangeIs ==
    ASSUME NEW V, NEW s \in Seq(V)
    PROVE  /\ Range(s) \subseteq V
           /\ \A k \in 1..Len(s) : s[k] \in Range(s)
           /\ \A v \in Range(s) : \E k \in 1..Len(s) : v = s[k]
<1>1. DOMAIN s = 1..Len(s) /\ \A k \in 1..Len(s) : s[k] \in V
  OBVIOUS
<1> QED BY <1>1 DEF Range

LEMMA RangeAppend ==
    ASSUME NEW V, NEW s \in Seq(V), NEW v \in V
    PROVE  Range(Append(s, v)) = Range(s) \cup {v}
<1>1. /\ Append(s, v) \in Seq(V) /\ Len(Append(s, v)) = Len(s) + 1 /\ Len(s) \in Nat
      /\ Append(s, v)[Len(s) + 1] = v
      /\ \A k \in 1..Len(s) : Append(s, v)[k] = s[k]
  BY AppendProperties
<1>2. \A k \in 1..(Len(s) + 1) : k \in 1..Len(s) \/ k = Len(s) + 1
  BY <1>1
<1>3. \A x \in Range(Append(s, v)) : x \in Range(s) \cup {v}
  <2>1. TAKE x \in Range(Append(s, v))
  <2>2. PICK k \in 1..(Len(s) + 1) : x = Append(s, v)[k]
    BY <1>1, RangeIs
  <2> QED BY <1>1, <1>2, <2>2, RangeIs
<1>4. \A x \in Range(s) : x \in Range(Append(s, v))
  <2>1. TAKE x \in Range(s)
  <2>2. PICK k \in 1..Len(s) : x = s[k]
    BY RangeIs
  <2>3. k \in 1..Len(Append(s, v)) /\ x = Append(s, v)[k]
    BY <1>1, <2>2
  <2> QED BY <1>1, <2>3, RangeIs
<1>5. v \in Range(Append(s, v))
  <2>1. Len(s) + 1 \in 1..Len(Append(s, v))
    BY <1>1
  <2>2. Append(s, v)[Len(s) + 1] \in Range(Append(s, v))
    BY <1>1, <2>1, RangeIs, Zenon
  <2> QED BY <1>1, <2>2
<1> QED BY <1>3, <1>4, <1>5

\* Joined gives a record.
LEMMA JoinedType ==
    ASSUME NEW recs \in Seq(Records)
    PROVE  Joined(recs) \in Records
<1> DEFINE Entry(x, k) == x \o recs[k]
           Solves(g) == g = [k \in 0..Len(recs) |-> IF k = 0 THEN <<>> ELSE Entry(g[k-1], k)]
           out == CHOOSE g : Solves(g)
           step == [k \in 1..Len(recs) |-> [x \in Records |-> Entry(x, k)]]
<1>0. Len(recs) \in Nat /\ (\A k \in 1..Len(recs) : recs[k] \in Records) /\ <<>> \in Records
  BY DEF Records
<1>1. ASSUME NEW k \in 1..Len(recs), NEW x \in Records PROVE Entry(x, k) \in Records
  BY <1>0, ConcatProperties DEF Records
<1> HIDE DEF Entry
<1>2. \E g : Solves(g)
  <2>1. step \in [1..Len(recs) -> [Records -> Records]]
    BY <1>1
  <2> HIDE DEF step, Solves
  <2>3. PICK f : Iteration(f, Len(recs), Records, <<>>, step)
    BY <1>0, <2>1, Iterates
  <2>4. ASSUME NEW k \in 0..Len(recs)
        PROVE  f[k] = IF k = 0 THEN <<>> ELSE Entry(f[k-1], k)
    <3>1. CASE k = 0
      BY <2>3, <3>1 DEF Iteration
    <3>2. CASE k # 0
      <4>1. k \in 1..Len(recs) /\ k - 1 \in 0..Len(recs)
        BY <1>0, <3>2
      <4>2. f[k] = step[k][f[k-1]] /\ f[k-1] \in Records
        BY <2>3, <4>1 DEF Iteration
      <4>3. step[k][f[k-1]] = Entry(f[k-1], k)
        BY <4>1, <4>2 DEF step
      <4> QED BY <3>2, <4>2, <4>3
    <3> QED BY <3>1, <3>2
  <2>5. f = [k \in 0..Len(recs) |-> f[k]]
    BY <2>3 DEF Iteration
  <2>6. [k \in 0..Len(recs) |-> f[k]] = [k \in 0..Len(recs) |-> IF k = 0 THEN <<>> ELSE Entry(f[k-1], k)]
    BY <2>4
  <2>7. Solves(f)
    BY <2>5, <2>6, Zenon DEF Solves
  <2> QED BY <2>7
<1>3. Solves(out)
  BY <1>2, Zenon
<1>4. Joined(recs) = out[Len(recs)]
  BY Zenon DEF Joined, Entry
<1> HIDE DEF out
<1>5. out[0] = <<>> /\ \A k \in 1..Len(recs) : out[k] = Entry(out[k-1], k)
  BY <1>0, <1>3
<1> DEFINE T == {k \in 0..Len(recs) : out[k] \in Records}
<1> HIDE DEF Solves
<1>6. 0 \in T /\ \A k \in 1..Len(recs) : k - 1 \in T => k \in T
  BY <1>0, <1>1, <1>5
<1> HIDE DEF T
<1>7. \A k \in 0..Len(recs) : k \in T
  BY <1>0, <1>6, UpTo
<1>8. Len(recs) \in T
  BY <1>0, <1>7
<1> QED BY <1>4, <1>8 DEF T

\* Kept takes the elements one by one.
Keeps(f, s, S, V) ==
    /\ f \in [0..Len(s) -> Seq(V)]
    /\ f[0] = <<>>
    /\ \A k \in 1..Len(s) : f[k] = IF s[k] \in S THEN Append(f[k-1], s[k]) ELSE f[k-1]

LEMMA KeptSteps ==
    ASSUME NEW V, NEW s \in Seq(V), NEW S
    PROVE  \E f : Keeps(f, s, S, V) /\ Kept(s, S) = f[Len(s)]
<1> DEFINE Entry(x, k) == IF s[k] \in S THEN Append(x, s[k]) ELSE x
           Solves(g) == g = [k \in 0..Len(s) |-> IF k = 0 THEN <<>> ELSE Entry(g[k-1], k)]
           out == CHOOSE g : Solves(g)
           step == [k \in 1..Len(s) |-> [x \in Seq(V) |-> Entry(x, k)]]
<1>0. Len(s) \in Nat /\ (\A k \in 1..Len(s) : s[k] \in V) /\ <<>> \in Seq(V)
  OBVIOUS
<1>1. ASSUME NEW k \in 1..Len(s), NEW x \in Seq(V) PROVE Entry(x, k) \in Seq(V)
  BY <1>0
<1> HIDE DEF Entry
<1>2. \E g : Solves(g)
  <2>1. step \in [1..Len(s) -> [Seq(V) -> Seq(V)]]
    BY <1>1
  <2> HIDE DEF step, Solves
  <2>3. PICK f : Iteration(f, Len(s), Seq(V), <<>>, step)
    BY <1>0, <2>1, Iterates
  <2>4. ASSUME NEW k \in 0..Len(s)
        PROVE  f[k] = IF k = 0 THEN <<>> ELSE Entry(f[k-1], k)
    <3>1. CASE k = 0
      BY <2>3, <3>1 DEF Iteration
    <3>2. CASE k # 0
      <4>1. k \in 1..Len(s) /\ k - 1 \in 0..Len(s)
        BY <1>0, <3>2
      <4>2. f[k] = step[k][f[k-1]] /\ f[k-1] \in Seq(V)
        BY <2>3, <4>1 DEF Iteration
      <4>3. step[k][f[k-1]] = Entry(f[k-1], k)
        BY <4>1, <4>2 DEF step
      <4> QED BY <3>2, <4>2, <4>3
    <3> QED BY <3>1, <3>2
  <2>5. f = [k \in 0..Len(s) |-> f[k]]
    BY <2>3 DEF Iteration
  <2>6. [k \in 0..Len(s) |-> f[k]] = [k \in 0..Len(s) |-> IF k = 0 THEN <<>> ELSE Entry(f[k-1], k)]
    BY <2>4
  <2>7. Solves(f)
    BY <2>5, <2>6, Zenon DEF Solves
  <2> QED BY <2>7
<1>3. Solves(out)
  BY <1>2, Zenon
<1>4. Kept(s, S) = out[Len(s)]
  BY Zenon DEF Kept, Entry
<1> HIDE DEF out
<1>5. /\ out[0] = <<>> /\ \A k \in 1..Len(s) : out[k] = Entry(out[k-1], k)
      /\ out = [k \in 0..Len(s) |-> out[k]]
  BY <1>0, <1>3
<1> DEFINE T == {k \in 0..Len(s) : out[k] \in Seq(V)}
<1> HIDE DEF Solves
<1>6. 0 \in T /\ \A k \in 1..Len(s) : k - 1 \in T => k \in T
  BY <1>0, <1>1, <1>5
<1> HIDE DEF T
<1>7. \A k \in 0..Len(s) : k \in T
  BY <1>0, <1>6, UpTo
<1>8. out \in [0..Len(s) -> Seq(V)]
  BY <1>5, <1>7 DEF T
<1>9. Keeps(out, s, S, V)
  BY <1>5, <1>8 DEF Keeps, Entry
<1> QED BY <1>4, <1>9

LEMMA KeptRange ==
    ASSUME NEW V, NEW s \in Seq(V), NEW S
    PROVE  Kept(s, S) \in Seq(V) /\ Range(Kept(s, S)) = Range(s) \cap S
<1>1. PICK f : Keeps(f, s, S, V) /\ Kept(s, S) = f[Len(s)]
  BY KeptSteps
<1>2. /\ f \in [0..Len(s) -> Seq(V)] /\ f[0] = <<>>
      /\ \A k \in 1..Len(s) : f[k] = IF s[k] \in S THEN Append(f[k-1], s[k]) ELSE f[k-1]
  BY <1>1 DEF Keeps
<1>3. Len(s) \in Nat /\ \A k \in 1..Len(s) : s[k] \in V
  OBVIOUS
<1> DEFINE T == {k \in 0..Len(s) : Range(f[k]) = {s[j] : j \in 1..k} \cap S}
<1>4. 0 \in T
  BY <1>2, <1>3 DEF Range
<1>5. ASSUME NEW k \in 1..Len(s), k - 1 \in T PROVE k \in T
  <2>1. {s[j] : j \in 1..k} = {s[j] : j \in 1..(k-1)} \cup {s[k]}
    <3>1. \A j : j \in 1..k <=> j \in 1..(k-1) \/ j = k
      BY <1>3
    <3> QED BY <3>1
  <2>2. f[k-1] \in Seq(V) /\ s[k] \in V
    BY <1>2, <1>3
  <2>3. Range(Append(f[k-1], s[k])) = Range(f[k-1]) \cup {s[k]}
    BY <2>2, RangeAppend
  <2>4. Range(f[k-1]) = {s[j] : j \in 1..(k-1)} \cap S
    BY <1>5
  <2>5. f[k] = IF s[k] \in S THEN Append(f[k-1], s[k]) ELSE f[k-1]
    BY <1>2
  <2>6. Range(f[k]) = {s[j] : j \in 1..k} \cap S
    BY <2>1, <2>3, <2>4, <2>5
  <2> QED BY <1>3, <2>6
<1>6. \A k \in 1..Len(s) : k - 1 \in T => k \in T
  BY <1>5
<1> HIDE DEF T
<1>7. \A k \in 0..Len(s) : k \in T
  BY <1>3, <1>4, <1>6, UpTo
<1>8. Len(s) \in T
  BY <1>3, <1>7
<1>9. Range(s) = {s[j] : j \in 1..Len(s)}
  BY RangeEquality
<1> QED BY <1>1, <1>2, <1>3, <1>8, <1>9 DEF T

LEMMA KeptAll ==
    ASSUME NEW V, NEW s \in Seq(V), NEW S, Range(s) \subseteq S
    PROVE  Kept(s, S) = s
<1>1. PICK f : Keeps(f, s, S, V) /\ Kept(s, S) = f[Len(s)]
  BY KeptSteps
<1>3. Len(s) \in Nat /\ \A k \in 1..Len(s) : s[k] \in V /\ s[k] \in S
  BY RangeEquality
<1>2. /\ f \in [0..Len(s) -> Seq(V)] /\ f[0] = <<>>
      /\ \A k \in 1..Len(s) : f[k] = Append(f[k-1], s[k])
  BY <1>1, <1>3 DEF Keeps
<1> DEFINE T == {k \in 0..Len(s) : Len(f[k]) = k /\ \A j \in 1..k : f[k][j] = s[j]}
<1>4. 0 \in T
  BY <1>2, <1>3
<1>5. ASSUME NEW k \in 1..Len(s), k - 1 \in T PROVE k \in T
  <2>0. k - 1 \in 0..Len(s)
    BY <1>3
  <2>1. f[k-1] \in Seq(V) /\ s[k] \in V /\ f[k] = Append(f[k-1], s[k])
    BY <1>2, <1>3, <2>0
  <2>2. Len(f[k-1]) = k - 1 /\ \A j \in 1..(k-1) : f[k-1][j] = s[j]
    BY <1>5
  <2> HIDE DEF T
  <2>3. Len(f[k]) = k /\ \A j \in 1..k : f[k][j] = s[j]
    BY <2>1, <2>2, AppendProperties
  <2> QED BY <1>3, <2>3 DEF T
<1>6. \A k \in 1..Len(s) : k - 1 \in T => k \in T
  BY <1>5
<1> HIDE DEF T
<1>7. \A k \in 0..Len(s) : k \in T
  BY <1>3, <1>4, <1>6, UpTo
<1>8. Len(s) \in T /\ f[Len(s)] \in Seq(V)
  BY <1>2, <1>3, <1>7
<1> QED BY <1>1, <1>8, SeqEqual DEF T

LEMMA KeptNone ==
    ASSUME NEW V, NEW s \in Seq(V), NEW S, Range(s) \cap S = {}
    PROVE  Kept(s, S) = <<>>
<1>1. Kept(s, S) \in Seq(V) /\ Range(Kept(s, S)) = {}
  BY KeptRange
<1>2. ASSUME Kept(s, S) # <<>> PROVE FALSE
  <2>1. 1 \in 1..Len(Kept(s, S))
    BY <1>1, <1>2, EmptySeq
  <2>2. Kept(s, S)[1] \in Range(Kept(s, S))
    BY <1>1, <2>1, RangeIs
  <2> QED BY <1>1, <2>2
<1> QED BY <1>2

\* Appending to a concatenation appends to its second part.
AppendsBehind(p, q, x) == Append(p \o q, x) = p \o Append(q, x)

LEMMA AppendToConcat ==
    ASSUME NEW V, NEW p \in Seq(V), NEW q \in Seq(V), NEW x \in V
    PROVE  AppendsBehind(p, q, x)
<1>1. PICK w : w = <<x>>
  OBVIOUS
<1>2. w \in Seq(V)
  BY <1>1
<1>3. p \o q \in Seq(V)
  BY ConcatProperties
<1>4. Append(p \o q, x) = (p \o q) \o w /\ Append(q, x) = q \o w
  BY <1>1, <1>3, AppendIsConcat
<1>5. (p \o q) \o w = p \o (q \o w)
  BY <1>2, ConcatAssociative
<1> QED BY <1>4, <1>5 DEF AppendsBehind

LEMMA KeptConcat ==
    ASSUME NEW V, NEW s \in Seq(V), NEW t \in Seq(V), NEW S
    PROVE  Kept(s \o t, S) = Kept(s, S) \o Kept(t, S)
<1> DEFINE u == s \o t
<1>0. /\ u \in Seq(V) /\ Len(u) = Len(s) + Len(t) /\ Len(s) \in Nat /\ Len(t) \in Nat
      /\ \A k \in 1..Len(s) : u[k] = s[k] /\ s[k] \in V
      /\ \A k \in 1..Len(t) : u[Len(s) + k] = t[k] /\ t[k] \in V
  BY ConcatProperties
<1> HIDE DEF u
<1>1. PICK f : Keeps(f, u, S, V) /\ Kept(u, S) = f[Len(u)]
  BY <1>0, KeptSteps
<1>2. PICK g : Keeps(g, s, S, V) /\ Kept(s, S) = g[Len(s)]
  BY KeptSteps
<1>3. PICK h : Keeps(h, t, S, V) /\ Kept(t, S) = h[Len(t)]
  BY KeptSteps
<1>4. \A k \in 0..Len(s) : k \in {j \in 0..Len(s) : f[j] = g[j]}
  <2> DEFINE T == {j \in 0..Len(s) : f[j] = g[j]}
  <2>1. 0 \in T
    BY <1>0, <1>1, <1>2 DEF Keeps
  <2>2. ASSUME NEW k \in 1..Len(s), k - 1 \in T PROVE k \in T
    <3>1. k \in 1..Len(u) /\ k \in 0..Len(s) /\ u[k] = s[k]
      BY <1>0
    <3>2. f[k] = IF s[k] \in S THEN Append(f[k-1], s[k]) ELSE f[k-1]
      BY <1>1, <3>1 DEF Keeps
    <3>3. g[k] = IF s[k] \in S THEN Append(g[k-1], s[k]) ELSE g[k-1]
      BY <1>2 DEF Keeps
    <3>4. f[k-1] = g[k-1]
      BY <2>2
    <3> QED BY <3>1, <3>2, <3>3, <3>4
  <2> HIDE DEF T
  <2>3. \A k \in 0..Len(s) : k \in T
    BY <1>0, <2>1, <2>2, UpTo
  <2> QED BY <2>3 DEF T
<1>5. f[Len(s)] = g[Len(s)] /\ g[Len(s)] \in Seq(V)
  BY <1>0, <1>2, <1>4 DEF Keeps
<1> DEFINE T == {k \in 0..Len(t) : f[Len(s) + k] = g[Len(s)] \o h[k]}
<1>6. 0 \in T
  <2>1. g[Len(s)] \o <<>> = g[Len(s)] /\ h[0] = <<>>
    BY <1>3, <1>5, ConcatEmptySeq DEF Keeps
  <2>2. Len(s) + 0 = Len(s) /\ 0 \in 0..Len(t)
    BY <1>0
  <2>3. f[Len(s) + 0] = g[Len(s)] \o h[0]
    BY <1>5, <2>1, <2>2
  <2> QED BY <2>2, <2>3
<1>7. ASSUME NEW k \in 1..Len(t), k - 1 \in T PROVE k \in T
  <2>0. k - 1 \in 0..Len(t)
    BY <1>0
  <2>1. /\ h[k-1] \in Seq(V) /\ t[k] \in V /\ u[Len(s) + k] = t[k]
        /\ h[k] = IF t[k] \in S THEN Append(h[k-1], t[k]) ELSE h[k-1]
    BY <1>0, <1>3, <2>0 DEF Keeps
  <2>2. PICK c : c = g[Len(s)] \o h[k-1] /\ f[Len(s) + (k - 1)] = c
    BY <1>7
  <2>3. Len(s) + k \in 1..Len(u) /\ (Len(s) + k) - 1 = Len(s) + (k - 1)
    BY <1>0
  <2>4. f[Len(s) + k] = IF t[k] \in S THEN Append(c, t[k]) ELSE c
    BY <1>1, <2>1, <2>2, <2>3 DEF Keeps
  <2>5. f[Len(s) + k] = g[Len(s)] \o h[k]
    <3>1. CASE t[k] \in S
      <4>1. PICK p, q, z, x : p = g[Len(s)] /\ q = h[k-1] /\ z = h[k] /\ x = t[k]
        OBVIOUS
      <4>2. p \in Seq(V) /\ q \in Seq(V) /\ c = p \o q /\ z = Append(q, x) /\ x \in V
        BY <1>5, <2>1, <2>2, <3>1, <4>1
      <4>3. Append(c, x) = p \o z
        <5>1. AppendsBehind(p, q, x)
          BY <4>2, AppendToConcat
        <5> QED BY <4>2, <5>1 DEF AppendsBehind
      <4> QED BY <2>4, <3>1, <4>1, <4>3
    <3>2. CASE t[k] \notin S
      BY <2>1, <2>2, <2>4, <3>2
    <3> QED BY <3>1, <3>2
  <2>6. k \in 0..Len(t)
    BY <1>0
  <2> QED BY <2>5, <2>6
<1>8. \A k \in 1..Len(t) : k - 1 \in T => k \in T
  BY <1>7
<1> HIDE DEF T
<1>9. \A k \in 0..Len(t) : k \in T
  BY <1>0, <1>6, <1>8, UpTo
<1>10. Len(t) \in T
  BY <1>0, <1>9
<1>11. f[Len(u)] = g[Len(s)] \o h[Len(t)]
  BY <1>0, <1>10 DEF T
<1> QED BY <1>1, <1>2, <1>3, <1>11 DEF u

-----------------------------------------------------------------------------
(* Merging.                                                                 *)

Qualified == {"-all", "~all", "?all", "+all"}

LEMMA TermIs ==
    /\ \A t \in Terms : /\ t.kind \in Kinds \cup {"+include"} /\ t.dom \in Domains \cup {None}
                        /\ Lookup(t) => t.dom \in Domains
                        /\ t.kind = "include" => t = Include(t.dom)
    /\ \A d \in Domains : /\ Include(d) \in Terms /\ Include(d).kind = "include"
                          /\ Include(d).dom = d
    /\ \A k \in Kinds : Term(k) \in Terms /\ Term(k).kind = k /\ Term(k).dom = None
    /\ Qualified \subseteq All /\ All \subseteq Kinds /\ "include" \in Kinds
    /\ "redirect" \notin All /\ "include" \notin All
<1>1. ASSUME NEW t \in Terms
      PROVE  /\ t.kind \in Kinds \cup {"+include"} /\ t.dom \in Domains \cup {None}
             /\ Lookup(t) => t.dom \in Domains
             /\ t.kind = "include" => t = Include(t.dom)
  <2>1. CASE t \in [kind : Kinds, dom : Domains \cup {None}]
    BY <2>1 DEF Lookup, Include
  <2>2. CASE t \in [kind : {"+include"}, dom : Domains]
    BY <2>2 DEF Lookup, Include, Follow
  <2> QED BY <2>1, <2>2 DEF Terms
<1>2. "include" \in Kinds
  BY DEF Kinds
<1>3. ASSUME NEW d \in Domains
      PROVE  /\ Include(d) \in Terms /\ Include(d).kind = "include"
             /\ Include(d).dom = d
  BY <1>2 DEF Terms, Include
<1>4. ASSUME NEW k \in Kinds PROVE Term(k) \in Terms /\ Term(k).kind = k /\ Term(k).dom = None
  BY DEF Terms, Term
<1>5. /\ Qualified \subseteq All /\ All \subseteq Kinds
      /\ "redirect" \notin All /\ "include" \notin All
  BY DEF Qualified, All, Kinds
<1> QED BY <1>1, <1>2, <1>3, <1>4, <1>5

LEMMA IncludeTermsOK ==
    ASSUME NEW incs \in Seq(Domains)
    PROVE  /\ IncludeTerms(incs) \in Records
           /\ Len(IncludeTerms(incs)) = Len(incs) /\ Len(incs) \in Nat
           /\ \A k \in 1..Len(incs) : IncludeTerms(incs)[k] = Include(incs[k])
           /\ \A inc \in Range(incs) : Include(inc) \in Range(IncludeTerms(incs))
<1>1. Len(incs) \in Nat /\ \A k \in 1..Len(incs) : Include(incs[k]) \in Terms
  <2>1. Len(incs) \in Nat /\ \A k \in 1..Len(incs) : incs[k] \in Domains
    OBVIOUS
  <2> QED BY <2>1, TermIs
<1>2. /\ IncludeTerms(incs) \in Seq(Terms)
      /\ Len(IncludeTerms(incs)) = Len(incs)
      /\ \A k \in 1..Len(incs) : IncludeTerms(incs)[k] = Include(incs[k])
  <2> DEFINE e(k) == Include(incs[k])
  <2>1. \A k \in 1..Len(incs) : e(k) \in Terms
    BY <1>1
  <2> HIDE DEF e
  <2>2. /\ [k \in 1..Len(incs) |-> e(k)] \in Seq(Terms)
        /\ Len([k \in 1..Len(incs) |-> e(k)]) = Len(incs)
        /\ \A k \in 1..Len(incs) : [j \in 1..Len(incs) |-> e(j)][k] = e(k)
    BY <1>1, <2>1
  <2> QED BY <2>2 DEF IncludeTerms, e
<1>3. ASSUME NEW inc \in Range(incs) PROVE Include(inc) \in Range(IncludeTerms(incs))
  <2>1. PICK k \in 1..Len(incs) : inc = incs[k]
    BY RangeIs
  <2>2. k \in 1..Len(IncludeTerms(incs)) /\ IncludeTerms(incs)[k] = Include(inc)
    BY <1>2, <2>1
  <2>3. IncludeTerms(incs)[k] \in Range(IncludeTerms(incs))
    BY <1>2, <2>2, RangeIs, Zenon
  <2> QED BY <2>2, <2>3
<1> QED BY <1>1, <1>2, <1>3 DEF Records

\* What a merge adds: the includes that are not there, and each of them.
LEMMA AdditionsOK ==
    ASSUME NEW rec \in Records, NEW incs \in Seq(Domains)
    PROVE  /\ Additions(rec, incs) \in Records
           /\ \A t \in Range(Additions(rec, incs)) :
                 \E inc \in Range(incs) : t = Include(inc) /\ ~Contains(rec, inc)
           /\ \A inc \in Range(incs) :
                 ~Contains(rec, inc) => Include(inc) \in Range(Additions(rec, incs))
<1> DEFINE new == {inc \in Range(incs) : ~Contains(rec, inc)}
           left == Kept(incs, new)
<1>1. left \in Seq(Domains) /\ Range(left) = Range(incs) \cap new
  BY KeptRange
<1>2. Additions(rec, incs) = IncludeTerms(left)
  BY DEF Additions
<1>3. Range(left) = new
  BY <1>1
<1> HIDE DEF left
<1>4. ASSUME NEW t \in Range(IncludeTerms(left)) PROVE \E inc \in new : t = Include(inc)
  <2>1. PICK k \in 1..Len(IncludeTerms(left)) : t = IncludeTerms(left)[k]
    BY <1>1, IncludeTermsOK, RangeIs DEF Records
  <2>2. k \in 1..Len(left) /\ t = Include(left[k])
    BY <1>1, <2>1, IncludeTermsOK
  <2>3. left[k] \in Range(left)
    BY <1>1, <2>2, RangeIs, Zenon
  <2> QED BY <1>3, <2>2, <2>3
<1>5. IncludeTerms(left) \in Records /\ \A inc \in Range(left) : Include(inc) \in Range(IncludeTerms(left))
  BY <1>1, IncludeTermsOK
<1> QED BY <1>2, <1>3, <1>4, <1>5

LEMMA MinIs ==
    ASSUME NEW T, T \subseteq Nat, T # {}
    PROVE  Min(T) \in T /\ \A y \in T : Min(T) <= y
BY LeastElement DEF Min

\* The place of the additions: a term that ends the record, if there is one.
LEMMA InsertAtOK ==
    ASSUME NEW rec \in Records
    PROVE  /\ InsertAt(rec) \in 1..(Len(rec) + 1)
           /\ InsertAt(rec) <= Len(rec) => rec[InsertAt(rec)].kind \in Qualified \cup {"redirect"}
           /\ (\E k \in 1..Len(rec) : rec[k].kind \in Qualified) =>
                 InsertAt(rec) <= Len(rec) /\ rec[InsertAt(rec)].kind \in Qualified
<1> DEFINE order == <<"-all", "~all", "?all", "+all", "redirect">>
           there == {k \in 1..Len(order) : At(rec, order[k]) # {}}
<1>1. Len(rec) \in Nat
  BY DEF Records
<1>2. /\ Len(order) = 5
      /\ order[1] = "-all" /\ order[2] = "~all" /\ order[3] = "?all" /\ order[4] = "+all"
      /\ order[5] = "redirect"
  OBVIOUS
<1>3. InsertAt(rec) = IF there = {} THEN Len(rec) + 1 ELSE Min(At(rec, order[Min(there)]))
  BY DEF InsertAt
<1> HIDE DEF order
<1>4. there \subseteq 1..5 /\ \A k \in 1..5 : k \in there <=> At(rec, order[k]) # {}
  BY <1>2
<1> HIDE DEF there
<1>5. \A kind : At(rec, kind) \subseteq 1..Len(rec) /\ \A k \in 1..Len(rec) : k \in At(rec, kind) <=> rec[k].kind = kind
  BY DEF At
<1>6. CASE there = {}
  <2>1. InsertAt(rec) = Len(rec) + 1
    BY <1>3, <1>6
  <2>2. ASSUME NEW k \in 1..Len(rec), rec[k].kind \in Qualified PROVE FALSE
    <3>1. At(rec, rec[k].kind) # {}
      BY <1>5
    <3>2. \E n \in 1..5 : order[n] = rec[k].kind
      BY <1>2, <2>2 DEF Qualified
    <3> QED BY <1>4, <1>6, <3>1, <3>2
  <2> QED BY <1>1, <2>1, <2>2
<1>7. CASE there # {}
  <2>0. there \subseteq Nat
    BY <1>4
  <2>1. Min(there) \in there /\ \A n \in there : Min(there) <= n
    BY <1>7, <2>0, MinIs
  <2>2. PICK n \in 1..5 : n = Min(there) /\ At(rec, order[n]) # {}
    BY <1>4, <2>1
  <2>3. At(rec, order[n]) \subseteq Nat
    BY <1>1, <1>5
  <2>4. Min(At(rec, order[n])) \in At(rec, order[n])
    BY <2>2, <2>3, MinIs
  <2>5. InsertAt(rec) \in At(rec, order[n])
    BY <1>3, <1>7, <2>2, <2>4
  <2>6. InsertAt(rec) \in 1..Len(rec) /\ rec[InsertAt(rec)].kind = order[n]
    BY <1>5, <2>5
  <2>7. order[n] \in Qualified \cup {"redirect"} /\ (n # 5 => order[n] \in Qualified)
    BY <1>2 DEF Qualified
  <2>8. ASSUME NEW k \in 1..Len(rec), rec[k].kind \in Qualified PROVE n # 5
    <3>1. At(rec, rec[k].kind) # {}
      BY <1>5
    <3>2. \E m \in 1..4 : order[m] = rec[k].kind
      BY <1>2, <2>8 DEF Qualified
    <3>3. PICK m \in 1..4 : m \in there
      BY <1>4, <3>1, <3>2
    <3> QED BY <2>1, <2>2, <3>3
  <2> QED BY <1>1, <2>6, <2>7, <2>8
<1> QED BY <1>6, <1>7

\* A record with terms inserted: its parts, and what is at each place.
LEMMA InsertedOK ==
    ASSUME NEW rec \in Records, NEW adds \in Records
    PROVE  LET i == InsertAt(rec)
               n == Len(adds)
               end == IF i > Len(rec) THEN <<Term("-all")>> ELSE <<>>
               new == Inserted(rec, adds)
           IN  /\ SubSeq(rec, 1, i - 1) \in Records /\ SubSeq(rec, i, Len(rec)) \in Records
               /\ SubSeq(rec, 1, i - 1) \o SubSeq(rec, i, Len(rec)) = rec
               /\ end \in Records
               /\ new = ((SubSeq(rec, 1, i - 1) \o adds) \o SubSeq(rec, i, Len(rec))) \o end
               /\ new \in Records
               /\ Len(new) = Len(rec) + n + Len(end)
               /\ \A k \in 1..(i - 1) : new[k] = rec[k]
               /\ \A k \in 1..n : new[i - 1 + k] = adds[k]
               /\ \A k \in i..Len(rec) : new[k + n] = rec[k]
               /\ i > Len(rec) => new[Len(rec) + n + 1] = Term("-all")
<1> DEFINE i == InsertAt(rec)
           n == Len(adds)
           end == IF i > Len(rec) THEN <<Term("-all")>> ELSE <<>>
           pre == SubSeq(rec, 1, i - 1)
           post == SubSeq(rec, i, Len(rec))
<1>1. Len(rec) \in Nat /\ n \in Nat /\ i \in 1..(Len(rec) + 1) /\ rec \in Seq(Terms) /\ adds \in Seq(Terms)
  BY InsertAtOK DEF Records
<1>2. Inserted(rec, adds) = ((pre \o adds) \o post) \o end
  BY DEF Inserted
<1>3. end \in Seq(Terms) /\ Len(end) = (IF i > Len(rec) THEN 1 ELSE 0)
      /\ (i > Len(rec) => end[1] = Term("-all"))
  <2>1. Term("-all") \in Terms
    BY TermIs DEF Qualified
  <2> QED BY <2>1
<1> HIDE DEF i, end
<1>4. /\ pre \in Seq(Terms) /\ Len(pre) = i - 1
      /\ \A k \in 1..(i - 1) : pre[k] = rec[k]
  <2>1. \A k \in 1..(i - 1) : rec[k] \in Terms
    BY <1>1
  <2>2. (i - 1) - 1 + 1 = i - 1 /\ 1 \in Int /\ i - 1 \in Int
    BY <1>1
  <2>3. /\ pre \in Seq(Terms)
        /\ Len(pre) = IF 1 <= i - 1 THEN (i - 1) - 1 + 1 ELSE 0
        /\ \A k \in 1..((i - 1) - 1 + 1) : pre[k] = rec[1 + k - 1]
    BY <2>1, <2>2, SubSeqProperties
  <2> QED BY <1>1, <2>2, <2>3
<1>5. /\ post \in Seq(Terms) /\ Len(post) = Len(rec) - i + 1
      /\ \A k \in 1..(Len(rec) - i + 1) : post[k] = rec[i + k - 1]
  <2>1. \A k \in i..Len(rec) : rec[k] \in Terms
    BY <1>1
  <2>2. /\ post \in Seq(Terms)
        /\ Len(post) = IF i <= Len(rec) THEN Len(rec) - i + 1 ELSE 0
        /\ \A k \in 1..(Len(rec) - i + 1) : post[k] = rec[i + k - 1]
    BY <1>1, <2>1, SubSeqProperties
  <2> QED BY <1>1, <2>2
<1>6. pre \o post = rec
  <2>1. 1 \in 1..(Len(rec) + 1) /\ i - 1 \in (1 - 1)..Len(rec) /\ Len(rec) \in (i - 1)..Len(rec) /\ (i - 1) + 1 = i
    BY <1>1
  <2>2. SubSeq(rec, 1, i - 1) \o SubSeq(rec, (i - 1) + 1, Len(rec)) = SubSeq(rec, 1, Len(rec))
    BY <1>1, <2>1, ConcatAdjacentSubSeq
  <2>3. SubSeq(rec, 1, Len(rec)) = rec
    BY <1>1, SubSeqFull
  <2> QED BY <2>1, <2>2, <2>3
<1> HIDE DEF pre, post, n
<1>7. PICK a : a = pre \o adds
  OBVIOUS
<1>8. /\ a \in Seq(Terms) /\ Len(a) = i - 1 + n
      /\ \A k \in 1..(i - 1) : a[k] = rec[k]
      /\ \A k \in 1..n : a[i - 1 + k] = adds[k]
  <2>1. /\ a \in Seq(Terms) /\ Len(a) = Len(pre) + Len(adds)
        /\ \A k \in 1..(Len(pre) + Len(adds)) : a[k] = IF k <= Len(pre) THEN pre[k] ELSE adds[k - Len(pre)]
    BY <1>1, <1>4, <1>7, ConcatProperties
  <2>2. ASSUME NEW k \in 1..(i - 1) PROVE a[k] = rec[k]
    <3>1. k \in 1..(Len(pre) + Len(adds)) /\ k <= Len(pre)
      BY <1>1, <1>4 DEF n
    <3> QED BY <1>4, <2>1, <3>1
  <2>3. ASSUME NEW k \in 1..n PROVE a[i - 1 + k] = adds[k]
    <3>1. i - 1 + k \in 1..(Len(pre) + Len(adds)) /\ ~(i - 1 + k <= Len(pre)) /\ (i - 1 + k) - Len(pre) = k
      BY <1>1, <1>4 DEF n
    <3> QED BY <2>1, <3>1
  <2> QED BY <1>1, <1>4, <2>1, <2>2, <2>3 DEF n
<1>9. PICK b : b = a \o post
  OBVIOUS
<1>10. /\ b \in Seq(Terms) /\ Len(b) = Len(rec) + n
       /\ \A k \in 1..(i - 1) : b[k] = rec[k]
       /\ \A k \in 1..n : b[i - 1 + k] = adds[k]
       /\ \A k \in i..Len(rec) : b[k + n] = rec[k]
  <2>1. /\ b \in Seq(Terms) /\ Len(b) = Len(a) + Len(post)
        /\ \A k \in 1..(Len(a) + Len(post)) : b[k] = IF k <= Len(a) THEN a[k] ELSE post[k - Len(a)]
    BY <1>5, <1>8, <1>9, ConcatProperties
  <2>2. ASSUME NEW k \in 1..(i - 1 + n) PROVE b[k] = a[k]
    <3>1. k \in 1..(Len(a) + Len(post)) /\ k <= Len(a)
      BY <1>1, <1>5, <1>8
    <3> QED BY <2>1, <3>1
  <2>3. ASSUME NEW k \in i..Len(rec) PROVE b[k + n] = rec[k]
    <3>1. k + n \in 1..(Len(a) + Len(post)) /\ ~(k + n <= Len(a)) /\ (k + n) - Len(a) = k - i + 1
      BY <1>1, <1>5, <1>8
    <3>2. k - i + 1 \in 1..(Len(rec) - i + 1) /\ i + (k - i + 1) - 1 = k
      BY <1>1
    <3> QED BY <1>5, <2>1, <3>1, <3>2
  <2>4. \A k \in 1..n : i - 1 + k \in 1..(i - 1 + n)
    BY <1>1
  <2>5. \A k \in 1..(i - 1) : k \in 1..(i - 1 + n)
    BY <1>1
  <2> QED BY <1>1, <1>5, <1>8, <2>1, <2>2, <2>3, <2>4, <2>5
<1>11. PICK c : c = b \o end
  OBVIOUS
<1>12. /\ c \in Seq(Terms) /\ Len(c) = Len(rec) + n + Len(end)
       /\ \A k \in 1..(Len(rec) + n) : c[k] = b[k]
       /\ i > Len(rec) => c[Len(rec) + n + 1] = Term("-all")
  <2>1. /\ c \in Seq(Terms) /\ Len(c) = Len(b) + Len(end)
        /\ \A k \in 1..(Len(b) + Len(end)) : c[k] = IF k <= Len(b) THEN b[k] ELSE end[k - Len(b)]
    BY <1>3, <1>10, <1>11, ConcatProperties
  <2>2. ASSUME i > Len(rec) PROVE c[Len(rec) + n + 1] = Term("-all")
    <3>1. Len(end) = 1 /\ end[1] = Term("-all")
      BY <1>3, <2>2
    <3>2. Len(rec) + n + 1 \in 1..(Len(b) + Len(end)) /\ ~(Len(rec) + n + 1 <= Len(b)) /\ (Len(rec) + n + 1) - Len(b) = 1
      BY <1>1, <1>10, <3>1
    <3> QED BY <2>1, <3>1, <3>2
  <2>3. \A k \in 1..(Len(rec) + n) : k \in 1..(Len(b) + Len(end)) /\ k <= Len(b)
    BY <1>1, <1>3, <1>10
  <2> QED BY <1>10, <2>1, <2>2, <2>3
<1>13. Inserted(rec, adds) = c
  BY <1>2, <1>7, <1>9, <1>11
<1>14. /\ \A k \in 1..(i - 1) : c[k] = rec[k]
       /\ \A k \in 1..n : c[i - 1 + k] = adds[k]
       /\ \A k \in i..Len(rec) : c[k + n] = rec[k]
  <2>1. /\ \A k \in 1..(i - 1) : k \in 1..(Len(rec) + n)
        /\ \A k \in 1..n : i - 1 + k \in 1..(Len(rec) + n)
        /\ \A k \in i..Len(rec) : k + n \in 1..(Len(rec) + n)
    BY <1>1
  <2> QED BY <1>10, <1>12, <2>1
<1> QED BY <1>2, <1>3, <1>4, <1>5, <1>6, <1>12, <1>13, <1>14 DEF i, n, end, pre, post, Records

\* Nothing is added to a record that has every include.
LEMMA NothingToAdd ==
    ASSUME NEW rec \in Records, NEW incs \in Seq(Domains),
           \A inc \in Range(incs) : Contains(rec, inc)
    PROVE  Additions(rec, incs) = <<>>
<1> DEFINE adds == Additions(rec, incs)
<1>1. adds \in Seq(Terms) /\ \A t \in Range(adds) : FALSE
  BY AdditionsOK DEF Records
<1> HIDE DEF adds
<1>2. ASSUME adds # <<>> PROVE FALSE
  <2>1. 1 \in 1..Len(adds)
    BY <1>1, <1>2, EmptySeq
  <2>2. adds[1] \in Range(adds)
    BY <1>1, <2>1, RangeIs
  <2> QED BY <1>1, <2>2
<1> QED BY <1>2 DEF adds

\* What can be merged.
Mergeable(rec, incs) == (IsRecord(rec) => rec \in Records) /\ incs \in Seq(Domains)

\* A fresh record: the includes and ~all.
LEMMA FreshRecordOK ==
    ASSUME NEW incs \in Seq(Domains)
    PROVE  /\ buildFresh(incs) \in Records
           /\ Len(buildFresh(incs)) = Len(incs) + 1 /\ Len(incs) \in Nat
           /\ \A k \in 1..Len(incs) : buildFresh(incs)[k] = Include(incs[k])
           /\ buildFresh(incs)[Len(incs) + 1] = Term("~all")
           /\ \A inc \in Range(incs) : Include(inc) \in Range(buildFresh(incs))
<1> DEFINE a == IncludeTerms(incs)
           b == <<Term("~all")>>
<1>1. a \in Seq(Terms) /\ Len(a) = Len(incs) /\ Len(incs) \in Nat
      /\ (\A k \in 1..Len(incs) : a[k] = Include(incs[k]))
      /\ (\A inc \in Range(incs) : Include(inc) \in Range(a))
  BY IncludeTermsOK DEF Records
<1>2. b \in Seq(Terms) /\ Len(b) = 1 /\ b[1] = Term("~all")
  <2>1. Term("~all") \in Terms
    BY TermIs DEF Qualified
  <2> QED BY <2>1
<1>3. buildFresh(incs) = a \o b
  BY DEF buildFresh
<1> HIDE DEF a, b
<1>4. /\ a \o b \in Seq(Terms) /\ Len(a \o b) = Len(a) + Len(b)
      /\ \A k \in 1..(Len(a) + Len(b)) : (a \o b)[k] = IF k <= Len(a) THEN a[k] ELSE b[k - Len(a)]
  <2>1. PICK p, q : p = a /\ q = b
    OBVIOUS
  <2>2. p \in Seq(Terms) /\ q \in Seq(Terms)
    BY <1>1, <1>2, <2>1
  <2>3. /\ p \o q \in Seq(Terms) /\ Len(p \o q) = Len(p) + Len(q)
        /\ \A k \in 1..(Len(p) + Len(q)) : (p \o q)[k] = IF k <= Len(p) THEN p[k] ELSE q[k - Len(p)]
    BY <2>2, ConcatProperties
  <2> QED BY <2>1, <2>3
<1>5. Range(a \o b) = Range(a) \cup Range(b)
  BY <1>1, <1>2, RangeConcatenation
<1>6. (a \o b)[Len(incs) + 1] = b[1] /\ \A k \in 1..Len(incs) : (a \o b)[k] = a[k]
  BY <1>1, <1>2, <1>4
<1> QED BY <1>1, <1>2, <1>3, <1>4, <1>5, <1>6 DEF Records

\* A merge gives a record, keeps what there was and provides every include.
LEMMA MergedOK ==
    ASSUME NEW rec, NEW incs, Mergeable(rec, incs)
    PROVE  /\ Merged(rec, incs) \in Records
           /\ IsRecord(rec) => Range(rec) \subseteq Range(Merged(rec, incs))
           /\ \A inc \in Range(incs) :
                 \/ Include(inc) \in Range(Merged(rec, incs))
                 \/ IsRecord(rec) /\ Contains(rec, inc)
<1> DEFINE new == Merged(rec, incs)
<1>0. (IsRecord(rec) => rec \in Records) /\ incs \in Seq(Domains)
  BY DEF Mergeable
<1>1. CASE ~IsRecord(rec)
  <2>1. new = buildFresh(incs)
    BY <1>1 DEF Merged
  <2> QED BY <1>0, <1>1, <2>1, FreshRecordOK
<1>2. CASE IsRecord(rec) /\ Additions(rec, incs) = <<>>
  <2>1. new = rec
    BY <1>2 DEF Merged
  <2>2. ASSUME NEW inc \in Range(incs), ~Contains(rec, inc) PROVE FALSE
    <3>1. Include(inc) \in Range(Additions(rec, incs))
      BY <1>0, <1>2, <2>2, AdditionsOK
    <3>2. Range(<<>>) = {}
      BY DEF Range
    <3> QED BY <1>2, <3>1, <3>2
  <2> QED BY <1>0, <1>2, <2>1, <2>2
<1>3. CASE IsRecord(rec) /\ Additions(rec, incs) # <<>>
  <2> DEFINE adds == Additions(rec, incs)
             i == InsertAt(rec)
  <2>1. new = Inserted(rec, adds)
    BY <1>3 DEF Merged
  <2>2. adds \in Records /\ rec \in Records
    BY <1>0, <1>3, AdditionsOK
  <2>3. \A inc \in Range(incs) : ~Contains(rec, inc) => Include(inc) \in Range(adds)
    BY <1>0, <2>2, AdditionsOK
  <2> HIDE DEF adds, new
  <2>4. Len(rec) \in Nat /\ Len(adds) \in Nat /\ i \in 1..(Len(rec) + 1)
    BY <2>2, InsertAtOK DEF Records
  <2>5. PICK m \in Nat :
          /\ new \in Seq(Terms)
          /\ Len(new) = Len(rec) + Len(adds) + m
          /\ \A k \in 1..(i - 1) : new[k] = rec[k]
          /\ \A k \in 1..Len(adds) : new[i - 1 + k] = adds[k]
          /\ \A k \in i..Len(rec) : new[k + Len(adds)] = rec[k]
    <3> DEFINE end == IF i > Len(rec) THEN <<Term("-all")>> ELSE <<>>
    <3>1. Len(end) \in Nat
      BY <2>2, InsertedOK DEF Records
    <3> HIDE DEF end
    <3> QED BY <2>1, <2>2, <3>1, InsertedOK DEF Records, end
  <2>6. ASSUME NEW t \in Range(adds) PROVE t \in Range(new)
    <3>1. PICK k \in 1..Len(adds) : t = adds[k]
      BY <2>2, RangeIs DEF Records
    <3>2. i - 1 + k \in 1..Len(new) /\ new[i - 1 + k] = t
      BY <2>4, <2>5, <3>1
    <3> QED BY <2>5, <3>2, RangeIs
  <2>7. ASSUME NEW t \in Range(rec) PROVE t \in Range(new)
    <3>1. PICK k \in 1..Len(rec) : t = rec[k]
      BY <2>2, RangeIs DEF Records
    <3>2. \E j \in 1..Len(new) : new[j] = t
      <4>1. CASE k < i
        <5>1. k \in 1..(i - 1) /\ k \in 1..Len(new)
          BY <2>4, <2>5, <4>1
        <5> QED BY <2>5, <3>1, <5>1
      <4>2. CASE ~(k < i)
        <5>1. k \in i..Len(rec) /\ k + Len(adds) \in 1..Len(new)
          BY <2>4, <2>5, <4>2
        <5> QED BY <2>5, <3>1, <5>1
      <4> QED BY <4>1, <4>2
    <3> QED BY <2>5, <3>2, RangeIs
  <2>8. new \in Records
    BY <2>5 DEF Records
  <2> QED BY <1>3, <2>3, <2>6, <2>7, <2>8 DEF new
<1> QED BY <1>1, <1>2, <1>3

\* What a merge promises of the terms there are: a second one changes nothing,
\* those there were are kept in their order, and every include is there.
LEMMA MergedPreserves ==
    ASSUME NEW rec, NEW incs, Mergeable(rec, incs)
    PROVE  /\ Merged(Merged(rec, incs), incs) = Merged(rec, incs)
           /\ IsRecord(rec) => Kept(Merged(rec, incs), Range(rec)) = rec
           /\ \A inc \in Range(incs) :
                 \/ Include(inc) \in Range(Merged(rec, incs))
                 \/ \E t \in Range(rec) :
                       \/ t.kind = "+include" /\ t.dom = inc
                       \/ t.kind \in {"include", "+include"} /\ <<inc, t.dom>> \in Prefixes
<1> DEFINE new == Merged(rec, incs)
<1>0. (IsRecord(rec) => rec \in Records) /\ incs \in Seq(Domains)
  BY DEF Mergeable
<1>1. /\ new \in Records
      /\ IsRecord(rec) => Range(rec) \subseteq Range(new)
      /\ \A inc \in Range(incs) : Include(inc) \in Range(new) \/ (IsRecord(rec) /\ Contains(rec, inc))
  BY MergedOK, Zenon
<1>2. Range(incs) \subseteq Domains /\ \A inc \in Domains : Include(inc).kind = "include" /\ Include(inc).dom = inc
  BY <1>0, TermIs, RangeIs
<1> HIDE DEF new
<1>3. ASSUME NEW inc \in Range(incs) PROVE Contains(new, inc)
  <2>1. CASE Include(inc) \in Range(new)
    BY <1>2, <2>1 DEF Contains
  <2>2. CASE IsRecord(rec) /\ Contains(rec, inc)
    BY <1>1, <2>2 DEF Contains
  <2> QED BY <1>1, <2>1, <2>2
<1>4. Merged(new, incs) = new
  <2>1. Additions(new, incs) = <<>>
    BY <1>0, <1>1, <1>3, NothingToAdd
  <2>2. IsRecord(new)
    BY <1>1, SPFAssumption DEF IsRecord
  <2> QED BY <2>1, <2>2 DEF Merged
<1>5. ASSUME IsRecord(rec) PROVE Kept(new, Range(rec)) = rec
  <2>0. rec \in Seq(Terms)
    BY <1>0, <1>5 DEF Records
  <2>1. CASE Additions(rec, incs) = <<>>
    <3>1. new = rec
      BY <1>5, <2>1 DEF Merged, new
    <3> QED BY <2>0, <3>1, KeptAll
  <2>2. CASE Additions(rec, incs) # <<>>
    <3> DEFINE adds == Additions(rec, incs)
               i == InsertAt(rec)
               pre == SubSeq(rec, 1, i - 1)
               post == SubSeq(rec, i, Len(rec))
               end == IF i > Len(rec) THEN <<Term("-all")>> ELSE <<>>
               R == Range(rec)
    <3>1. new = Inserted(rec, adds)
      BY <1>5, <2>2 DEF Merged, new
    <3>2. adds \in Records /\ rec \in Records
      BY <1>0, <2>0, AdditionsOK DEF Records
    <3>3. ASSUME NEW t \in Range(adds) PROVE t \notin R
      <4>1. PICK inc \in Range(incs) : t = Include(inc) /\ ~Contains(rec, inc)
        BY <1>0, <3>2, AdditionsOK
      <4> QED BY <1>2, <4>1 DEF Contains
    <3>4. ASSUME NEW t \in Range(end) PROVE t \notin R
      <4>1. CASE i > Len(rec)
        <5>1. t = Term("-all")
          BY <4>1 DEF Range
        <5>2. t.kind \in Qualified
          BY <5>1, TermIs DEF Qualified
        <5>3. ASSUME t \in R PROVE FALSE
          <6>1. PICK k \in 1..Len(rec) : t = rec[k]
            BY <2>0, <5>3, RangeIs
          <6>2. InsertAt(rec) <= Len(rec)
            BY <3>2, <5>2, <6>1, InsertAtOK
          <6> QED BY <2>0, <3>2, <4>1, <6>2, InsertAtOK
        <5> QED BY <5>3
      <4>2. CASE ~(i > Len(rec))
        BY <4>2 DEF Range
      <4> QED BY <4>1, <4>2
    <3>5. /\ pre \in Seq(Terms) /\ post \in Seq(Terms) /\ pre \o post = rec /\ end \in Seq(Terms)
          /\ Inserted(rec, adds) = ((pre \o adds) \o post) \o end
      BY <3>2, InsertedOK DEF Records
    <3>6. adds \in Seq(Terms)
      BY <3>2 DEF Records
    <3> HIDE DEF adds, pre, post, end, i
    <3>7. Kept(adds, R) = <<>> /\ Kept(end, R) = <<>>
      BY <3>3, <3>4, <3>5, <3>6, KeptNone
    <3>8. Range(pre) \subseteq R /\ Range(post) \subseteq R
      <4>1. Range(pre \o post) = Range(pre) \cup Range(post)
        BY <3>5, RangeConcatenation, Zenon
      <4> QED BY <3>5, <4>1 DEF R
    <3>9. Kept(pre, R) = pre /\ Kept(post, R) = post
      BY <3>5, <3>8, KeptAll
    <3>10. PICK a, b, c : a = pre \o adds /\ b = a \o post /\ c = b \o end
      OBVIOUS
    <3>11. a \in Seq(Terms) /\ b \in Seq(Terms)
      BY <3>5, <3>6, <3>10, ConcatProperties
    <3>12. /\ Kept(a, R) = Kept(pre, R) \o Kept(adds, R)
           /\ Kept(b, R) = Kept(a, R) \o Kept(post, R)
           /\ Kept(c, R) = Kept(b, R) \o Kept(end, R)
      <4> HIDE DEF R
      <4>0. \A s, t \in Seq(Terms) : Kept(s \o t, R) = Kept(s, R) \o Kept(t, R)
        BY KeptConcat
      <4>1. Kept(pre \o adds, R) = Kept(pre, R) \o Kept(adds, R)
        BY <3>5, <3>6, <4>0, Zenon
      <4>2. Kept(a \o post, R) = Kept(a, R) \o Kept(post, R)
        BY <3>5, <3>11, <4>0, Zenon
      <4>3. Kept(b \o end, R) = Kept(b, R) \o Kept(end, R)
        BY <3>5, <3>11, <4>0, Zenon
      <4> QED BY <3>10, <4>1, <4>2, <4>3
    <3>13. pre \o <<>> = pre /\ rec \o <<>> = rec
      BY <2>0, <3>5, ConcatEmptySeq
    <3>14. Kept(c, R) = rec
      BY <3>5, <3>7, <3>9, <3>12, <3>13
    <3> QED BY <3>1, <3>5, <3>10, <3>14
  <2> QED BY <2>1, <2>2
<1>6. ASSUME NEW inc \in Range(incs), Include(inc) \notin Range(new)
      PROVE  \E t \in Range(rec) : \/ t.kind = "+include" /\ t.dom = inc
                                   \/ t.kind \in {"include", "+include"} /\ <<inc, t.dom>> \in Prefixes
  <2>1. IsRecord(rec) /\ Contains(rec, inc)
    BY <1>1, <1>6
  <2>2. PICK t \in Range(rec) : t.kind \in {"include", "+include"} /\ (t.dom = inc \/ <<inc, t.dom>> \in Prefixes)
    BY <2>1 DEF Contains
  <2>3. rec \in Seq(Terms)
    BY <1>0, <2>1 DEF Records
  <2>4. t \in Terms
    BY <2>3, RangeIs
  <2>5. CASE t.kind = "include" /\ t.dom = inc
    <3>1. t = Include(inc)
      BY <2>4, <2>5, TermIs
    <3> QED BY <1>1, <1>6, <2>1, <3>1
  <2> QED BY <2>2, <2>5
<1> QED BY <1>4, <1>5, <1>6 DEF new

\* Two members make a set of more than one.
LEMMA MoreThanOne ==
    ASSUME NEW S, IsFiniteSet(S), NEW x \in S, NEW y \in S, x # y
    PROVE  Cardinality(S) > 1
<1>1. IsFiniteSet({x}) /\ Cardinality({x}) = 1
  BY FS_Singleton
<1>2. IsFiniteSet({x} \cup {y}) /\ Cardinality({x} \cup {y}) = 2
  <2> DEFINE X == {x}
  <2>1. y \notin X /\ IsFiniteSet(X) /\ Cardinality(X) = 1
    BY <1>1
  <2> HIDE DEF X
  <2>2. IsFiniteSet(X \cup {y}) /\ Cardinality(X \cup {y}) = Cardinality(X) + 1
    BY <2>1, FS_AddElement
  <2> QED BY <2>1, <2>2 DEF X
<1>3. {x} \cup {y} \subseteq S
  OBVIOUS
<1>4. Cardinality({x} \cup {y}) <= Cardinality(S) /\ Cardinality(S) \in Nat
  BY <1>3, FS_Subset, FS_CardinalityType
<1> QED BY <1>2, <1>4

\* What a merge promises of the place of the terms it adds: before every "all".
LEMMA MergedEffective ==
    ASSUME NEW rec, NEW incs, Mergeable(rec, incs),
           IsRecord(rec) => /\ At(rec, "all") = {}
                            /\ ~(Cardinality({k \in 1..Len(rec) : rec[k].kind \in All}) > 1),
           NEW j \in 1..Len(Merged(rec, incs)), NEW k \in 1..Len(Merged(rec, incs)),
           Merged(rec, incs)[j].kind \in All,
           Merged(rec, incs)[k].kind = "include",
           Merged(rec, incs)[k].dom \in Range(incs),
           ~(IsRecord(rec) /\ Contains(rec, Merged(rec, incs)[k].dom))
    PROVE  k < j
<1> DEFINE new == Merged(rec, incs)
<1>0. (IsRecord(rec) => rec \in Records) /\ incs \in Seq(Domains)
  BY DEF Mergeable
<1>1. new \in Seq(Terms)
  BY MergedOK DEF Records
<1>2. /\ j \in 1..Len(new) /\ k \in 1..Len(new) /\ Len(new) \in Nat
      /\ new[j].kind \in All /\ new[k].kind = "include" /\ new[k].kind \notin All
      /\ new[j].kind # "include"
  BY <1>1, TermIs
<1> HIDE DEF new
<1>3. CASE ~IsRecord(rec)
  <2> DEFINE n == Len(incs)
  <2>1. /\ n \in Nat /\ Len(new) = n + 1
        /\ \A p \in 1..n : new[p] = Include(incs[p])
        /\ new[n + 1] = Term("~all")
    BY <1>0, <1>3, FreshRecordOK DEF Merged, new
  <2>2. \A p \in 1..n : new[p].kind = "include"
    <3>1. \A p \in 1..n : incs[p] \in Domains
      BY <1>0
    <3> QED BY <2>1, <3>1, TermIs
  <2>3. new[n + 1].kind = "~all" /\ "~all" \in All
    BY <2>1, TermIs DEF Qualified
  <2> HIDE DEF n
  <2>4. j = n + 1 /\ k # n + 1
    BY <1>2, <2>1, <2>2, <2>3
  <2> QED BY <1>2, <2>1, <2>4
<1>4. ASSUME IsRecord(rec) PROVE new[k] \notin Range(rec)
  <2>1. ~Contains(rec, new[k].dom)
    BY <1>4 DEF new
  <2> QED BY <1>2, <2>1 DEF Contains
<1>5. CASE IsRecord(rec) /\ Additions(rec, incs) = <<>>
  <2>1. new = rec
    BY <1>5 DEF Merged, new
  <2>2. new[k] \in Range(new)
    BY <1>1, <1>2, RangeIs
  <2> QED BY <1>4, <1>5, <2>1, <2>2
<1>6. CASE IsRecord(rec) /\ Additions(rec, incs) # <<>>
  <2> DEFINE adds == Additions(rec, incs)
             i == InsertAt(rec)
             n == Len(adds)
             m == Len(rec)
  <2>1. new = Inserted(rec, adds)
    BY <1>6 DEF Merged, new
  <2>2. adds \in Records /\ rec \in Records
    BY <1>0, <1>6, AdditionsOK
  <2>3. ASSUME NEW p \in 1..n PROVE adds[p].kind = "include"
    <3>1. adds[p] \in Range(adds)
      BY <2>2, RangeIs DEF Records
    <3>2. \E inc \in Range(incs) : adds[p] = Include(inc)
      BY <1>0, <2>2, <3>1, AdditionsOK
    <3> QED BY <1>0, <3>2, TermIs, RangeIs
  <2>4. n \in Nat /\ m \in Nat /\ i \in 1..(m + 1)
    BY <2>2, InsertAtOK DEF Records
  <2>5. /\ Len(new) = m + n + (IF i > m THEN 1 ELSE 0)
        /\ \A p \in 1..(i - 1) : new[p] = rec[p]
        /\ \A p \in 1..n : new[i - 1 + p] = adds[p]
        /\ \A p \in i..m : new[p + n] = rec[p]
        /\ i > m => new[m + n + 1] = Term("-all")
    <3> HIDE DEF adds
    <3> DEFINE end == IF i > Len(rec) THEN <<Term("-all")>> ELSE <<>>
    <3>1. Len(end) = IF i > m THEN 1 ELSE 0
      OBVIOUS
    <3>2. /\ Len(Inserted(rec, adds)) = Len(rec) + Len(adds) + Len(end)
          /\ \A p \in 1..(InsertAt(rec) - 1) : Inserted(rec, adds)[p] = rec[p]
          /\ \A p \in 1..Len(adds) : Inserted(rec, adds)[InsertAt(rec) - 1 + p] = adds[p]
          /\ \A p \in InsertAt(rec)..Len(rec) : Inserted(rec, adds)[p + Len(adds)] = rec[p]
          /\ InsertAt(rec) > Len(rec) => Inserted(rec, adds)[Len(rec) + Len(adds) + 1] = Term("-all")
      BY <2>2, InsertedOK, Zenon
    <3> HIDE DEF end
    <3> QED BY <2>1, <3>1, <3>2, Zenon
  <2>6. \A p \in 1..m : rec[p] \in Range(rec)
    BY <2>2, RangeIs DEF Records
  <2>7. Term("-all").kind # "include"
    BY TermIs DEF Qualified
  <2> HIDE DEF adds, i, n, m
  <2>8. ASSUME NEW p \in 1..Len(new)
        PROVE  \/ p \in 1..(i - 1)
               \/ p - i + 1 \in 1..n /\ p = i - 1 + (p - i + 1)
               \/ p - n \in i..m /\ p = (p - n) + n
               \/ i > m /\ p = m + n + 1
    BY <2>4, <2>5
  <2>9. k - i + 1 \in 1..n
    <3>1. k \notin 1..(i - 1)
      <4>1. ASSUME k \in 1..(i - 1) PROVE FALSE
        <5>1. k \in 1..m /\ new[k] = rec[k]
          BY <2>4, <2>5, <4>1
        <5> QED BY <1>4, <1>6, <2>6, <5>1
      <4> QED BY <4>1
    <3>2. ~(k - n \in i..m /\ k = (k - n) + n)
      <4>1. ASSUME k - n \in i..m, k = (k - n) + n PROVE FALSE
        <5>1. k - n \in 1..m /\ new[k] = rec[k - n]
          BY <2>4, <2>5, <4>1
        <5> QED BY <1>4, <1>6, <2>6, <5>1
      <4> QED BY <4>1
    <3>3. ~(i > m /\ k = m + n + 1)
      BY <1>2, <2>5, <2>7
    <3> QED BY <1>2, <2>8, <3>1, <3>2, <3>3
  <2>10. ~(j - i + 1 \in 1..n /\ j = i - 1 + (j - i + 1))
    <3>1. ASSUME j - i + 1 \in 1..n, j = i - 1 + (j - i + 1) PROVE FALSE
      <4>1. new[j] = adds[j - i + 1]
        BY <2>5, <3>1
      <4> QED BY <1>2, <2>3, <3>1, <4>1
    <3> QED BY <3>1
  <2>11. j \notin 1..(i - 1)
    <3> DEFINE ends == {p \in 1..Len(rec) : rec[p].kind \in All}
    <3>1. SUFFICES ASSUME j \in 1..(i - 1) PROVE FALSE
      OBVIOUS
    <3>2. j \in 1..m /\ new[j] = rec[j] /\ rec[j].kind \in All
      BY <1>2, <2>4, <2>5, <3>1
    <3>3. rec[j].kind # "all"
      BY <1>6, <3>2 DEF At, m
    <3>4. rec[j].kind \in Qualified
      BY <3>2, <3>3 DEF All, Qualified
    <3>5. i <= m /\ rec[i].kind \in Qualified
      BY <2>2, <3>2, <3>4, InsertAtOK DEF i, m
    <3>6. i \in ends /\ j \in ends /\ i # j
      BY <2>4, <3>1, <3>2, <3>5, TermIs DEF m
    <3>7. IsFiniteSet(ends)
      <4>1. IsFiniteSet(1..Len(rec))
        BY <2>4, FS_Interval DEF m
      <4>2. ends \subseteq 1..Len(rec)
        OBVIOUS
      <4> QED BY <4>1, <4>2, FS_Subset
    <3>8. Cardinality(ends) > 1
      <4> HIDE DEF ends
      <4> QED BY <3>6, <3>7, MoreThanOne
    <3> QED BY <1>6, <3>8
  <2> QED BY <1>2, <2>4, <2>8, <2>9, <2>10, <2>11
<1> QED BY <1>3, <1>5, <1>6

-----------------------------------------------------------------------------
(* What a walk can reach, and what it has still to read.                    *)

LEMMA TargetsIn ==
    ASSUME NEW rec \in Records
    PROVE  Targets(rec) \subseteq Domains
<1>1. rec \in Seq(Terms)
  BY DEF Records
<1>2. Range(rec) \subseteq Terms
  BY <1>1, RangeIs
<1> QED BY <1>2, TermIs DEF Targets

LEMMA ReachIsLeast ==
    ASSUME NEW rec \in Records, NEW record \in [Domains -> Records]
    PROVE  /\ Reach(rec, record) \subseteq Domains
           /\ Closed(Reach(rec, record), rec, record)
           /\ \A S \in SUBSET Domains : Closed(S, rec, record) => Reach(rec, record) \subseteq S
<1>1. Reach(rec, record) \subseteq Domains
  BY DEF Reach
<1>2. \A S \in SUBSET Domains : Closed(S, rec, record) => Reach(rec, record) \subseteq S
  BY DEF Reach
<1>3. Targets(rec) \subseteq Reach(rec, record)
  BY TargetsIn DEF Reach, Closed
<1>4. ASSUME NEW d \in Reach(rec, record) PROVE Targets(record[d]) \subseteq Reach(rec, record)
  <2>1. d \in Domains /\ record[d] \in Records
    BY <1>1
  <2>2. Targets(record[d]) \subseteq Domains
    BY <2>1, TargetsIn
  <2>3. ASSUME NEW S \in SUBSET Domains, Closed(S, rec, record) PROVE Targets(record[d]) \subseteq S
    <3>1. d \in S
      BY <1>2, <2>3
    <3> QED BY <2>3, <3>1 DEF Closed
  <2> QED BY <2>2, <2>3 DEF Reach
<1> QED BY <1>1, <1>2, <1>3, <1>4 DEF Closed

\* The domains that the terms on a stack lead to.
Pending(st) == UNION {Targets(st[k]) : k \in 1..Len(st)}

LEMMA EmptyTargets == Targets(<<>>) = {}
<1>1. Range(<<>>) = {}
  BY DEF Range
<1> QED BY <1>1 DEF Targets

\* A record that is not empty: its first term and the others.
LEMMA TailIs ==
    ASSUME NEW rec \in Records, rec # <<>>
    PROVE  /\ Len(rec) \in Nat \ {0} /\ rec[1] \in Terms
           /\ Tail(rec) \in Records /\ Len(Tail(rec)) = Len(rec) - 1
           /\ \A m \in 1..(Len(rec) - 1) : Tail(rec)[m] = rec[m + 1]
           /\ Targets(rec) = Targets(Tail(rec)) \cup (IF Lookup(rec[1]) THEN {rec[1].dom} ELSE {})
<1>1. rec \in Seq(Terms) /\ Len(rec) \in Nat
  BY DEF Records
<1>2. Len(rec) # 0
  BY <1>1, EmptySeq
<1>3. rec[1] \in Terms
  BY <1>1, <1>2
<1>4. /\ Tail(rec) \in Seq(Terms) /\ Len(Tail(rec)) = Len(rec) - 1
      /\ \A m \in 1..(Len(rec) - 1) : Tail(rec)[m] = rec[m + 1]
  BY <1>1, <1>2, HeadTailProperties
<1> DEFINE tail == Tail(rec)
<1>5. ASSUME NEW t \in Range(rec) PROVE t = rec[1] \/ t \in Range(tail)
  <2>1. PICK k \in 1..Len(rec) : t = rec[k]
    BY <1>1, RangeIs
  <2>2. CASE k = 1
    BY <2>1, <2>2
  <2>3. CASE k # 1
    <3>1. k - 1 \in 1..Len(tail) /\ k - 1 \in 1..(Len(rec) - 1) /\ (k - 1) + 1 = k
      BY <1>1, <1>4, <2>3
    <3>2. tail[k - 1] = t
      BY <1>4, <2>1, <3>1
    <3> QED BY <1>4, <3>1, <3>2, RangeIs
  <2> QED BY <2>2, <2>3
<1>6. rec[1] \in Range(rec)
  BY <1>1, <1>2, RangeIs
<1>7. ASSUME NEW t \in Range(tail) PROVE t \in Range(rec)
  <2>1. PICK k \in 1..Len(tail) : t = tail[k]
    BY <1>4, RangeIs
  <2>2. k \in 1..(Len(rec) - 1) /\ k + 1 \in 1..Len(rec)
    BY <1>1, <1>4
  <2>3. t = rec[k + 1]
    BY <1>4, <2>1, <2>2
  <2> QED BY <1>1, <2>2, <2>3, RangeIs
<1> HIDE DEF tail
<1>8. Range(rec) = Range(tail) \cup {rec[1]}
  BY <1>5, <1>6, <1>7
<1>9. Targets(rec) = Targets(tail) \cup (IF Lookup(rec[1]) THEN {rec[1].dom} ELSE {})
  BY <1>8, Zenon DEF Targets
<1> QED BY <1>1, <1>2, <1>3, <1>4, <1>9 DEF tail, Records

\* A stack with another record on it.
LEMMA PushIs ==
    ASSUME NEW st \in Seq(Records), NEW rec \in Records
    PROVE  /\ Append(st, rec) \in Seq(Records)
           /\ Len(Append(st, rec)) = Len(st) + 1 /\ Len(st) \in Nat
           /\ \A k \in 1..Len(st) : Append(st, rec)[k] = st[k] /\ st[k] \in Records
           /\ Append(st, rec)[Len(st) + 1] = rec
           /\ Pending(Append(st, rec)) = Pending(st) \cup Targets(rec)
<1> DEFINE u == Append(st, rec)
<1>1. /\ u \in Seq(Records) /\ Len(u) = Len(st) + 1 /\ Len(st) \in Nat
      /\ \A k \in 1..Len(st) : u[k] = st[k] /\ st[k] \in Records
      /\ u[Len(st) + 1] = rec
  BY AppendProperties
<1> HIDE DEF u
<1>2. \A k \in 1..Len(u) : k \in 1..Len(st) \/ k = Len(st) + 1
  BY <1>1
<1>3. \A k \in 1..Len(st) : k \in 1..Len(u)
  BY <1>1
<1>4. Len(st) + 1 \in 1..Len(u)
  BY <1>1
<1>5. Pending(u) = Pending(st) \cup Targets(rec)
  <2>1. ASSUME NEW d \in Pending(u) PROVE d \in Pending(st) \cup Targets(rec)
    BY <1>1, <1>2 DEF Pending
  <2>2. Pending(st) \subseteq Pending(u)
    BY <1>1, <1>3 DEF Pending
  <2>3. Targets(rec) \subseteq Pending(u)
    BY <1>1, <1>4 DEF Pending
  <2> QED BY <2>1, <2>2, <2>3
<1> QED BY <1>1, <1>5 DEF u

\* A stack without its top.
LEMMA PoppedIs ==
    ASSUME stack \in Seq(Records), stack # <<>>
    PROVE  /\ Len(stack) \in Nat \ {0} /\ Top \in Records
           /\ Popped \in Seq(Records) /\ Len(Popped) = Len(stack) - 1
           /\ \A k \in 1..(Len(stack) - 1) : Popped[k] = stack[k] /\ stack[k] \in Records
           /\ Pending(stack) = Pending(Popped) \cup Targets(Top)
<1> DEFINE n == Len(stack)
<1>1. n \in Nat /\ n # 0
  BY EmptySeq
<1>2. \A k \in 1..n : stack[k] \in Records
  OBVIOUS
<1>3. stack[n] \in Records
  BY <1>1, <1>2
<1> HIDE DEF n
<1>4. /\ Popped \in Seq(Records) /\ Len(Popped) = n - 1
      /\ \A k \in 1..(n - 1) : Popped[k] = stack[k]
  <2>1. /\ \A k \in 1..(n - 1) : stack[k] \in Records
        /\ (n - 1) - 1 + 1 = n - 1 /\ 1 \in Int /\ n - 1 \in Int
    BY <1>1, <1>2
  <2>2. /\ SubSeq(stack, 1, n - 1) \in Seq(Records)
        /\ Len(SubSeq(stack, 1, n - 1)) = IF 1 <= n - 1 THEN (n - 1) - 1 + 1 ELSE 0
        /\ \A k \in 1..((n - 1) - 1 + 1) : SubSeq(stack, 1, n - 1)[k] = stack[1 + k - 1]
    BY <2>1, SubSeqProperties
  <2> QED BY <1>1, <2>1, <2>2 DEF Popped, n
<1>5. \A k \in 1..n : k \in 1..(n - 1) \/ k = n
  BY <1>1
<1>6. \A k \in 1..(n - 1) : k \in 1..n
  BY <1>1
<1>7. n \in 1..n
  BY <1>1
<1>8. Pending(stack) = Pending(Popped) \cup Targets(stack[n])
  <2>1. ASSUME NEW d \in Pending(stack) PROVE d \in Pending(Popped) \cup Targets(stack[n])
    BY <1>4, <1>5 DEF Pending, n
  <2>2. Pending(Popped) \subseteq Pending(stack)
    BY <1>4, <1>6 DEF Pending, n
  <2>3. Targets(stack[n]) \subseteq Pending(stack)
    BY <1>7 DEF Pending, n
  <2> QED BY <2>1, <2>2, <2>3
<1> QED BY <1>1, <1>2, <1>3, <1>4, <1>6, <1>8 DEF Top, n

\* A stack after its top has been read by a term.
LEMMA RestIs ==
    ASSUME stack \in Seq(Records), stack # <<>>, Top # <<>>
    PROVE  /\ Rest \in Seq(Records) /\ Len(Rest) = Len(stack)
           /\ \A k \in 1..(Len(stack) - 1) : Rest[k] = stack[k]
           /\ Rest[Len(stack)] = Tail(Top)
           /\ Pending(stack) = Pending(Rest) \cup (IF Lookup(Top[1]) THEN {Top[1].dom} ELSE {})
<1>1. /\ Len(stack) \in Nat \ {0} /\ Top \in Records
      /\ Popped \in Seq(Records) /\ Len(Popped) = Len(stack) - 1
      /\ \A k \in 1..(Len(stack) - 1) : Popped[k] = stack[k] /\ stack[k] \in Records
      /\ Pending(stack) = Pending(Popped) \cup Targets(Top)
  BY PoppedIs
<1>2. /\ Tail(Top) \in Records
      /\ Targets(Top) = Targets(Tail(Top)) \cup (IF Lookup(Top[1]) THEN {Top[1].dom} ELSE {})
  BY <1>1, TailIs
<1>3. /\ Rest \in Seq(Records) /\ Len(Rest) = Len(Popped) + 1
      /\ \A k \in 1..Len(Popped) : Rest[k] = Popped[k]
      /\ Rest[Len(Popped) + 1] = Tail(Top)
      /\ Pending(Rest) = Pending(Popped) \cup Targets(Tail(Top))
  BY <1>1, <1>2, PushIs, Zenon DEF Rest
<1>4. Len(Popped) + 1 = Len(stack)
  BY <1>1
<1>5. Pending(stack) = Pending(Rest) \cup (IF Lookup(Top[1]) THEN {Top[1].dom} ELSE {})
  BY <1>1, <1>2, <1>3
<1>6. \A k \in 1..(Len(stack) - 1) : Rest[k] = stack[k]
  BY <1>1, <1>3
<1> QED BY <1>3, <1>4, <1>5, <1>6

-----------------------------------------------------------------------------
(* Counting: the terms that have been read, in the records of src.          *)

Sources == [Domains \cup {None} -> Records]

\* The terms that cost a lookup in the records of E and in that of None, as
\* pairs of the record's name and the term's place.
Entered(src, E) == UNION {{d} \X Costly(src[d]) : d \in E \cup {None}}

\* The records on the stack are what is left of the records own[1], own[2], ...
Suffix(s, t) == Len(s) <= Len(t) /\ \A m \in 1..Len(s) : s[m] = t[Len(t) - Len(s) + m]

Frames(src, st, E, own) ==
    /\ own \in [1..Len(st) -> E \cup {None}]
    /\ \A j, k \in 1..Len(st) : own[j] = own[k] => j = k
    /\ \A k \in 1..Len(st) : Suffix(st[k], src[own[k]])

\* Those of Entered that are no longer on the stack.
ReadOf(src, st, E, own) ==
    {p \in Entered(src, E) :
        \A k \in 1..Len(st) : own[k] = p[1] => p[2] <= Len(src[p[1]]) - Len(st[k])}

LEMMA CostlyIs ==
    ASSUME NEW rec \in Records
    PROVE  /\ Costly(rec) \subseteq 1..Len(rec) /\ Len(rec) \in Nat /\ IsFiniteSet(Costly(rec))
           /\ \A n \in 1..Len(rec) : n \in Costly(rec) <=> Costs(rec[n])
<1>1. Len(rec) \in Nat
  BY DEF Records
<1>2. Costly(rec) \subseteq 1..Len(rec) /\ \A n \in 1..Len(rec) : n \in Costly(rec) <=> Costs(rec[n])
  BY DEF Costly
<1>3. IsFiniteSet(1..Len(rec))
  BY <1>1, FS_Interval
<1>4. IsFiniteSet(Costly(rec))
  BY <1>2, <1>3, FS_Subset
<1> QED BY <1>1, <1>2, <1>4

LEMMA EnteredIs ==
    ASSUME NEW src \in Sources, NEW E \in SUBSET Domains
    PROVE  /\ IsFiniteSet(Entered(src, E))
           /\ \A p \in Entered(src, E) :
                 \E d \in E \cup {None} : \E n \in Costly(src[d]) : p = <<d, n>>
           /\ \A d \in E \cup {None} : \A n \in Costly(src[d]) : <<d, n>> \in Entered(src, E)
<1> DEFINE D == E \cup {None}
           f == [d \in D |-> {d} \X Costly(src[d])]
           R == {{d} \X Costly(src[d]) : d \in D}
<1>1. \A d \in D : src[d] \in Records
  BY DEF Sources
<1>2. IsFiniteSet(D)
  <2>1. IsFiniteSet(E)
    BY SPFAssumption, FS_Subset
  <2> QED BY <2>1, FS_AddElement
<1>3. f \in Surjection(D, R)
  BY DEF Surjection
<1>4. IsFiniteSet(R)
  BY <1>2, <1>3, FS_Surjection
<1>5. ASSUME NEW T \in R PROVE IsFiniteSet(T)
  <2>1. PICK d \in D : T = {d} \X Costly(src[d])
    OBVIOUS
  <2>2. IsFiniteSet({d}) /\ IsFiniteSet(Costly(src[d]))
    BY <1>1, FS_Singleton, CostlyIs
  <2> QED BY <2>1, <2>2, FS_Product
<1>6. IsFiniteSet(UNION R)
  <2> HIDE DEF R
  <2> QED BY <1>4, <1>5, FS_UNION
<1>7. \A p \in Entered(src, E) : \E d \in D : \E n \in Costly(src[d]) : p = <<d, n>>
  BY DEF Entered
<1>8. \A d \in D : \A n \in Costly(src[d]) : <<d, n>> \in Entered(src, E)
  BY DEF Entered
<1> QED BY <1>6, <1>7, <1>8 DEF Entered

LEMMA ReadIs ==
    ASSUME NEW src \in Sources, NEW E \in SUBSET Domains, NEW st \in Seq(Records), NEW own
    PROVE  /\ ReadOf(src, st, E, own) \subseteq Entered(src, E)
           /\ IsFiniteSet(ReadOf(src, st, E, own)) /\ Cardinality(ReadOf(src, st, E, own)) \in Nat
           /\ \A d \in E \cup {None} : \A n \in Costly(src[d]) :
                 <<d, n>> \in ReadOf(src, st, E, own) <=>
                    \A k \in 1..Len(st) : own[k] = d => n <= Len(src[d]) - Len(st[k])
<1>1. ReadOf(src, st, E, own) \subseteq Entered(src, E)
  BY DEF ReadOf
<1>2. IsFiniteSet(ReadOf(src, st, E, own)) /\ Cardinality(ReadOf(src, st, E, own)) \in Nat
  BY <1>1, EnteredIs, FS_Subset, FS_CardinalityType
<1>3. ASSUME NEW d \in E \cup {None}, NEW n \in Costly(src[d])
      PROVE  <<d, n>> \in ReadOf(src, st, E, own) <=>
                    \A k \in 1..Len(st) : own[k] = d => n <= Len(src[d]) - Len(st[k])
  <2>1. <<d, n>> \in Entered(src, E)
    BY EnteredIs
  <2> QED BY <2>1 DEF ReadOf
<1> QED BY <1>1, <1>2, <1>3

\* Two readings of the same terms are equal.
LEMMA ReadEqual ==
    ASSUME NEW src \in Sources, NEW E \in SUBSET Domains, NEW F \in SUBSET Domains,
           NEW S, NEW T, S \subseteq Entered(src, E), T \subseteq Entered(src, F),
           \A d \in E \cup F \cup {None} : \A n \in Costly(src[d]) : <<d, n>> \in S <=> <<d, n>> \in T
    PROVE  S = T
<1>1. ASSUME NEW p \in S PROVE p \in T
  <2>1. PICK d \in E \cup {None} : \E n \in Costly(src[d]) : p = <<d, n>>
    BY EnteredIs
  <2> QED BY <2>1
<1>2. ASSUME NEW p \in T PROVE p \in S
  <2>1. PICK d \in F \cup {None} : \E n \in Costly(src[d]) : p = <<d, n>>
    BY EnteredIs
  <2> QED BY <2>1
<1> QED BY <1>1, <1>2

\* A term is read: it is added to those that have been.
LEMMA TermRead ==
    ASSUME NEW src \in Sources, NEW E \in SUBSET Domains, NEW own,
           stack \in Seq(Records), stack # <<>>, Top # <<>>, Frames(src, stack, E, own)
    PROVE  /\ Frames(src, Rest, E, own)
           /\ Cardinality(ReadOf(src, Rest, E, own)) =
                 Cardinality(ReadOf(src, stack, E, own)) + (IF Costs(Top[1]) THEN 1 ELSE 0)
<1> DEFINE K == Len(stack)
           d0 == own[K]
           rec == src[d0]
           L == Len(rec)
           l == Len(Top)
           r == L - l + 1
           old == ReadOf(src, stack, E, own)
           new == ReadOf(src, Rest, E, own)
<1>1. /\ K \in Nat \ {0} /\ Top \in Records
      /\ \A k \in 1..(K - 1) : stack[k] \in Records
  BY PoppedIs
<1>2. /\ Rest \in Seq(Records) /\ Len(Rest) = K
      /\ \A k \in 1..(K - 1) : Rest[k] = stack[k]
      /\ Rest[K] = Tail(Top)
  BY RestIs
<1>3. /\ l \in Nat \ {0} /\ Tail(Top) \in Records /\ Len(Tail(Top)) = l - 1
      /\ \A m \in 1..(l - 1) : Tail(Top)[m] = Top[m + 1]
  BY <1>1, TailIs
<1>4. /\ own \in [1..K -> E \cup {None}]
      /\ \A j, k \in 1..K : own[j] = own[k] => j = k
      /\ \A k \in 1..K : Suffix(stack[k], src[own[k]])
  BY DEF Frames
<1>5. K \in 1..K /\ stack[K] = Top
  BY <1>1 DEF Top
<1>6. d0 \in E \cup {None} /\ rec \in Records /\ L \in Nat
  <2>1. d0 \in E \cup {None}
    BY <1>4, <1>5
  <2>2. rec \in Records
    BY <2>1 DEF Sources
  <2> QED BY <2>1, <2>2, CostlyIs
<1>7. l <= L /\ \A m \in 1..l : Top[m] = rec[L - l + m]
  <2>1. Suffix(Top, rec)
    BY <1>4, <1>5
  <2> QED BY <2>1 DEF Suffix
<1> HIDE DEF K, d0, rec, L, l
<1>8. r \in 1..L /\ rec[r] = Top[1]
  BY <1>3, <1>6, <1>7
<1>9. \A k \in 1..K : k \in 1..(K - 1) \/ k = K
  BY <1>1
<1>10. Frames(src, Rest, E, own)
  <2>1. Suffix(Tail(Top), rec)
    <3>1. l - 1 <= L
      BY <1>3, <1>6, <1>7
    <3>2. ASSUME NEW m \in 1..(l - 1) PROVE Tail(Top)[m] = rec[L - (l - 1) + m]
      <4>1. m + 1 \in 1..l /\ L - l + (m + 1) = L - (l - 1) + m
        BY <1>3, <1>6
      <4> QED BY <1>3, <1>7, <4>1
    <3> QED BY <1>3, <3>1, <3>2 DEF Suffix, L
  <2>2. ASSUME NEW k \in 1..K PROVE Suffix(Rest[k], src[own[k]])
    <3>1. CASE k = K
      BY <1>2, <2>1, <3>1 DEF rec, d0
    <3>2. CASE k \in 1..(K - 1)
      BY <1>2, <1>4, <3>2
    <3> QED BY <1>9, <3>1, <3>2
  <2> QED BY <1>2, <1>4, <2>2 DEF Frames
<1>11. \A k \in 1..K : k # K => own[k] # d0
  BY <1>4, <1>5 DEF d0
<1>12. ASSUME NEW d \in E \cup {None}, NEW n \in Costly(src[d])
       PROVE  <<d, n>> \in new <=> <<d, n>> \in old \/ (d = d0 /\ n = r)
  <2>0. src[d] \in Records
    BY DEF Sources
  <2>1. <<d, n>> \in old <=> \A k \in 1..K : own[k] = d => n <= Len(src[d]) - Len(stack[k])
    BY ReadIs DEF K
  <2>2. <<d, n>> \in new <=> \A k \in 1..K : own[k] = d => n <= Len(src[d]) - Len(Rest[k])
    BY <1>2, ReadIs
  <2>3. CASE d # d0
    <3>1. \A k \in 1..K : own[k] = d => k \in 1..(K - 1)
      BY <1>9, <2>3 DEF d0
    <3> QED BY <1>2, <2>1, <2>2, <2>3, <3>1
  <2>4. CASE d = d0
    <3>1. <<d, n>> \in old <=> n <= L - l
      BY <1>5, <1>11, <2>1, <2>4 DEF L, l, rec, d0
    <3>2. <<d, n>> \in new <=> n <= L - (l - 1)
      BY <1>2, <1>3, <1>5, <1>11, <2>2, <2>4 DEF L, rec, d0
    <3>3. n \in Nat
      BY <2>0, CostlyIs
    <3> QED BY <1>3, <1>6, <2>4, <3>1, <3>2, <3>3
  <2> QED BY <2>3, <2>4
<1>13. r \in Costly(rec) <=> Costs(Top[1])
  <2>1. \A n \in 1..L : n \in Costly(rec) <=> Costs(rec[n])
    BY <1>6, CostlyIs DEF L
  <2> HIDE DEF r
  <2> QED BY <1>8, <2>1
<1>14. /\ old \subseteq Entered(src, E) /\ IsFiniteSet(old) /\ Cardinality(old) \in Nat
       /\ new \subseteq Entered(src, E)
  BY <1>2, ReadIs
<1>15. CASE Costs(Top[1])
  <2>1. r \in Costly(src[d0])
    BY <1>13, <1>15 DEF rec
  <2>2. <<d0, r>> \in Entered(src, E)
    BY <1>6, <2>1, EnteredIs
  <2>3. <<d0, r>> \notin old
    <3>1. <<d0, r>> \in old => r <= L - l
      BY <1>5, <1>6, <2>1, ReadIs DEF K, L, l, rec, d0
    <3> QED BY <1>3, <1>6, <3>1
  <2>4. \A d \in E \cup E \cup {None} : \A n \in Costly(src[d]) :
           <<d, n>> \in new <=> <<d, n>> \in old \cup {<<d0, r>>}
    BY <1>12
  <2>5. new = old \cup {<<d0, r>>}
    <3>1. old \cup {<<d0, r>>} \subseteq Entered(src, E)
      BY <1>14, <2>2
    <3> HIDE DEF new, old, r
    <3> QED BY <1>14, <2>4, <3>1, ReadEqual
  <2>6. Cardinality(new) = Cardinality(old) + 1
    <3> HIDE DEF new, old, r
    <3> QED BY <1>14, <2>3, <2>5, FS_AddElement
  <2> QED BY <1>10, <1>15, <2>6
<1>16. CASE ~Costs(Top[1])
  <2>1. \A d \in E \cup E \cup {None} : \A n \in Costly(src[d]) : <<d, n>> \in new <=> <<d, n>> \in old
    BY <1>12, <1>13, <1>16 DEF rec
  <2>2. new = old
    <3> HIDE DEF new, old
    <3> QED BY <1>14, <2>1, ReadEqual
  <2> QED BY <1>10, <1>14, <1>16, <2>2
<1> QED BY <1>15, <1>16

\* A record is entered: none of its terms has been read.
LEMMA RecordEntered ==
    ASSUME NEW src \in Sources, NEW E \in SUBSET Domains, NEW own, NEW st \in Seq(Records),
           Frames(src, st, E, own), NEW d \in Domains, d \notin E
    PROVE  \E own2 : /\ Frames(src, Append(st, src[d]), E \cup {d}, own2)
                     /\ ReadOf(src, Append(st, src[d]), E \cup {d}, own2) = ReadOf(src, st, E, own)
<1> DEFINE K == Len(st)
           own2 == [k \in 1..(K + 1) |-> IF k <= K THEN own[k] ELSE d]
           F == E \cup {d}
           st2 == Append(st, src[d])
<1>0. src[d] \in Records /\ d # None /\ F \in SUBSET Domains
  BY SPFAssumption DEF Sources
<1>1. /\ st2 \in Seq(Records) /\ Len(st2) = K + 1 /\ K \in Nat
      /\ \A k \in 1..K : st2[k] = st[k]
      /\ st2[K + 1] = src[d]
  BY <1>0, PushIs
<1>2. /\ own \in [1..K -> E \cup {None}]
      /\ \A j, k \in 1..K : own[j] = own[k] => j = k
      /\ \A k \in 1..K : Suffix(st[k], src[own[k]])
  BY DEF Frames
<1> HIDE DEF K, st2
<1>3. /\ \A k \in 1..K : own2[k] = own[k] /\ own[k] \in E \cup {None} /\ own[k] # d
      /\ own2[K + 1] = d
      /\ \A k \in 1..(K + 1) : k \in 1..K \/ k = K + 1
      /\ \A k \in 1..K : k \in 1..(K + 1)
      /\ K + 1 \in 1..(K + 1)
  BY <1>0, <1>1, <1>2
<1>4. own2 \in [1..(K + 1) -> F \cup {None}]
  <2>1. \A k \in 1..(K + 1) : own2[k] \in F \cup {None}
    BY <1>3
  <2> QED BY <2>1
<1> HIDE DEF own2
<1>5. Suffix(src[d], src[d])
  <2>1. Len(src[d]) \in Nat
    BY <1>0 DEF Records
  <2> QED BY <2>1 DEF Suffix
<1>6. Frames(src, st2, F, own2)
  <2>1. \A j, k \in 1..(K + 1) : own2[j] = own2[k] => j = k
    BY <1>2, <1>3
  <2>2. \A k \in 1..(K + 1) : Suffix(st2[k], src[own2[k]])
    BY <1>1, <1>2, <1>3, <1>5
  <2> QED BY <1>1, <1>4, <2>1, <2>2 DEF Frames
<1> DEFINE old == ReadOf(src, st, E, own)
           new == ReadOf(src, st2, F, own2)
<1>7. old \subseteq Entered(src, E) /\ new \subseteq Entered(src, F)
  BY <1>0, <1>1, ReadIs
<1>8. ASSUME NEW e \in F \cup E \cup {None}, NEW n \in Costly(src[e])
      PROVE  <<e, n>> \in new <=> <<e, n>> \in old
  <2>1. <<e, n>> \in new <=> \A k \in 1..(K + 1) : own2[k] = e => n <= Len(src[e]) - Len(st2[k])
    BY <1>0, <1>1, ReadIs
  <2>2. CASE e = d
    <3>1. n \in Nat \ {0} /\ Len(src[d]) \in Nat
      BY <1>0, <2>2, CostlyIs
    <3>2. ~(n <= Len(src[d]) - Len(src[d]))
      BY <3>1
    <3>3. <<e, n>> \notin new
      BY <1>1, <1>3, <2>1, <2>2, <3>2
    <3>4. <<e, n>> \notin old
      <4>1. SUFFICES ASSUME <<e, n>> \in old PROVE FALSE
        OBVIOUS
      <4>2. \E x \in E \cup {None} : \E m \in Costly(src[x]) : <<e, n>> = <<x, m>>
        BY <1>7, <4>1, EnteredIs
      <4> QED BY <1>0, <2>2, <4>2
    <3> QED BY <3>3, <3>4
  <2>3. CASE e # d
    <3>1. e \in E \cup {None}
      BY <2>3
    <3>2. <<e, n>> \in old <=> \A k \in 1..K : own[k] = e => n <= Len(src[e]) - Len(st[k])
      BY <3>1, ReadIs DEF K
    <3>3. (\A k \in 1..(K + 1) : own2[k] = e => n <= Len(src[e]) - Len(st2[k]))
             <=> (\A k \in 1..K : own[k] = e => n <= Len(src[e]) - Len(st[k]))
      BY <1>1, <1>3, <2>3
    <3> QED BY <2>1, <3>2, <3>3
  <2> QED BY <2>2, <2>3
<1>9. new = old
  <2> HIDE DEF new, old, F
  <2> QED BY <1>0, <1>7, <1>8, ReadEqual
<1> QED BY <1>6, <1>9 DEF F, st2

\* A domain without a record adds no terms.
LEMMA NoRecord ==
    ASSUME NEW src \in Sources, NEW E \in SUBSET Domains, NEW own, NEW st \in Seq(Records),
           Frames(src, st, E, own), NEW d \in Domains, src[d] = <<>>
    PROVE  /\ Frames(src, st, E \cup {d}, own)
           /\ ReadOf(src, st, E \cup {d}, own) = ReadOf(src, st, E, own)
<1> DEFINE F == E \cup {d}
           old == ReadOf(src, st, E, own)
           new == ReadOf(src, st, F, own)
<1>1. Frames(src, st, F, own)
  BY DEF Frames
<1>2. F \in SUBSET Domains /\ src[d] \in Records
  BY DEF Sources
<1>3. old \subseteq Entered(src, E) /\ new \subseteq Entered(src, F)
  BY <1>2, ReadIs
<1>4. Costly(src[d]) = {}
  BY <1>2, CostlyIs
<1>5. ASSUME NEW e \in F \cup E \cup {None}, NEW n \in Costly(src[e])
      PROVE  <<e, n>> \in new <=> <<e, n>> \in old
  <2>1. e \in E \cup {None} /\ e \in F \cup {None}
    BY <1>4
  <2>2. <<e, n>> \in old <=> \A k \in 1..Len(st) : own[k] = e => n <= Len(src[e]) - Len(st[k])
    BY <2>1, ReadIs
  <2>3. <<e, n>> \in new <=> \A k \in 1..Len(st) : own[k] = e => n <= Len(src[e]) - Len(st[k])
    BY <1>2, <2>1, ReadIs
  <2> QED BY <2>2, <2>3
<1>6. new = old
  <2> HIDE DEF new, old, F
  <2> QED BY <1>2, <1>3, <1>5, ReadEqual
<1> QED BY <1>1, <1>6

\* A record is left when all of its terms have been read.
LEMMA RecordLeft ==
    ASSUME NEW src \in Sources, NEW E \in SUBSET Domains, NEW own,
           stack \in Seq(Records), stack # <<>>, Top = <<>>, Frames(src, stack, E, own)
    PROVE  \E own2 : /\ Frames(src, Popped, E, own2)
                     /\ ReadOf(src, Popped, E, own2) = ReadOf(src, stack, E, own)
<1> DEFINE K == Len(stack)
           own2 == [k \in 1..(K - 1) |-> own[k]]
           old == ReadOf(src, stack, E, own)
           new == ReadOf(src, Popped, E, own2)
<1>1. /\ K \in Nat \ {0} /\ Popped \in Seq(Records) /\ Len(Popped) = K - 1
      /\ \A k \in 1..(K - 1) : Popped[k] = stack[k]
  BY PoppedIs
<1>2. /\ own \in [1..K -> E \cup {None}]
      /\ \A j, k \in 1..K : own[j] = own[k] => j = k
      /\ \A k \in 1..K : Suffix(stack[k], src[own[k]])
  BY DEF Frames
<1>3. stack[K] = <<>>
  BY DEF Top
<1> HIDE DEF K
<1>4. /\ \A k \in 1..(K - 1) : own2[k] = own[k] /\ own[k] \in E \cup {None}
      /\ \A k \in 1..K : k \in 1..(K - 1) \/ k = K
      /\ \A k \in 1..(K - 1) : k \in 1..K
  BY <1>1, <1>2
<1>5. own2 \in [1..(K - 1) -> E \cup {None}]
  BY <1>4
<1> HIDE DEF own2
<1>6. Frames(src, Popped, E, own2)
  <2>1. \A j, k \in 1..(K - 1) : own2[j] = own2[k] => j = k
    BY <1>2, <1>4
  <2>2. \A k \in 1..(K - 1) : Suffix(Popped[k], src[own2[k]])
    BY <1>1, <1>2, <1>4
  <2> QED BY <1>1, <1>5, <2>1, <2>2 DEF Frames
<1>7. old \subseteq Entered(src, E) /\ new \subseteq Entered(src, E)
  BY <1>1, ReadIs
<1>8. ASSUME NEW e \in E \cup E \cup {None}, NEW n \in Costly(src[e])
      PROVE  <<e, n>> \in new <=> <<e, n>> \in old
  <2>1. <<e, n>> \in old <=> \A k \in 1..K : own[k] = e => n <= Len(src[e]) - Len(stack[k])
    BY ReadIs DEF K
  <2>2. <<e, n>> \in new <=> \A k \in 1..(K - 1) : own2[k] = e => n <= Len(src[e]) - Len(Popped[k])
    BY <1>1, ReadIs
  <2>3. n <= Len(src[e]) - Len(stack[K])
    <3>1. src[e] \in Records
      BY DEF Sources
    <3>2. n \in 1..Len(src[e]) /\ Len(src[e]) \in Nat
      BY <3>1, CostlyIs
    <3>3. Len(stack[K]) = 0
      BY <1>3
    <3> QED BY <3>2, <3>3
  <2> QED BY <1>1, <1>4, <2>1, <2>2, <2>3
<1>9. new = old
  <2> HIDE DEF new, old
  <2> QED BY <1>7, <1>8, ReadEqual
<1> QED BY <1>6, <1>9

\* When nothing is on the stack, every term has been read.
LEMMA AllRead ==
    ASSUME NEW src \in Sources, NEW E \in SUBSET Domains, NEW own
    PROVE  ReadOf(src, <<>>, E, own) = Entered(src, E)
BY DEF ReadOf

-----------------------------------------------------------------------------
(* The walk that counts.                                                    *)

Src(rec) == [d \in Domains \cup {None} |-> IF d = None THEN rec ELSE First(d)]

\* A walk that has seen sn and counted ct, with st on its stack: it has entered
\* the records of E, and has cut off another only with the limit exceeded.
Walked(src, st, sn, ct, E, own) ==
    /\ E \subseteq sn /\ sn \subseteq Domains
    /\ Frames(src, st, E, own)
    /\ ct = Cardinality(ReadOf(src, st, E, own))
    /\ \A d \in E \cup {None} : Targets(src[d]) \subseteq sn \cup Pending(st)
    /\ E = sn \/ ct > Limit
    /\ ct >= Len(st) - 1

LEMMA WalkStarts ==
    ASSUME NEW src \in Sources
    PROVE  \E own : Walked(src, <<src[None]>>, {}, 0, {}, own)
<1> DEFINE rec == src[None]
           st == <<rec>>
           own == [k \in 1..1 |-> None]
           E == {}
<1>1. rec \in Records /\ Len(rec) \in Nat
  <2>1. rec \in Records
    BY DEF Sources
  <2> QED BY <2>1, CostlyIs
<1>2. st \in Seq(Records) /\ Len(st) = 1 /\ st[1] = rec /\ 1..1 = {1}
  BY <1>1
<1>3. own \in [1..1 -> E \cup {None}] /\ own[1] = None /\ E \in SUBSET Domains
      /\ \A d \in E \cup {None} : d = None
  OBVIOUS
<1> HIDE DEF st, own, E
<1>4. Frames(src, st, E, own)
  BY <1>1, <1>2, <1>3 DEF Frames, Suffix, rec
<1>5. Pending(st) = Targets(rec)
  BY <1>2 DEF Pending
<1>6. ReadOf(src, st, E, own) = {}
  <2>1. ASSUME NEW p \in ReadOf(src, st, E, own) PROVE FALSE
    <3>1. p \in Entered(src, E)
      BY DEF ReadOf
    <3>2. PICK d \in E \cup {None} : \E n \in Costly(src[d]) : p = <<d, n>>
      BY <1>3, <3>1, EnteredIs
    <3>3. PICK n \in Costly(rec) : p = <<None, n>>
      BY <1>3, <3>2 DEF rec
    <3>5. n \in Nat \ {0}
      BY <1>1, <3>3, CostlyIs
    <3>4. n <= Len(rec) - Len(rec)
      BY <1>2, <1>3, <2>1, <3>3 DEF ReadOf, rec
    <3> QED BY <1>1, <3>5, <3>4
  <2> QED BY <2>1
<1>7. Cardinality({}) = 0
  BY FS_EmptySet
<1>8. Walked(src, st, E, 0, E, own)
  <2>1. \A d \in E \cup {None} : Targets(src[d]) \subseteq E \cup Pending(st)
    BY <1>3, <1>5 DEF rec
  <2>2. 0 >= Len(st) - 1
    BY <1>2
  <2> QED BY <1>3, <1>4, <1>6, <1>7, <2>1, <2>2 DEF Walked
<1> QED BY <1>8 DEF st, rec, E

\* A term that leads nowhere new.
LEMMA WalkReads ==
    ASSUME NEW src \in Sources, NEW sn, NEW ct, NEW E, NEW own,
           stack \in Seq(Records), stack # <<>>, Top # <<>>,
           Walked(src, stack, sn, ct, E, own),
           Lookup(Top[1]) => Top[1].dom \in sn
    PROVE  Walked(src, Rest, sn, ct + (IF Costs(Top[1]) THEN 1 ELSE 0), E, own)
<1> DEFINE c == IF Costs(Top[1]) THEN 1 ELSE 0
           ct2 == ct + c
<1>1. /\ E \subseteq sn /\ sn \subseteq Domains
      /\ Frames(src, stack, E, own)
      /\ ct = Cardinality(ReadOf(src, stack, E, own))
      /\ \A d \in E \cup {None} : Targets(src[d]) \subseteq sn \cup Pending(stack)
      /\ E = sn \/ ct > Limit
      /\ ct >= Len(stack) - 1
  BY DEF Walked
<1>2. E \in SUBSET Domains
  BY <1>1
<1>3. /\ Frames(src, Rest, E, own)
      /\ Cardinality(ReadOf(src, Rest, E, own)) = ct2
  BY <1>1, <1>2, TermRead
<1>4. Len(Rest) = Len(stack) /\ Len(stack) \in Nat
      /\ Pending(stack) = Pending(Rest) \cup (IF Lookup(Top[1]) THEN {Top[1].dom} ELSE {})
  BY RestIs
<1>5. ct \in Nat /\ Limit \in Nat
  BY <1>1, <1>2, ReadIs, SPFAssumption
<1>6. c \in {0, 1}
  OBVIOUS
<1> HIDE DEF c
<1>7. \A d \in E \cup {None} : Targets(src[d]) \subseteq sn \cup Pending(Rest)
  BY <1>1, <1>4
<1>8. ct2 >= ct
  BY <1>5, <1>6
<1>9. (ct > Limit => ct2 > Limit) /\ ct2 >= Len(Rest) - 1
  BY <1>1, <1>4, <1>5, <1>6, <1>8
<1> QED BY <1>1, <1>3, <1>7, <1>9 DEF Walked, c

LEMMA RestEntered ==
    ASSUME NEW src \in Sources, NEW E, NEW own, NEW d,
           E \in SUBSET Domains /\ d \in Domains /\ d \notin E,
           Rest \in Seq(Records) /\ Frames(src, Rest, E, own)
    PROVE  \E own2 : /\ Frames(src, Append(Rest, src[d]), E \cup {d}, own2)
                     /\ ReadOf(src, Append(Rest, src[d]), E \cup {d}, own2) = ReadOf(src, Rest, E, own)
BY RecordEntered, Zenon

\* A term that leads to a domain not seen before.  If its record is cut off, the
\* records on the stack have already cost more than the limit.
LEMMA WalkFollows ==
    ASSUME NEW src \in Sources, NEW sn, NEW ct, NEW E, NEW own, NEW recs \in Seq(Records),
           stack \in Seq(Records), stack # <<>>, Top # <<>>,
           Walked(src, stack, sn, ct, E, own),
           Lookup(Top[1]), Top[1].dom \notin sn,
           src[Top[1].dom] = IF recs = <<>> THEN <<>> ELSE recs[1]
    PROVE  \E E2, own2 : Walked(src, Descend(Rest, recs), sn \cup {Top[1].dom}, ct + 1, E2, own2)
<1> DEFINE new == Top[1].dom
           sn2 == sn \cup {new}
           F == E \cup {new}
<1>1. /\ E \subseteq sn /\ sn \subseteq Domains
      /\ Frames(src, stack, E, own)
      /\ ct = Cardinality(ReadOf(src, stack, E, own))
      /\ \A e \in E \cup {None} : Targets(src[e]) \subseteq sn \cup Pending(stack)
      /\ E = sn \/ ct > Limit
      /\ ct >= Len(stack) - 1
  BY DEF Walked
<1>2. E \in SUBSET Domains
  BY <1>1
<1>3. Top[1] \in Terms
  BY PoppedIs, TailIs
<1>4. new \in Domains /\ new \notin sn /\ new \notin E
  BY <1>1, <1>3, TermIs
<1>5. Costs(Top[1])
  BY DEF Costs, Lookup
<1>6. /\ Frames(src, Rest, E, own)
      /\ Cardinality(ReadOf(src, Rest, E, own)) = ct + 1
  BY <1>1, <1>2, <1>5, TermRead
<1>7. /\ Rest \in Seq(Records) /\ Len(Rest) = Len(stack) /\ Len(stack) \in Nat
      /\ Pending(stack) = Pending(Rest) \cup {new}
  BY RestIs
<1>8. ct \in Nat /\ Limit \in Nat /\ MaxDepth \in Nat /\ MaxDepth >= Limit
  BY <1>1, <1>2, ReadIs, SPFAssumption
<1> HIDE DEF new
<1>9. (ct > Limit => ct + 1 > Limit) /\ ct + 1 >= Len(Rest)
  BY <1>1, <1>7, <1>8
<1>10. \A e \in E \cup {None} : Targets(src[e]) \subseteq sn2 \cup Pending(Rest)
  BY <1>1, <1>7
<1>11. sn2 \subseteq Domains /\ E \subseteq sn2 /\ F \subseteq sn2 /\ (E = sn => F = sn2)
  BY <1>1, <1>4
<1>12. CASE recs = <<>>
  <2>1. Descend(Rest, recs) = Rest
    BY <1>12 DEF Descend
  <2>2. src[new] = <<>>
    BY <1>12 DEF new
  <2>3. /\ Frames(src, Rest, F, own)
        /\ ReadOf(src, Rest, F, own) = ReadOf(src, Rest, E, own)
    BY <1>2, <1>4, <1>6, <1>7, <2>2, NoRecord
  <2>4. \A e \in F \cup {None} : Targets(src[e]) \subseteq sn2 \cup Pending(Rest)
    BY <1>10, <2>2, EmptyTargets
  <2>5. ct + 1 >= Len(Rest) - 1
    BY <1>7, <1>8, <1>9
  <2>6. Walked(src, Rest, sn2, ct + 1, F, own)
    BY <1>1, <1>6, <1>9, <1>11, <2>3, <2>4, <2>5 DEF Walked
  <2> QED BY <2>1, <2>6 DEF new
<1>13. CASE recs # <<>> /\ Len(Rest) > MaxDepth
  <2>1. Descend(Rest, recs) = Rest
    BY <1>13 DEF Descend
  <2>2. ct + 1 > Limit
    BY <1>7, <1>8, <1>9, <1>13
  <2>3. ct + 1 >= Len(Rest) - 1
    BY <1>7, <1>8, <1>9
  <2>4. Walked(src, Rest, sn2, ct + 1, E, own)
    BY <1>6, <1>10, <1>11, <2>2, <2>3 DEF Walked
  <2> QED BY <2>1, <2>4 DEF new
<1>14. CASE recs # <<>> /\ ~(Len(Rest) > MaxDepth)
  <2> DEFINE st2 == Append(Rest, src[new])
  <2>1. Descend(Rest, recs) = st2
    BY <1>14 DEF Descend, new
  <2>2. src[new] \in Records
    BY <1>4 DEF Sources
  <2>3. PICK own2 : /\ Frames(src, st2, F, own2)
                    /\ ReadOf(src, st2, F, own2) = ReadOf(src, Rest, E, own)
    BY <1>2, <1>4, <1>6, <1>7, RestEntered
  <2>4. Len(st2) = Len(Rest) + 1 /\ Pending(st2) = Pending(Rest) \cup Targets(src[new])
    BY <1>7, <2>2, PushIs
  <2> HIDE DEF st2
  <2>5. \A e \in F \cup {None} : Targets(src[e]) \subseteq sn2 \cup Pending(st2)
    BY <1>10, <2>4
  <2>6. ct + 1 >= Len(st2) - 1
    BY <1>7, <1>8, <1>9, <2>4
  <2>7. Walked(src, st2, sn2, ct + 1, F, own2)
    BY <1>1, <1>6, <1>9, <1>11, <2>3, <2>5, <2>6 DEF Walked
  <2> QED BY <2>1, <2>7 DEF new
<1> QED BY <1>12, <1>13, <1>14

\* A record that has been read.
LEMMA WalkReturns ==
    ASSUME NEW src \in Sources, NEW sn, NEW ct, NEW E, NEW own,
           stack \in Seq(Records), stack # <<>>, Top = <<>>,
           Walked(src, stack, sn, ct, E, own)
    PROVE  \E own2 : Walked(src, Popped, sn, ct, E, own2)
<1>1. /\ E \subseteq sn /\ sn \subseteq Domains
      /\ Frames(src, stack, E, own)
      /\ ct = Cardinality(ReadOf(src, stack, E, own))
      /\ \A d \in E \cup {None} : Targets(src[d]) \subseteq sn \cup Pending(stack)
      /\ E = sn \/ ct > Limit
      /\ ct >= Len(stack) - 1
  BY DEF Walked
<1>2. E \in SUBSET Domains
  BY <1>1
<1>3. PICK own2 : /\ Frames(src, Popped, E, own2)
                  /\ ReadOf(src, Popped, E, own2) = ReadOf(src, stack, E, own)
  BY <1>1, <1>2, RecordLeft, Zenon
<1>4. /\ Len(stack) \in Nat /\ Len(Popped) = Len(stack) - 1
      /\ Pending(stack) = Pending(Popped) \cup Targets(Top)
  BY PoppedIs
<1>5. ct \in Nat
  BY <1>1, <1>2, ReadIs
<1>6. Pending(stack) = Pending(Popped)
  BY <1>4, EmptyTargets
<1>7. ct >= Len(Popped) - 1
  BY <1>1, <1>4, <1>5
<1>8. Walked(src, Popped, sn, ct, E, own2)
  BY <1>1, <1>3, <1>6, <1>7 DEF Walked
<1> QED BY <1>8

LEMMA SrcIs ==
    ASSUME NEW rec \in Records, net \in Nets
    PROVE  /\ Src(rec) \in Sources /\ Src(rec)[None] = rec
           /\ \A d \in Domains : /\ net[d] \in Seq(Records)
                                 /\ First(d) \in Records /\ Src(rec)[d] = First(d) /\ Firsts[d] = First(d)
                                 /\ Joins[d] = Joined(net[d]) /\ Joined(net[d]) \in Records
           /\ Firsts \in [Domains -> Records] /\ Joins \in [Domains -> Records]
<1>1. \A d \in Domains : net[d] \in Seq(Records)
  BY SPFAssumption
<1>2. ASSUME NEW d \in Domains PROVE First(d) \in Records
  <2>1. CASE net[d] = <<>>
    BY <2>1 DEF First, Records
  <2>2. CASE net[d] # <<>>
    <3>1. net[d] \in Seq(Records) /\ 1 \in 1..Len(net[d])
      BY <1>1, <2>2, EmptySeq
    <3>2. net[d][1] \in Records
      BY <3>1
    <3> QED BY <2>2, <3>2 DEF First
  <2> QED BY <2>1, <2>2
<1>3. \A d \in Domains : Joined(net[d]) \in Records
  BY <1>1, JoinedType
<1>4. None \notin Domains
  BY SPFAssumption
<1>5. Src(rec)[None] = rec /\ \A d \in Domains : Src(rec)[d] = First(d)
  BY <1>4 DEF Src
<1>6. Src(rec) \in Sources
  BY <1>2 DEF Src, Sources
<1> QED BY <1>1, <1>2, <1>3, <1>5, <1>6 DEF Firsts, Joins

\* The total is the number of all the terms that can be read.
LEMMA TotalOf ==
    ASSUME NEW rec \in Records, NEW record \in [Domains -> Records],
           NEW src \in Sources, src[None] = rec, \A d \in Domains : src[d] = record[d]
    PROVE  /\ Total(rec, record) = Cardinality(Entered(src, Reach(rec, record)))
           /\ Total(rec, record) \in Nat /\ CountSPFLookups(rec) \in Nat
           /\ CountSPFLookups(rec) <= Total(rec, record)
<1> DEFINE R == Reach(rec, record)
           A == {None} \X Costly(rec)
           B == UNION {{d} \X Costly(record[d]) : d \in R}
<1>1. R \in SUBSET Domains
  BY ReachIsLeast
<1>2. None \notin Domains
  BY SPFAssumption
<1>3. \A d \in R : src[d] = record[d]
  BY <1>1
<1> HIDE DEF R
<1>4. IsFiniteSet(Entered(src, R)) /\ Cardinality(Entered(src, R)) \in Nat
  BY <1>1, EnteredIs, FS_CardinalityType
<1>5. Entered(src, R) = A \cup B
  <2>1. {{d} \X Costly(src[d]) : d \in R \cup {None}} = {A} \cup {{d} \X Costly(record[d]) : d \in R}
    BY <1>3
  <2> QED BY <2>1 DEF Entered
<1>6. A \cap B = {}
  <2>1. ASSUME NEW p \in A, p \in B PROVE FALSE
    <3>1. PICK d \in R : p \in {d} \X Costly(record[d])
      BY <2>1
    <3>2. p[1] = d /\ p[1] = None
      BY <2>1, <3>1
    <3> QED BY <1>1, <1>2, <3>2
  <2> QED BY <2>1
<1>7. IsFiniteSet(Costly(rec)) /\ IsFiniteSet({None}) /\ Cardinality({None}) = 1
  BY CostlyIs, FS_Singleton
<1>8. IsFiniteSet(A) /\ Cardinality(A) = Cardinality({None}) * Cardinality(Costly(rec))
      /\ Cardinality(Costly(rec)) \in Nat
  BY <1>7, FS_Product, FS_CardinalityType
<1>9. Cardinality(A) = CountSPFLookups(rec)
  BY <1>7, <1>8 DEF CountSPFLookups
<1>10. B \subseteq Entered(src, R)
  BY <1>5
<1> HIDE DEF A, B
<1>11. IsFiniteSet(B) /\ Cardinality(B) \in Nat
  BY <1>4, <1>10, FS_Subset, FS_CardinalityType
<1>12. Cardinality(A \cup B) = Cardinality(A) + Cardinality(B) - Cardinality(A \cap B)
  BY <1>8, <1>11, FS_Union
<1>13. Cardinality(A \cap B) = 0
  BY <1>6, FS_EmptySet
<1>14. Total(rec, record) = Cardinality(A) + Cardinality(B)
  BY <1>9 DEF Total, B, R
<1>15. Cardinality(A) \in Nat
  BY <1>8, FS_CardinalityType
<1> QED BY <1>4, <1>5, <1>9, <1>11, <1>12, <1>13, <1>14, <1>15 DEF R

\* What the walk may count: the records as it reads them.
Cost(rec) == Total(rec, Firsts)

LEMMA TotalIs ==
    ASSUME NEW rec \in Records, net \in Nets
    PROVE  /\ Cost(rec) = Cardinality(Entered(Src(rec), Reach(rec, Firsts)))
           /\ Cost(rec) \in Nat /\ CountSPFLookups(rec) \in Nat /\ CountSPFLookups(rec) <= Cost(rec)
<1>1. /\ Firsts \in [Domains -> Records] /\ Src(rec) \in Sources /\ Src(rec)[None] = rec
      /\ \A d \in Domains : Src(rec)[d] = Firsts[d]
  BY SrcIs
<1> QED BY <1>1, TotalOf DEF Cost

\* Read as receivers do, a record costs and leads to no less, and the same if it
\* has no term that is misread.
LEMMA ReceivedIs ==
    ASSUME NEW rec \in Records
    PROVE  /\ AsReceived(rec) \in Records
           /\ Costly(rec) \subseteq Costly(AsReceived(rec))
           /\ Targets(rec) \subseteq Targets(AsReceived(rec))
           /\ (\A t \in Range(rec) : ~Misread(t)) => AsReceived(rec) = rec
<1>1. rec \in Seq(Terms) /\ Len(rec) \in Nat
  BY DEF Records
<1>2. ASSUME NEW t \in Terms
      PROVE  /\ Received(t) \in Terms
             /\ Costs(t) => Costs(Received(t))
             /\ Lookup(t) => Received(t) = t
             /\ ~Misread(t) => Received(t) = t
  <2>1. CASE t.kind = "+include"
    <3>1. t.dom \in Domains /\ Received(t) = Include(t.dom)
      BY <1>2, <2>1 DEF Terms, Kinds, All, Received
    <3>2. ~Costs(t) /\ ~Lookup(t) /\ Misread(t)
      BY <2>1 DEF Costs, Lookup, Follow, Misread
    <3> QED BY <3>1, <3>2, TermIs
  <2>2. CASE t.kind = "ptr"
    <3>1. Received(t) = Term("a") /\ "a" \in Kinds
      BY <2>2 DEF Received, Kinds
    <3>2. ~Costs(t) /\ ~Lookup(t) /\ Misread(t)
      BY <2>2 DEF Costs, Lookup, Follow, Misread
    <3> QED BY <3>1, <3>2, TermIs
  <2>3. CASE t.kind \notin {"+include", "ptr"}
    BY <1>2, <2>3 DEF Received, Misread
  <2> QED BY <2>1, <2>2, <2>3
<1> DEFINE new == AsReceived(rec)
<1>3. /\ new \in Seq(Terms) /\ Len(new) = Len(rec)
      /\ \A k \in 1..Len(rec) : rec[k] \in Terms /\ new[k] = Received(rec[k])
  <2>1. \A k \in 1..Len(rec) : rec[k] \in Terms /\ Received(rec[k]) \in Terms
    BY <1>1, <1>2
  <2> QED BY <1>1, <2>1 DEF AsReceived
<1> HIDE DEF new
<1>4. Costly(rec) \subseteq Costly(new)
  BY <1>2, <1>3 DEF Costly
<1>5. Targets(rec) \subseteq Targets(new)
  <2>1. ASSUME NEW t \in Range(rec), Lookup(t) PROVE t \in Range(new)
    <3>1. PICK k \in 1..Len(rec) : t = rec[k]
      BY <1>1, RangeIs
    <3>2. new[k] = t
      BY <1>2, <1>3, <2>1, <3>1
    <3> QED BY <1>3, <3>1, <3>2, RangeIs
  <2> QED BY <2>1 DEF Targets
<1>6. ASSUME \A t \in Range(rec) : ~Misread(t) PROVE new = rec
  <2>1. \A k \in 1..Len(rec) : rec[k] \in Range(rec)
    BY <1>1, RangeIs
  <2>2. \A k \in 1..Len(rec) : new[k] = rec[k]
    BY <1>2, <1>3, <1>6, <2>1
  <2> QED BY <1>1, <1>3, <2>2
<1> QED BY <1>3, <1>4, <1>5, <1>6 DEF new, Records

\* Receivers look up no less than the walk may count, and no more if the walk
\* overlooks nothing.
LEMMA ReceiversLookUp ==
    ASSUME NEW rec \in Records, net \in Nets
    PROVE  /\ RFCTotal(rec) \in Nat /\ Cost(rec) \in Nat /\ Cost(rec) <= RFCTotal(rec)
           /\ ~Overlooks(rec) => RFCTotal(rec) = Cost(rec)
<1> DEFINE got == AsReceived(rec)
           gets == [d \in Domains |-> AsReceived(First(d))]
           src == [d \in Domains \cup {None} |-> IF d = None THEN got ELSE gets[d]]
           R == Reach(rec, Firsts)
           G == Reach(got, gets)
<1>1. /\ Firsts \in [Domains -> Records] /\ Src(rec) \in Sources /\ Src(rec)[None] = rec
      /\ \A d \in Domains : Src(rec)[d] = Firsts[d] /\ Firsts[d] = First(d)
  BY SrcIs DEF Firsts
<1>2. None \notin Domains /\ got \in Records /\ gets \in [Domains -> Records]
  BY <1>1, ReceivedIs, SPFAssumption
<1>3. src \in Sources /\ src[None] = got /\ \A d \in Domains : src[d] = gets[d] /\ gets[d] = AsReceived(Firsts[d])
  BY <1>1, <1>2 DEF Sources
<1> HIDE DEF src, gets, got
<1>4. /\ R \in SUBSET Domains /\ Closed(R, rec, Firsts)
      /\ \A S \in SUBSET Domains : Closed(S, rec, Firsts) => R \subseteq S
  BY <1>1, ReachIsLeast
<1>5. /\ G \in SUBSET Domains /\ Closed(G, got, gets)
      /\ \A S \in SUBSET Domains : Closed(S, got, gets) => G \subseteq S
  BY <1>2, ReachIsLeast
<1>6. /\ RFCTotal(rec) = Cardinality(Entered(src, G)) /\ RFCTotal(rec) \in Nat
  BY <1>2, <1>3, TotalOf DEF RFCTotal, got, gets
<1>7. Cost(rec) = Cardinality(Entered(Src(rec), R)) /\ Cost(rec) \in Nat
  BY TotalIs
<1> HIDE DEF R, G
<1>8. R \subseteq G
  <2>1. Targets(rec) \subseteq G
    BY <1>5, ReceivedIs DEF Closed, got
  <2>2. \A d \in G : Targets(Firsts[d]) \subseteq G
    BY <1>1, <1>3, <1>5, ReceivedIs DEF Closed
  <2> QED BY <1>4, <1>5, <2>1, <2>2 DEF Closed
<1>9. Entered(Src(rec), R) \subseteq Entered(src, G)
  <2>1. \A d \in Domains \cup {None} : Costly(Src(rec)[d]) \subseteq Costly(src[d])
    BY <1>1, <1>3, ReceivedIs DEF got
  <2>2. ASSUME NEW p \in Entered(Src(rec), R) PROVE p \in Entered(src, G)
    <3>1. PICK d \in R \cup {None} : \E n \in Costly(Src(rec)[d]) : p = <<d, n>>
      BY <1>1, <1>4, EnteredIs
    <3>2. PICK n \in Costly(Src(rec)[d]) : p = <<d, n>>
      BY <3>1
    <3>3. d \in G \cup {None} /\ n \in Costly(src[d])
      BY <1>4, <1>8, <2>1, <3>1, <3>2
    <3> QED BY <1>3, <1>5, <3>2, <3>3, EnteredIs
  <2> QED BY <2>2
<1>10. Cost(rec) <= RFCTotal(rec)
  BY <1>3, <1>5, <1>6, <1>7, <1>9, EnteredIs, FS_Subset
<1>11. ASSUME ~Overlooks(rec) PROVE RFCTotal(rec) = Cost(rec)
  <2>1. /\ \A t \in Range(rec) : ~Misread(t)
        /\ \A d \in R : \A t \in Range(Firsts[d]) : ~Misread(t)
    BY <1>1, <1>2, <1>4, <1>11 DEF Overlooks, R
  <2>2. got = rec /\ \A d \in R : gets[d] = Firsts[d]
    BY <1>1, <1>3, <1>4, <2>1, ReceivedIs DEF got
  <2>3. Closed(R, got, gets)
    BY <1>4, <2>2 DEF Closed
  <2>4. G = R
    BY <1>4, <1>5, <1>8, <2>3
  <2>5. \A d \in R \cup {None} : src[d] = Src(rec)[d]
    BY <1>1, <1>3, <1>4, <2>2
  <2>6. Entered(src, R) = Entered(Src(rec), R)
    <3>1. {{d} \X Costly(src[d]) : d \in R \cup {None}} = {{d} \X Costly(Src(rec)[d]) : d \in R \cup {None}}
      BY <2>5
    <3> QED BY <3>1 DEF Entered
  <2> QED BY <1>6, <1>7, <2>4, <2>6
<1> QED BY <1>6, <1>7, <1>10, <1>11

\* Fewer domains, fewer terms.
LEMMA EnteredGrows ==
    ASSUME NEW src \in Sources, NEW E \in SUBSET Domains, NEW F \in SUBSET Domains, E \subseteq F
    PROVE  Cardinality(Entered(src, E)) <= Cardinality(Entered(src, F))
<1>1. Entered(src, E) \subseteq Entered(src, F)
  BY DEF Entered
<1> QED BY <1>1, EnteredIs, FS_Subset

\* A walk that is at its end: if nothing was cut off, it has seen and counted
\* all there is; if something was, the limit had been exceeded before.
LEMMA WalkEnds ==
    ASSUME NEW rec \in Records, net \in Nets, NEW sn, NEW ct, NEW E, NEW own,
           Walked(Src(rec), <<>>, sn, ct, E, own), sn \subseteq Reach(rec, Firsts)
    PROVE  ct \in Nat /\ ct <= Cost(rec) /\ (Cost(rec) > Limit => ct > Limit)
<1> DEFINE R == Reach(rec, Firsts)
<1>1. /\ E \subseteq sn /\ sn \subseteq Domains
      /\ ct = Cardinality(ReadOf(Src(rec), <<>>, E, own))
      /\ \A d \in E \cup {None} : Targets(Src(rec)[d]) \subseteq sn \cup Pending(<<>>)
      /\ E = sn \/ ct > Limit
  BY DEF Walked
<1>2. /\ Src(rec) \in Sources /\ Src(rec)[None] = rec /\ E \in SUBSET Domains
      /\ \A d \in Domains : Src(rec)[d] = Firsts[d]
  BY <1>1, SrcIs
<1>3. ct = Cardinality(Entered(Src(rec), E))
  BY <1>1, <1>2, AllRead
<1>4. /\ R \subseteq Domains
      /\ \A S \in SUBSET Domains : Closed(S, rec, Firsts) => R \subseteq S
  BY SrcIs, ReachIsLeast
<1>5. Cost(rec) = Cardinality(Entered(Src(rec), R)) /\ Cost(rec) \in Nat
  BY TotalIs
<1> HIDE DEF R
<1>6. ct \in Nat /\ ct <= Cost(rec)
  <2>1. E \subseteq R
    BY <1>1 DEF R
  <2>2. Cardinality(Entered(Src(rec), E)) <= Cardinality(Entered(Src(rec), R))
    BY <1>2, <1>4, <2>1, EnteredGrows
  <2>3. Cardinality(Entered(Src(rec), E)) \in Nat
    BY <1>2, EnteredIs, FS_CardinalityType
  <2> QED BY <1>3, <1>5, <2>2, <2>3
<1>7. CASE E = sn
  <2>1. Pending(<<>>) = {}
    BY DEF Pending
  <2>2. Closed(sn, rec, Firsts)
    <3>1. Targets(rec) \subseteq sn
      BY <1>1, <1>2, <2>1
    <3>2. \A d \in sn : Targets(Firsts[d]) \subseteq sn
      BY <1>1, <1>2, <1>7, <2>1
    <3> QED BY <3>1, <3>2 DEF Closed
  <2>3. sn = R
    BY <1>1, <1>4, <2>2 DEF R
  <2> QED BY <1>3, <1>5, <1>6, <1>7, <2>3
<1> QED BY <1>1, <1>6, <1>7

-----------------------------------------------------------------------------
(* The invariant.                                                           *)

\* While it counts, the walk has counted the terms it has read, all of them
\* terms of records that are to be reached.
CountingOK ==
    phase = "count" =>
        /\ \E E \in SUBSET seen : \E own \in [1..Len(stack) -> E \cup {None}] :
              Walked(Src(value), stack, seen, count, E, own)
        /\ seen \cup Pending(stack) \subseteq Reach(value, Firsts)

\* The infrastructures that leave it open whether SES is behind a domain.
Open == {"unknown", "mixed"}
Leads(d) == d = SES \/ SES \in Reach(Joined(net[d]), Joins)

\* While it searches, the walk has not seen SES, and nothing that a domain seen
\* leads to is lost, unless it was cut off or could not be looked up.
SearchingOK ==
    phase = "search" =>
        /\ todo # <<>> /\ Infra[todo[1]] \in Open /\ todo[1] # SES
        /\ todo[1] \in seen /\ SES \notin seen
        /\ Pending(stack) \subseteq Reach(Joined(net[todo[1]]), Joins)
        /\ ~capped /\ ~warned => \A d \in seen : Targets(Joins[d]) \subseteq seen \cup Pending(stack)

\* The count says exactly whether what it may count exceeds the limit.
CountExact ==
    MergeDone =>
        /\ count > Limit => Cost(value) > Limit
        /\ deep /\ ~warned /\ Cost(value) > Limit => count > Limit

WalkInv ==
    /\ SPFTypeOK
    /\ phase = "start" => stack = <<>> /\ seen = {} /\ count = 0
    /\ phase # "start" => value = Merged(current, includes)
    /\ CountingOK /\ CountExact
    /\ SearchingOK /\ SESExact

LEMMA Inputs ==
    ASSUME SPFTypeOK
    PROVE  /\ Mergeable(current, includes)
           /\ \A d \in Domains : Infra[d] \in Infrastructures
           /\ net \in Nets /\ value \in Records /\ stack \in Seq(Records) /\ seen \subseteq Domains
           /\ Limit \in Nat /\ MaxDepth \in Nat
<1>1. current \in Currents /\ includes \in Wishes
  BY DEF SPFTypeOK
<1>2. Mergeable(current, includes)
  BY <1>1, SPFAssumption DEF Mergeable
<1> QED BY <1>2, SPFAssumption DEF SPFTypeOK

LEMMA WalkInit == SPFInit => WalkInv
<1> SUFFICES ASSUME SPFInit PROVE WalkInv
  OBVIOUS
<1> USE DEF SPFInit
<1>1. <<>> \in Records /\ <<>> \in Seq(Records) /\ <<>> \in Seq(Domains) /\ <<>> \in Seq(Senders)
  BY DEF Records
<1>2. Len(<<>>) = 0 /\ 0 \in Nat /\ MaxDepth \in Nat /\ MaxFaults \in Nat
  BY SPFAssumption
<1>3. SPFTypeOK
  <2>1. net \in Nets /\ current \in Currents /\ includes \in Wishes /\ deep \in BOOLEAN
    OBVIOUS
  <2>2. value \in Records /\ stack \in Seq(Records) /\ todo \in Seq(Domains) /\ senders \in Seq(Senders)
    BY <1>1
  <2>3. Len(stack) <= MaxDepth + 1 /\ faults \in 0..MaxFaults
    BY <1>2
  <2>4. seen \subseteq Domains /\ count \in Nat /\ warned \in BOOLEAN /\ capped \in BOOLEAN /\ phase = "start"
    BY <1>2
  <2> QED BY <2>1, <2>2, <2>3, <2>4 DEF SPFTypeOK
<1>4. Range(senders) = {}
  BY DEF Range
<1> QED BY <1>3, <1>4 DEF WalkInv, CountingOK, CountExact, MergeDone, SearchingOK, SESExact

\* What a merge of the current state's inputs gives stays the same.
LEMMA SameInput ==
    ASSUME UNCHANGED <<input, value>>
    PROVE  /\ Cost(value)' = Cost(value)
           /\ Src(value)' = Src(value) /\ Reach(value, Firsts)' = Reach(value, Firsts)
           /\ Merged(current, includes)' = Merged(current, includes)
           /\ \A d : Leads(d)' <=> Leads(d)
BY DEF input, Cost, Total, Src, First, Firsts, Leads, Joins

LEMMA MergeInv == WalkInv /\ MergeSPF => WalkInv'
<1> SUFFICES ASSUME WalkInv, MergeSPF PROVE WalkInv'
  OBVIOUS
<1> DEFINE new == Merged(current, includes)
<1>1. SPFTypeOK /\ stack = <<>> /\ seen = {} /\ count = 0 /\ phase = "start" /\ SESExact
  BY DEF WalkInv, MergeSPF
<1>2. new \in Records
  BY <1>1, Inputs, MergedOK
<1>3. value' = new /\ UNCHANGED <<input, seen, faults, warned, todo, capped, senders>>
  BY DEF MergeSPF
<1>4. UNCHANGED <<net, current, includes, deep>>
  BY <1>3 DEF input
<1>5. value' = Merged(current, includes)'
  BY <1>3, <1>4 DEF Merged, Additions, Inserted
<1>6. SESExact'
  BY <1>1, <1>3, <1>4 DEF SESExact, Joins
<1>7. net \in Nets
  BY <1>1, Inputs
<1>8. CountSPFLookups(new) \in Nat /\ CountSPFLookups(new) <= Cost(new) /\ Cost(new) \in Nat
  BY <1>2, <1>7, TotalIs
<1>9. Cost(value)' = Cost(new)
  BY <1>3, <1>4 DEF Cost, Total, First, Firsts
<1>10. Limit \in Nat /\ MaxDepth \in Nat
  BY SPFAssumption
<1>11. CASE deep
  <2>1. phase' = "count" /\ stack' = <<new>> /\ count' = 0
    BY <1>1, <1>3, <1>11 DEF MergeSPF
  <2>2. <<new>> \in Seq(Records) /\ Len(<<new>>) = 1 /\ <<new>> # <<>>
    BY <1>2
  <2>3. SPFTypeOK'
    BY <1>1, <1>2, <1>3, <1>4, <1>10, <2>1, <2>2 DEF SPFTypeOK
  <2>4. Src(new) \in Sources /\ Src(new)[None] = new
    BY <1>2, <1>7, SrcIs
  <2>5. PICK own : Walked(Src(new), <<new>>, {}, 0, {}, own)
    BY <2>4, WalkStarts
  <2>6. own \in [1..Len(<<new>>) -> {} \cup {None}]
    BY <2>5 DEF Walked, Frames
  <2>7. Src(value)' = Src(new)
    BY <1>3, <1>4 DEF Src, First
  <2>8. Pending(<<new>>) \subseteq Reach(new, Firsts)
    <3>1. Closed(Reach(new, Firsts), new, Firsts)
      BY <1>2, <1>7, SrcIs, ReachIsLeast
    <3>2. Pending(<<new>>) = Targets(new)
      BY <2>2 DEF Pending
    <3> QED BY <3>1, <3>2 DEF Closed
  <2>9. Reach(value, Firsts)' = Reach(new, Firsts)
    BY <1>3, <1>4 DEF Firsts, First
  <2>10. CountingOK'
    <3>1. Pending(stack)' = Pending(<<new>>)
      BY <2>1
    <3>2. Walked(Src(value), stack, seen, count, {}, own)'
      BY <1>1, <1>3, <2>1, <2>5, <2>7
    <3>3. own \in [1..Len(stack') -> {} \cup {None}]
      BY <2>1, <2>6
    <3> QED BY <1>1, <1>3, <2>8, <2>9, <3>1, <3>2, <3>3 DEF CountingOK
  <2> QED BY <1>5, <1>6, <2>1, <2>3, <2>10 DEF WalkInv, CountExact, MergeDone, SearchingOK
<1>12. CASE ~deep
  <2>1. phase' = "merged" /\ stack' = <<>> /\ count' = CountSPFLookups(new)
    BY <1>1, <1>3, <1>12 DEF MergeSPF
  <2>2. SPFTypeOK'
    BY <1>1, <1>2, <1>3, <1>4, <1>8, <2>1 DEF SPFTypeOK
  <2>3. CountExact'
    BY <1>4, <1>8, <1>9, <1>10, <1>12, <2>1 DEF CountExact
  <2> QED BY <1>5, <1>6, <2>1, <2>2, <2>3 DEF WalkInv, CountingOK, SearchingOK
<1> QED BY <1>11, <1>12

LEMMA DescendIs ==
    ASSUME NEW st \in Seq(Records), NEW recs \in Seq(Records), Len(st) <= MaxDepth + 1, st # <<>>
    PROVE  /\ Descend(st, recs) \in Seq(Records) /\ Descend(st, recs) # <<>>
           /\ Len(Descend(st, recs)) <= MaxDepth + 1
           /\ Pending(Descend(st, recs)) \subseteq
                 Pending(st) \cup Targets(IF recs = <<>> THEN <<>> ELSE recs[1])
<1>1. CASE recs = <<>> \/ Len(st) > MaxDepth
  <2>1. Descend(st, recs) = st
    BY <1>1 DEF Descend
  <2> QED BY <2>1
<1>2. CASE recs # <<>> /\ ~(Len(st) > MaxDepth)
  <2>1. Descend(st, recs) = Append(st, recs[1])
    BY <1>2 DEF Descend
  <2>2. recs[1] \in Records
    <3>1. 1 \in 1..Len(recs)
      BY <1>2, EmptySeq
    <3> QED BY <3>1
  <2>3. /\ Append(st, recs[1]) \in Seq(Records)
        /\ Len(Append(st, recs[1])) = Len(st) + 1 /\ Len(st) \in Nat
        /\ Pending(Append(st, recs[1])) = Pending(st) \cup Targets(recs[1])
    BY <2>2, PushIs
  <2>4. Append(st, recs[1]) # <<>>
    BY <2>2, AppendProperties
  <2>5. Len(st) + 1 <= MaxDepth + 1
    BY <1>2, <2>3, SPFAssumption
  <2> QED BY <1>2, <2>1, <2>3, <2>4, <2>5
<1> QED BY <1>1, <1>2

\* The step that counts a term: what it leaves of the walk.
LEMMA CountStep ==
    ASSUME NEW sn, NEW st, NEW ct,
           SPFTypeOK', UNCHANGED <<input, value>>,
           phase' = "count", stack' = st, seen' = sn, count' = ct,
           NEW E, NEW own, Walked(Src(value), st, sn, ct, E, own),
           sn \cup Pending(st) \subseteq Reach(value, Firsts)
    PROVE  CountingOK'
<1>1. Src(value)' = Src(value) /\ Reach(value, Firsts)' = Reach(value, Firsts)
  BY SameInput
<1>2. E \in SUBSET sn /\ own \in [1..Len(st) -> E \cup {None}]
  BY DEF Walked, Frames
<1>3. Walked(Src(value), stack, seen, count, E, own)'
  BY <1>1
<1>4. Pending(stack)' = Pending(st)
  OBVIOUS
<1> QED BY <1>1, <1>2, <1>3, <1>4 DEF CountingOK

\* What stays when neither the inputs, the record nor the senders change.
LEMMA SameResults ==
    ASSUME WalkInv, UNCHANGED <<input, value, senders>>, phase # "start", phase' # "start",
           SPFTypeOK', CountingOK', SearchingOK', CountExact'
    PROVE  WalkInv'
<1>1. value' = Merged(current, includes)'
  BY SameInput DEF WalkInv
<1>2. SESExact'
  BY DEF WalkInv, SESExact, input, Joins
<1> QED BY <1>1, <1>2 DEF WalkInv

LEMMA CountTermInv == WalkInv /\ CountTerm => WalkInv'
<1> SUFFICES ASSUME WalkInv, CountTerm PROVE WalkInv'
  OBVIOUS
<1> DEFINE next == Top[1].dom
           more == IF Costs(Top[1]) THEN 1 ELSE 0
           ct == count + more
<1>1. SPFTypeOK /\ CountingOK /\ phase = "count" /\ Top # <<>>
  BY DEF WalkInv, CountTerm
<1>2. /\ count' = ct
      /\ UNCHANGED <<input, value, phase, faults, warned, todo, capped, senders>>
  BY DEF CountTerm
<1>3. UNCHANGED <<net, current, includes, deep>>
  BY <1>2 DEF input
<1>4. stack \in Seq(Records) /\ stack # <<>> /\ seen \subseteq Domains /\ net \in Nets /\ value \in Records
      /\ count \in Nat /\ Len(stack) <= MaxDepth + 1
  BY <1>1 DEF SPFTypeOK
<1>5. /\ Src(value) \in Sources
      /\ \A d \in Domains : net[d] \in Seq(Records) /\ Src(value)[d] = First(d) /\ Firsts[d] = First(d)
  BY <1>4, SrcIs
<1>6. PICK E, own : Walked(Src(value), stack, seen, count, E, own)
  BY <1>1 DEF CountingOK
<1>7. seen \cup Pending(stack) \subseteq Reach(value, Firsts)
  BY <1>1 DEF CountingOK
<1>8. /\ Rest \in Seq(Records) /\ Len(Rest) = Len(stack) /\ Len(stack) \in Nat
      /\ Pending(stack) = Pending(Rest) \cup (IF Lookup(Top[1]) THEN {next} ELSE {})
  BY <1>1, <1>4, RestIs
<1>9. Rest # <<>> /\ Len(Rest) <= MaxDepth + 1
  BY <1>4, <1>8, EmptySeq
<1>10. Top[1] \in Terms
  BY <1>1, <1>4, PoppedIs, TailIs
<1>11. ct \in Nat
  BY <1>4
<1> HIDE DEF next
<1>12. CASE ~(Lookup(Top[1]) /\ next \notin seen)
  <2>1. stack' = Rest /\ seen' = seen
    BY <1>12 DEF CountTerm, next
  <2>2. Walked(Src(value), Rest, seen, ct, E, own)
    BY <1>1, <1>4, <1>5, <1>6, <1>12, WalkReads DEF next
  <2> HIDE DEF ct
  <2>3. SPFTypeOK'
    BY <1>1, <1>2, <1>3, <1>8, <1>9, <1>11, <2>1 DEF SPFTypeOK
  <2>4. seen \cup Pending(Rest) \subseteq Reach(value, Firsts)
    BY <1>7, <1>8
  <2>5. CountingOK'
    BY <1>1, <1>2, <2>1, <2>2, <2>3, <2>4, CountStep
  <2> QED BY <1>1, <1>2, <2>3, <2>5, SameResults DEF SearchingOK, CountExact, MergeDone
<1>13. CASE Lookup(Top[1]) /\ next \notin seen
  <2> DEFINE recs == net[next]
             st == Descend(Rest, recs)
             sn == seen \cup {next}
  <2>1. stack' = st /\ seen' = sn
    BY <1>13 DEF CountTerm, next
  <2>2. next \in Domains /\ recs \in Seq(Records)
        /\ Src(value)[next] = IF recs = <<>> THEN <<>> ELSE recs[1]
    BY <1>5, <1>10, <1>13, TermIs DEF First, next
  <2>3. more = 1
    BY <1>13 DEF Costs, Lookup
  <2>4. PICK E2, own2 : Walked(Src(value), st, sn, ct, E2, own2)
    <3> HIDE DEF recs
    <3>1. \E E2, own2 : Walked(Src(value), Descend(Rest, recs), seen \cup {Top[1].dom}, count + 1, E2, own2)
      BY <1>1, <1>4, <1>5, <1>6, <1>13, <2>2, WalkFollows DEF next
    <3> QED BY <2>3, <3>1 DEF next
  <2>5. /\ st \in Seq(Records) /\ st # <<>> /\ Len(st) <= MaxDepth + 1
        /\ Pending(st) \subseteq Pending(Rest) \cup Targets(Src(value)[next])
    <3> HIDE DEF recs
    <3> QED BY <1>8, <1>9, <2>2, DescendIs
  <2> HIDE DEF ct, st, recs
  <2>6. SPFTypeOK'
    BY <1>1, <1>2, <1>3, <1>4, <1>11, <2>1, <2>2, <2>5 DEF SPFTypeOK
  <2>7. sn \cup Pending(st) \subseteq Reach(value, Firsts)
    <3>1. Closed(Reach(value, Firsts), value, Firsts)
      BY <1>4, SrcIs, ReachIsLeast
    <3>2. next \in Reach(value, Firsts)
      BY <1>7, <1>8, <1>13
    <3>3. Targets(Firsts[next]) \subseteq Reach(value, Firsts)
      BY <3>1, <3>2 DEF Closed
    <3> QED BY <1>5, <1>7, <1>8, <2>2, <2>5, <3>2, <3>3
  <2>8. CountingOK'
    BY <1>1, <1>2, <2>1, <2>4, <2>6, <2>7, CountStep
  <2> QED BY <1>1, <1>2, <2>6, <2>8, SameResults DEF SearchingOK, CountExact, MergeDone
<1> QED BY <1>12, <1>13

LEMMA CountFailsInv == WalkInv /\ CountFails => WalkInv'
<1> SUFFICES ASSUME WalkInv, CountFails PROVE WalkInv'
  OBVIOUS
<1>1. SPFTypeOK /\ phase = "count" /\ faults < MaxFaults
  BY DEF WalkInv, CountFails
<1>2. /\ faults' = faults + 1 /\ warned' = TRUE /\ count' = CountSPFLookups(value) /\ phase' = "merged"
      /\ stack' = <<>> /\ seen' = {}
      /\ UNCHANGED <<input, value, todo, capped, senders>>
  BY DEF CountFails
<1>3. UNCHANGED <<net, current, includes, deep>>
  BY <1>2 DEF input
<1>4. net \in Nets /\ value \in Records /\ faults \in 0..MaxFaults /\ MaxFaults \in Nat /\ MaxDepth \in Nat /\ Limit \in Nat
  BY <1>1, SPFAssumption DEF SPFTypeOK
<1>5. CountSPFLookups(value) \in Nat /\ CountSPFLookups(value) <= Cost(value) /\ Cost(value) \in Nat
  BY <1>4, TotalIs
<1>6. SPFTypeOK'
  <2>1. <<>> \in Seq(Records) /\ Len(<<>>) <= MaxDepth + 1
    BY <1>4
  <2>2. faults + 1 \in 0..MaxFaults
    BY <1>1, <1>4
  <2> QED BY <1>1, <1>2, <1>3, <1>5, <2>1, <2>2 DEF SPFTypeOK
<1>7. Cost(value)' = Cost(value)
  BY <1>2, SameInput
<1>8. CountExact'
  BY <1>2, <1>4, <1>5, <1>7 DEF CountExact
<1> QED BY <1>1, <1>2, <1>6, <1>8, SameResults DEF CountingOK, SearchingOK

LEMMA CountReturnsInv == WalkInv /\ CountReturns => WalkInv'
<1> SUFFICES ASSUME WalkInv, CountReturns PROVE WalkInv'
  OBVIOUS
<1>1. SPFTypeOK /\ CountingOK /\ phase = "count" /\ Top = <<>>
  BY DEF WalkInv, CountReturns
<1>2. /\ stack' = Popped /\ phase' = IF Popped = <<>> THEN "merged" ELSE "count"
      /\ UNCHANGED <<input, value, seen, count, faults, warned, todo, capped, senders>>
  BY DEF CountReturns
<1>3. UNCHANGED <<net, current, includes, deep>>
  BY <1>2 DEF input
<1>4. stack \in Seq(Records) /\ stack # <<>> /\ seen \subseteq Domains /\ net \in Nets /\ value \in Records
      /\ count \in Nat /\ Len(stack) <= MaxDepth + 1 /\ MaxDepth \in Nat
  BY <1>1, SPFAssumption DEF SPFTypeOK
<1>5. Src(value) \in Sources
  BY <1>4, SrcIs
<1>6. PICK E, own : Walked(Src(value), stack, seen, count, E, own)
  BY <1>1 DEF CountingOK
<1>7. seen \cup Pending(stack) \subseteq Reach(value, Firsts)
  BY <1>1 DEF CountingOK
<1>8. /\ Popped \in Seq(Records) /\ Len(Popped) = Len(stack) - 1 /\ Len(stack) \in Nat
      /\ Pending(stack) = Pending(Popped) \cup Targets(Top)
  BY <1>4, PoppedIs
<1>9. PICK own2 : Walked(Src(value), Popped, seen, count, E, own2)
  BY <1>1, <1>4, <1>5, <1>6, WalkReturns
<1>10. Len(Popped) <= MaxDepth + 1
  BY <1>4, <1>8
<1>11. SPFTypeOK'
  BY <1>1, <1>2, <1>3, <1>8, <1>10 DEF SPFTypeOK
<1>12. CASE Popped = <<>>
  <2>1. Walked(Src(value), <<>>, seen, count, E, own2) /\ seen \subseteq Reach(value, Firsts)
    BY <1>7, <1>9, <1>12
  <2>2. count <= Cost(value) /\ (Cost(value) > Limit => count > Limit)
    BY <1>4, <2>1, WalkEnds
  <2>3. Cost(value)' = Cost(value) /\ Cost(value) \in Nat /\ Limit \in Nat
    BY <1>2, <1>4, SameInput, TotalIs, SPFAssumption
  <2>4. CountExact'
    BY <1>2, <1>4, <2>2, <2>3 DEF CountExact
  <2> QED BY <1>1, <1>2, <1>11, <1>12, <2>4, SameResults DEF CountingOK, SearchingOK
<1>13. CASE Popped # <<>>
  <2>1. phase' = "count"
    BY <1>2, <1>13
  <2>2. seen \cup Pending(Popped) \subseteq Reach(value, Firsts)
    BY <1>7, <1>8
  <2>3. CountingOK'
    BY <1>2, <1>9, <1>11, <2>1, <2>2, CountStep
  <2> QED BY <1>1, <1>2, <1>11, <2>1, <2>3, SameResults DEF SearchingOK, CountExact, MergeDone
<1> QED BY <1>12, <1>13

LEMMA ClassifyInv == WalkInv /\ Classify => WalkInv'
<1> SUFFICES ASSUME WalkInv, Classify PROVE WalkInv'
  OBVIOUS
<1> DEFINE S == {t \in Terms : t.kind \in {"include", "+include"} /\ t.dom # None}
           incs == Kept(value, S)
           dom(k) == incs[k].dom
<1>1. SPFTypeOK /\ phase = "merged"
  BY DEF WalkInv, Classify
<1>2. /\ phase' = "classify" /\ todo' = [k \in 1..Len(incs) |-> dom(k)]
      /\ stack' = <<>> /\ seen' = {}
      /\ UNCHANGED <<input, value, count, faults, warned, capped, senders>>
  BY DEF Classify
<1>3. UNCHANGED <<net, current, includes, deep>>
  BY <1>2 DEF input
<1>4. value \in Seq(Terms) /\ MaxDepth \in Nat
  BY <1>1, SPFAssumption DEF SPFTypeOK, Records
<1>5. incs \in Seq(Terms) /\ Range(incs) \subseteq S
  <2> HIDE DEF S
  <2> QED BY <1>4, KeptRange
<1> HIDE DEF incs
<1>6. ASSUME NEW k \in 1..Len(incs) PROVE dom(k) \in Domains
  <2>1. incs[k] \in S
    BY <1>5, RangeIs
  <2> QED BY <2>1, TermIs
<1>7. todo' \in Seq(Domains)
  <2>1. Len(incs) \in Nat
    BY <1>5
  <2> HIDE DEF dom
  <2> QED BY <1>2, <1>6, <2>1
<1>8. SPFTypeOK'
  <2>1. <<>> \in Seq(Records) /\ Len(<<>>) <= MaxDepth + 1
    BY <1>4
  <2> QED BY <1>1, <1>2, <1>3, <1>7, <2>1 DEF SPFTypeOK
<1> QED BY <1>1, <1>2, <1>8, SameResults DEF CountingOK, SearchingOK, CountExact, MergeDone

LEMMA ClassifiedInv == WalkInv /\ Classified => WalkInv'
<1> SUFFICES ASSUME WalkInv, Classified PROVE WalkInv'
  OBVIOUS
<1>1. SPFTypeOK /\ phase = "classify" /\ phase' = "classified"
      /\ UNCHANGED <<input, value, walk, faults, warned, todo, capped, senders>>
  BY DEF WalkInv, Classified
<1>2. SPFTypeOK'
  BY <1>1 DEF SPFTypeOK, input, walk
<1> QED BY <1>1, <1>2, SameResults DEF CountingOK, SearchingOK, CountExact, MergeDone

\* What SESExact says of a sender.
SenderOK(s) == Infra[s.dom] \in Open => (s.viaChain => Leads(s.dom)) /\ (s.sure /\ Leads(s.dom) => s.viaChain)

LEMMA SendersOK == SESExact <=> \A s \in Range(senders) : SenderOK(s)
BY DEF SESExact, SenderOK, Open, Leads

LEMMA SendersOKNext == SESExact' <=> \A s \in Range(senders)' : SenderOK(s)'
BY DEF SESExact, SenderOK, Open, Leads

\* A domain is judged.
LEMMA JudgeInv ==
    ASSUME WalkInv, todo # <<>>, phase # "start", NEW viaChain \in BOOLEAN, NEW sure \in BOOLEAN,
           Judge(viaChain, sure), UNCHANGED <<input, value, count>>, faults' \in 0..MaxFaults,
           Infra[todo[1]] \in Open =>
              (viaChain => Leads(todo[1])) /\ (sure /\ Leads(todo[1]) => viaChain)
    PROVE  WalkInv'
<1> DEFINE dom1 == todo[1]
           infra1 == IF viaChain /\ Infra[dom1] = "unknown" THEN "ses" ELSE Infra[dom1]
           s1 == [dom |-> dom1, viaChain |-> viaChain, sure |-> sure, infra |-> infra1]
<1>1. SPFTypeOK /\ SESExact
  BY DEF WalkInv
<1>2. /\ senders' = Append(senders, s1) /\ todo' = Tail(todo) /\ phase' = "classify"
      /\ stack' = <<>> /\ seen' = {} /\ capped' = FALSE /\ warned' = FALSE
  BY DEF Judge
<1>3. UNCHANGED <<net, current, includes, deep, value, count>>
  BY DEF input
<1>4. todo \in Seq(Domains) /\ senders \in Seq(Senders) /\ MaxDepth \in Nat
  BY <1>1, SPFAssumption DEF SPFTypeOK
<1>5. dom1 \in Domains /\ Tail(todo) \in Seq(Domains)
  <2>1. 1 \in 1..Len(todo)
    BY <1>4, EmptySeq
  <2> QED BY <1>4, <2>1, HeadTailProperties
<1>6. infra1 \in Infrastructures
  BY <1>1, <1>5, Inputs DEF Infrastructures
<1> HIDE DEF dom1, infra1
<1>7. s1 \in Senders /\ s1.dom = dom1 /\ s1.viaChain = viaChain /\ s1.sure = sure
  BY <1>5, <1>6 DEF Senders
<1> HIDE DEF s1
<1>8. Append(senders, s1) \in Seq(Senders) /\ Range(Append(senders, s1)) = Range(senders) \cup {s1}
  BY <1>4, <1>7, RangeAppend, AppendProperties
<1>9. SPFTypeOK'
  <2>1. <<>> \in Seq(Records) /\ Len(<<>>) <= MaxDepth + 1
    BY <1>4
  <2> QED BY <1>1, <1>2, <1>3, <1>5, <1>8, <2>1 DEF SPFTypeOK
<1>10. \A d : Leads(d)' <=> Leads(d)
  BY SameInput
<1>11. SenderOK(s1)
  BY <1>7 DEF SenderOK, dom1
<1>12. \A s \in Range(senders) : SenderOK(s)
  BY <1>1, SendersOK
<1>13. SESExact'
  <2>1. ASSUME NEW s \in Range(senders)' PROVE SenderOK(s)'
    <3>1. s \in Range(senders) \cup {s1}
      BY <1>2, <1>8, <2>1
    <3>2. SenderOK(s)
      BY <1>11, <1>12, <3>1
    <3> QED BY <1>10, <3>2 DEF SenderOK
  <2> QED BY <2>1, SendersOKNext
<1>14. value' = Merged(current, includes)'
  BY SameInput DEF WalkInv
<1> QED BY <1>2, <1>9, <1>13, <1>14 DEF WalkInv, CountingOK, SearchingOK, CountExact, MergeDone

LEMMA ClassifyFailsInv == WalkInv /\ ClassifyFails => WalkInv'
<1> SUFFICES ASSUME WalkInv, ClassifyFails PROVE WalkInv'
  OBVIOUS
<1>1. /\ phase = "classify" /\ todo # <<>> /\ faults < MaxFaults /\ faults' = faults + 1
      /\ Judge(FALSE, FALSE) /\ UNCHANGED <<input, value, count>>
  BY DEF ClassifyFails
<1>2. faults \in 0..MaxFaults /\ MaxFaults \in Nat
  BY SPFAssumption DEF WalkInv, SPFTypeOK
<1>3. faults' \in 0..MaxFaults
  BY <1>1, <1>2
<1>4. FALSE \in BOOLEAN /\ phase # "start"
  BY <1>1
<1> QED BY <1>1, <1>3, <1>4, JudgeInv

LEMMA ClassifyNextInv == WalkInv /\ ClassifyNext => WalkInv'
<1> SUFFICES ASSUME WalkInv, ClassifyNext PROVE WalkInv'
  OBVIOUS
<1> DEFINE dom1 == todo[1]
<1>1. /\ phase = "classify" /\ todo # <<>> /\ UNCHANGED <<input, value, count, faults>> /\ SPFTypeOK
  BY DEF ClassifyNext, WalkInv
<1>2. UNCHANGED <<net, current, includes, deep>>
  BY <1>1 DEF input
<1>3. todo \in Seq(Domains) /\ net \in Nets /\ value \in Records /\ faults \in 0..MaxFaults /\ MaxDepth \in Nat
  BY <1>1, SPFAssumption DEF SPFTypeOK
<1>4. dom1 \in Domains
  <2>1. 1 \in 1..Len(todo)
    BY <1>1, <1>3, EmptySeq
  <2> QED BY <1>3, <2>1
<1>5. CASE Infra[dom1] \in Open /\ dom1 # SES
  <2> DEFINE rec == Joined(net[dom1])
             R == Reach(rec, Joins)
  <2>1. stack' = <<rec>> /\ seen' = {dom1} /\ phase' = "search" /\ warned' = FALSE
        /\ UNCHANGED <<todo, capped, senders>>
    BY <1>5 DEF ClassifyNext, Open
  <2>2. rec \in Records /\ Joins[dom1] = rec /\ Joins \in [Domains -> Records]
    BY <1>3, <1>4, SrcIs
  <2>3. Closed(R, rec, Joins)
    BY <2>2, ReachIsLeast
  <2> HIDE DEF rec
  <2>4. <<rec>> \in Seq(Records) /\ Len(<<rec>>) = 1 /\ <<rec>> # <<>> /\ Pending(<<rec>>) = Targets(rec)
    <3>1. <<rec>> \in Seq(Records) /\ Len(<<rec>>) = 1 /\ <<rec>>[1] = rec /\ 1..1 = {1}
      BY <2>2
    <3> QED BY <3>1 DEF Pending
  <2>5. SPFTypeOK'
    <3>1. stack' \in Seq(Records) /\ Len(stack') <= MaxDepth + 1 /\ stack' # <<>> /\ seen' \subseteq Domains
      BY <1>3, <1>4, <2>1, <2>4
    <3>2. phase' = "search" /\ warned' \in BOOLEAN
      BY <2>1
    <3> QED BY <1>1, <1>2, <2>1, <3>1, <3>2 DEF SPFTypeOK
  <2>6. Joins' = Joins /\ Reach(Joined(net[todo[1]]), Joins)' = R
    BY <1>2, <2>1 DEF Joins, rec
  <2>7. Pending(stack)' = Targets(rec)
    BY <2>1, <2>4
  <2>8. Targets(rec) \subseteq R
    BY <2>3 DEF Closed
  <2> HIDE DEF R
  <2>9. SearchingOK'
    <3>1. todo' = todo /\ dom1 \in seen' /\ SES \notin seen'
      BY <1>5, <2>1
    <3>2. \A d \in seen' : Targets(Joins[d]) \subseteq seen' \cup Targets(rec)
      BY <2>1, <2>2
    <3> QED BY <1>1, <1>5, <2>1, <2>6, <2>7, <2>8, <3>1, <3>2 DEF SearchingOK
  <2> QED BY <1>1, <2>1, <2>5, <2>9, SameResults DEF CountingOK, CountExact, MergeDone
<1>6. CASE ~(Infra[dom1] \in Open /\ dom1 # SES)
  <2> DEFINE open == Infra[dom1] \in Open
  <2>1. Judge(open, TRUE)
    BY <1>6 DEF ClassifyNext, Open
  <2>2. open \in BOOLEAN /\ TRUE \in BOOLEAN
    OBVIOUS
  <2>3. Infra[todo[1]] \in Open => (open => Leads(todo[1])) /\ (TRUE /\ Leads(todo[1]) => open)
    BY <1>6 DEF Leads
  <2>4. faults' \in 0..MaxFaults /\ phase # "start"
    BY <1>1, <1>3
  <2> HIDE DEF open
  <2> QED BY <1>1, <2>1, <2>2, <2>3, <2>4, JudgeInv
<1> QED BY <1>5, <1>6

\* The step of a search: what it leaves of the walk.
LEMMA SearchStep ==
    ASSUME WalkInv, phase = "search", phase' = "search", UNCHANGED <<input, value, todo, senders>>,
           SPFTypeOK', todo[1] \in seen', SES \notin seen',
           Pending(stack') \subseteq Reach(Joined(net[todo[1]]), Joins),
           ~capped' /\ ~warned' => \A d \in seen' : Targets(Joins[d]) \subseteq seen' \cup Pending(stack')
    PROVE  WalkInv'
<1>1. Joins' = Joins /\ Reach(Joined(net[todo[1]]), Joins)' = Reach(Joined(net[todo[1]]), Joins)
  BY DEF input, Joins
<1>2. todo # <<>> /\ Infra[todo[1]] \in Open /\ todo[1] # SES
  BY DEF WalkInv, SearchingOK
<1>3. Pending(stack)' = Pending(stack')
  OBVIOUS
<1>4. SearchingOK'
  BY <1>1, <1>2, <1>3 DEF SearchingOK
<1> QED BY <1>4, SameResults DEF CountingOK, CountExact, MergeDone

\* What is known of a search.
LEMMA SearchIs ==
    ASSUME WalkInv, phase = "search"
    PROVE  /\ SPFTypeOK /\ net \in Nets /\ value \in Records
           /\ stack \in Seq(Records) /\ stack # <<>> /\ Len(stack) <= MaxDepth + 1 /\ seen \subseteq Domains
           /\ todo # <<>> /\ todo[1] \in Domains /\ Infra[todo[1]] \in Open /\ todo[1] # SES
           /\ todo[1] \in seen /\ SES \notin seen
           /\ Pending(stack) \subseteq Reach(Joined(net[todo[1]]), Joins)
           /\ ~capped /\ ~warned => \A d \in seen : Targets(Joins[d]) \subseteq seen \cup Pending(stack)
           /\ Closed(Reach(Joined(net[todo[1]]), Joins), Joined(net[todo[1]]), Joins)
           /\ Joins \in [Domains -> Records] /\ \A d \in Domains : Joins[d] = Joined(net[d])
           /\ MaxDepth \in Nat
<1>1. /\ SPFTypeOK /\ net \in Nets /\ value \in Records
      /\ stack \in Seq(Records) /\ stack # <<>> /\ Len(stack) <= MaxDepth + 1 /\ seen \subseteq Domains
  BY DEF WalkInv, SPFTypeOK
<1>2. /\ todo # <<>> /\ Infra[todo[1]] \in Open /\ todo[1] # SES
      /\ todo[1] \in seen /\ SES \notin seen
      /\ Pending(stack) \subseteq Reach(Joined(net[todo[1]]), Joins)
      /\ ~capped /\ ~warned => \A d \in seen : Targets(Joins[d]) \subseteq seen \cup Pending(stack)
  BY DEF WalkInv, SearchingOK
<1>3. todo[1] \in Domains
  BY <1>1, <1>2
<1>4. Joins \in [Domains -> Records] /\ Joined(net[todo[1]]) \in Records
      /\ \A d \in Domains : Joins[d] = Joined(net[d])
  BY <1>1, <1>3, SrcIs
<1>5. Closed(Reach(Joined(net[todo[1]]), Joins), Joined(net[todo[1]]), Joins)
  BY <1>4, ReachIsLeast
<1> QED BY <1>1, <1>2, <1>3, <1>4, <1>5, SPFAssumption

\* A term is read that leads to a domain that is not looked up, or in vain.
LEMMA SearchSkips ==
    ASSUME WalkInv, phase = "search", Top # <<>>, phase' = "search", stack' = Rest,
           UNCHANGED <<input, value, count, todo, senders>>,
           faults' \in 0..MaxFaults, capped' \in BOOLEAN, warned' \in BOOLEAN,
           capped => capped', warned => warned',
           seen \subseteq seen', seen' \subseteq Domains, SES \notin seen',
           ~capped' /\ ~warned' => seen' = seen /\ (Lookup(Top[1]) => Top[1].dom \in seen)
    PROVE  WalkInv'
<1> DEFINE next == Top[1].dom
<1>1. /\ SPFTypeOK /\ stack \in Seq(Records) /\ stack # <<>> /\ Len(stack) <= MaxDepth + 1
      /\ todo[1] \in seen
      /\ Pending(stack) \subseteq Reach(Joined(net[todo[1]]), Joins)
      /\ ~capped /\ ~warned => \A d \in seen : Targets(Joins[d]) \subseteq seen \cup Pending(stack)
  BY SearchIs
<1>2. /\ Rest \in Seq(Records) /\ Len(Rest) = Len(stack) /\ Len(stack) \in Nat
      /\ Pending(stack) = Pending(Rest) \cup (IF Lookup(Top[1]) THEN {next} ELSE {})
  BY <1>1, RestIs
<1>3. Rest # <<>> /\ Len(Rest) <= MaxDepth + 1
  BY <1>1, <1>2, EmptySeq
<1>4. UNCHANGED <<net, current, includes, deep>>
  BY DEF input
<1>5. SPFTypeOK'
  BY <1>1, <1>2, <1>3, <1>4 DEF SPFTypeOK
<1>6. ~capped' /\ ~warned' => \A d \in seen' : Targets(Joins[d]) \subseteq seen' \cup Pending(stack')
  BY <1>1, <1>2
<1>7. todo[1] \in seen' /\ Pending(stack') \subseteq Reach(Joined(net[todo[1]]), Joins)
  BY <1>1, <1>2
<1> QED BY <1>5, <1>6, <1>7, SearchStep

LEMMA SearchTermInv == WalkInv /\ SearchTerm => WalkInv'
<1> SUFFICES ASSUME WalkInv, SearchTerm PROVE WalkInv'
  OBVIOUS
<1> DEFINE next == Top[1].dom
           R == Reach(Joined(net[todo[1]]), Joins)
<1>1. phase = "search" /\ Top # <<>> /\ UNCHANGED <<input, value, count, faults>>
  BY DEF SearchTerm
<1>2. /\ SPFTypeOK /\ net \in Nets /\ value \in Records
      /\ stack \in Seq(Records) /\ stack # <<>> /\ Len(stack) <= MaxDepth + 1 /\ seen \subseteq Domains
      /\ todo # <<>> /\ Infra[todo[1]] \in Open /\ todo[1] # SES
      /\ todo[1] \in seen /\ SES \notin seen
      /\ Pending(stack) \subseteq R
      /\ ~capped /\ ~warned => \A d \in seen : Targets(Joins[d]) \subseteq seen \cup Pending(stack)
      /\ Closed(R, Joined(net[todo[1]]), Joins)
      /\ Joins \in [Domains -> Records] /\ \A d \in Domains : Joins[d] = Joined(net[d])
      /\ MaxDepth \in Nat
  BY <1>1, SearchIs
<1>3. faults' \in 0..MaxFaults /\ capped \in BOOLEAN /\ warned \in BOOLEAN
  BY <1>1, <1>2 DEF SPFTypeOK
<1>4. /\ Rest \in Seq(Records) /\ Len(Rest) = Len(stack) /\ Len(stack) \in Nat
      /\ Pending(stack) = Pending(Rest) \cup (IF Lookup(Top[1]) THEN {next} ELSE {})
  BY <1>1, <1>2, RestIs
<1>5. Top[1] \in Terms
  BY <1>1, <1>2, PoppedIs, TailIs
<1>6. CASE ~Lookup(Top[1]) \/ (next # SES /\ next \in seen)
  <2>1. stack' = Rest /\ UNCHANGED <<phase, seen, warned, todo, capped, senders>>
    BY <1>6 DEF SearchTerm
  <2> QED BY <1>1, <1>2, <1>3, <1>6, <2>1, SearchSkips
<1>7. CASE Lookup(Top[1]) /\ next = SES /\ Judge(TRUE, TRUE)
  <2>1. SES \in R
    BY <1>2, <1>4, <1>7
  <2>2. Leads(todo[1]) /\ TRUE \in BOOLEAN /\ phase # "start"
    BY <1>1, <2>1 DEF Leads
  <2>3. Infra[todo[1]] \in Open => (TRUE => Leads(todo[1])) /\ (TRUE /\ Leads(todo[1]) => TRUE)
    BY <2>2
  <2> QED BY <1>1, <1>2, <1>3, <1>7, <2>2, <2>3, JudgeInv
<1>8. CASE next # SES /\ stack' = Rest /\ capped' = TRUE /\ UNCHANGED <<phase, seen, warned, todo, senders>>
  BY <1>1, <1>2, <1>3, <1>8, SearchSkips
<1>9. CASE /\ Lookup(Top[1]) /\ next # SES /\ Len(Rest) <= MaxDepth
           /\ seen' = seen \cup {next} /\ stack' = Append(Rest, Joined(net[next]))
           /\ UNCHANGED <<phase, warned, todo, capped, senders>>
  <2>1. next \in Domains
    BY <1>5, <1>9, TermIs
  <2> HIDE DEF next
  <2> DEFINE rec == Joins[next]
  <2>2. rec \in Records /\ Joined(net[next]) = rec
    BY <1>2, <2>1
  <2>3. stack' = Append(Rest, rec)
    BY <1>9, <2>2
  <2> HIDE DEF rec
  <2>4. /\ Append(Rest, rec) \in Seq(Records) /\ Len(Append(Rest, rec)) = Len(Rest) + 1
        /\ Pending(Append(Rest, rec)) = Pending(Rest) \cup Targets(rec)
        /\ Append(Rest, rec) # <<>>
    BY <1>4, <2>2, PushIs, AppendProperties
  <2>5. /\ stack' \in Seq(Records) /\ Len(stack') <= MaxDepth + 1 /\ stack' # <<>>
        /\ Pending(stack') = Pending(Rest) \cup Targets(rec)
    BY <1>2, <1>4, <1>9, <2>3, <2>4
  <2>6. SPFTypeOK'
    <3>1. UNCHANGED <<net, current, includes, deep>>
      BY <1>1 DEF input
    <3>2. seen' \subseteq Domains
      BY <1>2, <1>9, <2>1
    <3> QED BY <1>1, <1>2, <1>9, <2>5, <3>1, <3>2 DEF SPFTypeOK
  <2>7. Targets(rec) \subseteq R
    <3>1. next \in R
      BY <1>2, <1>4, <1>9
    <3> QED BY <1>2, <3>1 DEF Closed, rec
  <2>8. Pending(stack') \subseteq R
    BY <1>2, <1>4, <2>5, <2>7
  <2>9. ~capped' /\ ~warned' => \A d \in seen' : Targets(Joins[d]) \subseteq seen' \cup Pending(stack')
    BY <1>2, <1>4, <1>9, <2>5 DEF rec
  <2>10. todo[1] \in seen' /\ SES \notin seen' /\ phase' = "search" /\ UNCHANGED <<input, value, todo, senders>>
    BY <1>1, <1>2, <1>9
  <2> QED BY <1>1, <2>6, <2>8, <2>9, <2>10, SearchStep
<1> QED BY <1>6, <1>7, <1>8, <1>9 DEF SearchTerm

LEMMA SearchFailsInv == WalkInv /\ SearchFails => WalkInv'
<1> SUFFICES ASSUME WalkInv, SearchFails PROVE WalkInv'
  OBVIOUS
<1> DEFINE next == Top[1].dom
<1>1. /\ phase = "search" /\ Top # <<>> /\ faults < MaxFaults
      /\ Lookup(Top[1]) /\ next \notin seen \cup {SES}
      /\ faults' = faults + 1 /\ warned' = TRUE /\ seen' = seen \cup {next} /\ stack' = Rest
      /\ UNCHANGED <<input, phase, value, count, todo, capped, senders>>
  BY DEF SearchFails
<1>2. SPFTypeOK /\ stack \in Seq(Records) /\ stack # <<>> /\ seen \subseteq Domains /\ SES \notin seen
  BY <1>1, SearchIs
<1>3. Top[1] \in Terms
  BY <1>1, <1>2, PoppedIs, TailIs
<1>4. next \in Domains
  BY <1>1, <1>3, TermIs
<1>5. faults' \in 0..MaxFaults /\ capped \in BOOLEAN
  BY <1>1, <1>2, SPFAssumption DEF SPFTypeOK
<1> HIDE DEF next
<1>6. seen' \subseteq Domains /\ SES \notin seen' /\ seen \subseteq seen'
  BY <1>1, <1>2, <1>4
<1> QED BY <1>1, <1>5, <1>6, SearchSkips

LEMMA SearchReturnsInv == WalkInv /\ SearchReturns => WalkInv'
<1> SUFFICES ASSUME WalkInv, SearchReturns PROVE WalkInv'
  OBVIOUS
<1> DEFINE R == Reach(Joined(net[todo[1]]), Joins)
<1>1. phase = "search" /\ Top = <<>> /\ UNCHANGED <<input, value, count, faults>>
  BY DEF SearchReturns
<1>2. /\ SPFTypeOK /\ net \in Nets /\ value \in Records
      /\ stack \in Seq(Records) /\ stack # <<>> /\ Len(stack) <= MaxDepth + 1 /\ seen \subseteq Domains
      /\ todo # <<>> /\ todo[1] \in Domains /\ Infra[todo[1]] \in Open /\ todo[1] # SES
      /\ todo[1] \in seen /\ SES \notin seen
      /\ Pending(stack) \subseteq R
      /\ ~capped /\ ~warned => \A d \in seen : Targets(Joins[d]) \subseteq seen \cup Pending(stack)
      /\ Joins \in [Domains -> Records] /\ \A d \in Domains : Joins[d] = Joined(net[d])
      /\ MaxDepth \in Nat
  BY <1>1, SearchIs
<1>3. /\ Popped \in Seq(Records) /\ Len(Popped) = Len(stack) - 1 /\ Len(stack) \in Nat
      /\ Pending(stack) = Pending(Popped) \cup Targets(Top)
  BY <1>2, PoppedIs
<1>4. Pending(stack) = Pending(Popped)
  BY <1>1, <1>3, EmptyTargets
<1>5. CASE Popped # <<>>
  <2>1. stack' = Popped /\ UNCHANGED <<phase, seen, warned, todo, capped, senders>>
    BY <1>5 DEF SearchReturns
  <2>2. Len(Popped) <= MaxDepth + 1
    BY <1>2, <1>3
  <2>3. SPFTypeOK'
    BY <1>1, <1>2, <1>3, <1>5, <2>1, <2>2 DEF SPFTypeOK, input
  <2>4. ~capped' /\ ~warned' => \A d \in seen' : Targets(Joins[d]) \subseteq seen' \cup Pending(stack')
    BY <1>2, <1>4, <2>1
  <2> QED BY <1>1, <1>2, <1>4, <2>1, <2>3, <2>4, SearchStep
<1>6. CASE Popped = <<>>
  <2> DEFINE sure == ~capped /\ ~warned
  <2>1. Judge(FALSE, sure)
    BY <1>6 DEF SearchReturns
  <2>2. Pending(stack) = {}
    <3>1. Pending(<<>>) = {}
      BY DEF Pending
    <3> QED BY <1>4, <1>6, <3>1
  <2>3. sure => ~Leads(todo[1])
    <3>1. SUFFICES ASSUME sure PROVE SES \notin R
      BY <1>2 DEF Leads
    <3>2. \A d \in seen : Targets(Joins[d]) \subseteq seen
      BY <1>2, <2>2, <3>1
    <3>3. Closed(seen, Joined(net[todo[1]]), Joins)
      BY <1>2, <3>2 DEF Closed
    <3>4. Joined(net[todo[1]]) \in Records
      BY <1>2
    <3>5. R \subseteq seen
      BY <1>2, <3>3, <3>4, ReachIsLeast
    <3> QED BY <1>2, <3>5
  <2>4. sure \in BOOLEAN /\ FALSE \in BOOLEAN /\ faults' \in 0..MaxFaults /\ phase # "start"
    BY <1>1, <1>2 DEF SPFTypeOK
  <2> HIDE DEF sure
  <2>5. Infra[todo[1]] \in Open => (FALSE => Leads(todo[1])) /\ (sure /\ Leads(todo[1]) => FALSE)
    BY <2>3
  <2> QED BY <1>1, <1>2, <2>1, <2>4, <2>5, JudgeInv
<1> QED BY <1>5, <1>6

-----------------------------------------------------------------------------
(* The theorems.                                                            *)

LEMMA WalkNext == WalkInv /\ [SPFNext]_spfVars => WalkInv'
<1> SUFFICES ASSUME WalkInv, [SPFNext]_spfVars PROVE WalkInv'
  OBVIOUS
<1>1. CASE UNCHANGED spfVars
  <2>1. /\ UNCHANGED <<input, value>>
        /\ UNCHANGED <<net, current, includes, deep, phase, value, stack, seen, count, faults, warned,
                       todo, capped, senders>>
    BY <1>1 DEF spfVars, input
  <2>2. SPFTypeOK'
    BY <2>1 DEF WalkInv, SPFTypeOK
  <2>3. CountingOK'
    BY <2>1, SameInput DEF WalkInv, CountingOK
  <2>4. CountExact'
    BY <2>1, SameInput DEF WalkInv, CountExact, MergeDone
  <2>5. SearchingOK'
    BY <2>1 DEF WalkInv, SearchingOK, Joins
  <2>6. SESExact'
    BY <2>1 DEF WalkInv, SESExact, Joins
  <2> QED BY <2>1, <2>2, <2>3, <2>4, <2>5, <2>6 DEF WalkInv
<1>2. CASE MergeSPF
  BY <1>2, MergeInv
<1>3. CASE CountTerm
  BY <1>3, CountTermInv
<1>4. CASE CountFails
  BY <1>4, CountFailsInv
<1>5. CASE CountReturns
  BY <1>5, CountReturnsInv
<1>6. CASE Classify
  BY <1>6, ClassifyInv
<1>7. CASE ClassifyNext
  BY <1>7, ClassifyNextInv
<1>8. CASE ClassifyFails
  BY <1>8, ClassifyFailsInv
<1>9. CASE SearchTerm
  BY <1>9, SearchTermInv
<1>10. CASE SearchFails
  BY <1>10, SearchFailsInv
<1>11. CASE SearchReturns
  BY <1>11, SearchReturnsInv
<1>12. CASE Classified
  BY <1>12, ClassifiedInv
<1>13. CASE Finished
  BY <1>1, <1>13 DEF Finished
<1> QED
  BY <1>1, <1>2, <1>3, <1>4, <1>5, <1>6, <1>7, <1>8, <1>9, <1>10, <1>11, <1>12, <1>13 DEF SPFNext, SPFStep

LEMMA WalkInvariance == SPFSpec => []WalkInv
<1>1. SPFInit => WalkInv
  BY WalkInit
<1>2. WalkInv /\ [SPFNext]_spfVars => WalkInv'
  BY WalkNext
<1> QED
  BY <1>1, <1>2, PTL DEF SPFSpec

\* Every merge keeps the terms of the record in their order, has every include in
\* it, changes nothing when repeated, and puts what it adds before "all"; and the
\* walks stay within the depth cap (MergeSPF, recursiveSPFLookupCount).
THEOREM MergesAreSafe == SPFSpec => []MergeSafe
<1>1. WalkInv => MergeSafe
  <2> SUFFICES ASSUME WalkInv PROVE MergeSafe
    OBVIOUS
  <2>1. SPFTypeOK /\ Mergeable(current, includes)
    BY Inputs DEF WalkInv
  <2>2. MergeDone => value = Merged(current, includes)
    BY DEF WalkInv, MergeDone
  <2>3. MergePreserves
    BY <2>1, <2>2, MergedPreserves DEF MergePreserves
  <2>4. MergeEffective
    <3> SUFFICES ASSUME MergeDone,
                        ~(IsRecord(current) /\ (At(current, "all") # {} \/
                           Cardinality({k \in 1..Len(current) : current[k].kind \in All}) > 1)),
                        NEW j \in 1..Len(value), NEW k \in 1..Len(value),
                        value[j].kind \in All, value[k].kind = "include", value[k].dom \in Range(includes),
                        ~(IsRecord(current) /\ Contains(current, value[k].dom))
                 PROVE  k < j
      BY DEF MergeEffective
    <3>1. value = Merged(current, includes)
      BY <2>2
    <3> QED BY <2>1, <3>1, MergedEffective
  <2> QED BY <2>1, <2>3, <2>4 DEF MergeSafe
<1> QED
  BY <1>1, WalkInvariance, PTL

\* LimitExact of SPFWalk.tla: the count says whether receivers, who read every
\* form of RFC 7208, look up more than the limit (recursiveSPFLookupCount,
\* LookupLimitExceeded): it never says so without reason, and what the depth cap
\* cuts off lies behind as many lookups as the limit allows; but it comes by
\* qualified terms, ptr alone and lengths, and stays below the limit then.
THEOREM LimitIsExact == SPFSpec => []LimitExact
<1>1. ASSUME WalkInv PROVE LimitExact
  <2>1. CountExact /\ value \in Records /\ net \in Nets /\ count \in Nat /\ Limit \in Nat
    BY <1>1, Inputs DEF WalkInv, SPFTypeOK
  <2>2. /\ RFCTotal(value) \in Nat /\ Cost(value) \in Nat /\ Cost(value) <= RFCTotal(value)
        /\ ~Overlooks(value) => RFCTotal(value) = Cost(value)
    BY <2>1, ReceiversLookUp
  <2> QED BY <2>1, <2>2 DEF CountExact, LimitExact
<1> QED
  BY <1>1, WalkInvariance, PTL

\* A sender is called SES-backed if and only if its records lead to SES by terms
\* without a qualifier, unless the answer had to be given up
\* (ClassifyFromSPFRecursive, walkForSES).
THEOREM ClassificationIsExact == SPFSpec => []SESExact
<1>1. WalkInv => SESExact
  BY DEF WalkInv
<1> QED
  BY <1>1, WalkInvariance, PTL


-----------------------------------------------------------------------------
(* PushService: the inductive invariant.                                    *)

PCs == {"idle", "get", "read", "write"}

\* Names hold sequences of values, and pushes have the variables they need.
ShapeOK ==
    /\ provider \in Providers
    /\ type \in SubTypes
    /\ zone \in [Keys -> Seq(Vals)]
    /\ pc \in [Reqs -> PCs]
    /\ op \in [Reqs -> Ops \cup {NoOp}]
    /\ listed \in [Reqs -> Seq(Vals)]
    /\ DOMAIN snap = Reqs
    /\ status \in Statuses
    /\ settled \in [Keys -> Ops \cup {NoOp}]
    /\ acked \in SUBSET Includes

\* A request fits the type of its name.
Fits(o) == o \in Ops /\ (o.kind = "set" => o.arg \in ValsOf(TypeOf(o.key)))

\* A push that is under way has a request, and before its write it has read.
UnderWay(r) ==
    /\ pc[r] # "idle" => Fits(op[r])
    /\ pc[r] = "write" => snap[r] \in [ReadKeys(r) -> Seq(Vals)]

IncludesOf(s) == UNION {s[i].includes : i \in SPFRecords(s)}
CurrentIncludes(s) == IF CurrentSPF(s) = NoVal THEN {} ELSE CurrentSPF(s).includes

\* The promised includes are in the first SPF record, which is the one the next
\* push merges; with GoDaddy, which appends, in one of them.
AckOK ==
    /\ provider # "godaddy" => acked \subseteq CurrentIncludes(zone["apex"])
    /\ provider = "godaddy" => acked \subseteq IncludesOf(zone["apex"])

\* Request o is answered by the records s: by the first, where pushes look.
Answers(s, o) ==
    /\ s # <<>>
    /\ o.kind = "set" => s[1] = Stored(provider, TypeOf(o.key), o.arg)
    /\ o.kind = "spf" => s[1].spf /\ o.incs \subseteq s[1].includes

\* What was written last is there.
SettledOK ==
    provider # "godaddy" => \A k \in Keys : settled[k] # NoOp => Fits(settled[k]) /\ Answers(zone[k], settled[k])

IInv ==
    /\ ShapeOK
    /\ \A r \in Reqs : UnderWay(r)
    /\ AckOK
    /\ SettledOK

-----------------------------------------------------------------------------
(* Values and operators.                                                    *)

\* A value is an SPF record made of its includes, or none.
LEMMA ValShape ==
    /\ \A x : SPF(x).spf /\ SPF(x).includes = x
    /\ \A x \in SUBSET Includes : SPF(x) \in Vals
    /\ \A v \in TextVals \cup MailVals \cup AliasVals : v \in Vals /\ ~v.spf
    /\ \A v \in Vals : v.spf => v.includes \in SUBSET Includes /\ v = SPF(v.includes)
    /\ NoVal \notin Vals
<1>1. \A x : SPF(x).spf /\ SPF(x).includes = x
  BY DEF SPF
<1>2. \A x \in SUBSET Includes : SPF(x) \in Vals
  BY DEF Vals, SPFVals
<1>3. \A v \in TextVals \cup MailVals \cup AliasVals : v \in Vals /\ ~v.spf
  BY DEF Vals, TextVals, MailVals, AliasVals, Text, Mail, Alias
<1>4. ASSUME NEW v \in Vals, v.spf PROVE v.includes \in SUBSET Includes /\ v = SPF(v.includes)
  <2>1. v \in SPFVals
    BY <1>3, <1>4 DEF Vals
  <2>2. PICK x \in SUBSET Includes : v = SPF(x)
    BY <2>1 DEF SPFVals
  <2> QED
    BY <1>1, <2>2
<1> QED
  BY <1>1, <1>2, <1>3, <1>4, ProviderAssumption

\* A request sets a record at a key, or asks for includes at the apex.
LEMMA OpShape ==
    ASSUME NEW o \in Ops
    PROVE  /\ o.key \in Keys /\ o.kind \in {"set", "spf"} /\ o # NoOp
           /\ o.kind = "set" => o.arg \in TextVals \cup MailVals \cup AliasVals
           /\ o.kind = "spf" => o.key = "apex" /\ o.incs \in SUBSET Includes
BY DEF Ops, SetOps, SPFOps, NoOp, Keys

\* A provider keeps a record of the type, its priority apart, as it is.
LEMMA StoredShape ==
    ASSUME NEW p, NEW t \in {"TXT", "MX", "CNAME"}, NEW v \in ValsOf(t)
    PROVE  /\ Stored(p, t, v) \in Vals
           /\ t = "TXT" => Stored(p, t, v) = v
<1>1. v \in Vals
  BY DEF ValsOf, Vals
<1>2. CASE t # "MX"
  BY <1>1, <1>2 DEF Stored
<1>3. CASE t = "MX"
  <2>1. PICK x \in Texts, q \in Prefs : v = Mail(x, q)
    BY <1>3 DEF ValsOf, MailVals
  <2>2. v.text = x /\ v.pref = q
    BY <2>1 DEF Mail
  <2>3. PICK n \in Prefs : Stored(p, t, v) = Mail(x, n)
    BY <1>3, <2>2, ProviderAssumption DEF Stored
  <2>4. Mail(x, n) \in MailVals
    BY DEF MailVals
  <2> QED
    BY <1>3, <2>3, <2>4 DEF Vals
<1> QED
  BY <1>2, <1>3

\* CurrentSPF is a record of the name, if there is an SPF record.
LEMMA CurrentMember ==
    ASSUME NEW s \in Seq(Vals)
    PROVE  /\ SPFRecords(s) = {} => CurrentSPF(s) = NoVal
           /\ SPFRecords(s) # {} =>
                \E i \in SPFRecords(s) :
                    /\ CurrentSPF(s) = s[i] /\ s[i] \in Vals /\ s[i].spf
                    /\ \A j \in SPFRecords(s) : i <= j
<1>1. SPFRecords(s) \subseteq Nat
  BY DEF SPFRecords
<1>2. CASE SPFRecords(s) = {}
  BY <1>2 DEF CurrentSPF
<1>3. CASE SPFRecords(s) # {}
  <2> DEFINE FirstSPF(i) == \A j \in SPFRecords(s) : i <= j
  <2>1. \E i \in SPFRecords(s) : FirstSPF(i)
    BY <1>1, <1>3, LeastElement
  <2>2. CurrentSPF(s) = s[CHOOSE i \in SPFRecords(s) : FirstSPF(i)]
    BY <1>3 DEF CurrentSPF
  <2> HIDE DEF FirstSPF
  <2>3. PICK i \in SPFRecords(s) : FirstSPF(i) /\ CurrentSPF(s) = s[i]
    BY <2>1, <2>2
  <2>4. s[i] \in Vals /\ s[i].spf
    BY <2>3 DEF SPFRecords
  <2> QED
    BY <1>3, <2>3, <2>4 DEF FirstSPF
<1> QED
  BY <1>2, <1>3

\* An SPF record at the head of the name is the current one.
LEMMA CurrentFirst ==
    ASSUME NEW s \in Seq(Vals), s # <<>>, s[1].spf
    PROVE  CurrentSPF(s) = s[1] /\ CurrentIncludes(s) = s[1].includes
<1>1. 1 \in SPFRecords(s)
  BY DEF SPFRecords
<1>2. PICK i \in SPFRecords(s) : CurrentSPF(s) = s[i] /\ s[i] \in Vals /\ \A j \in SPFRecords(s) : i <= j
  BY <1>1, CurrentMember
<1>3. i = 1
  BY <1>1, <1>2 DEF SPFRecords
<1>4. s[1] # NoVal
  BY <1>2, <1>3, ValShape
<1> QED
  BY <1>2, <1>3, <1>4 DEF CurrentIncludes

\* The includes of the current record are includes of the name.
LEMMA CurrentIsPart ==
    ASSUME NEW s \in Seq(Vals)
    PROVE  CurrentIncludes(s) \subseteq IncludesOf(s) /\ CurrentIncludes(s) \in SUBSET Includes
<1>1. CASE SPFRecords(s) = {}
  BY <1>1, CurrentMember DEF CurrentIncludes
<1>2. CASE SPFRecords(s) # {}
  <2>1. PICK i \in SPFRecords(s) : CurrentSPF(s) = s[i] /\ s[i] \in Vals /\ s[i].spf
    BY <1>2, CurrentMember
  <2>2. CurrentIncludes(s) = s[i].includes
    BY <2>1, ValShape DEF CurrentIncludes
  <2>3. s[i].includes \in SUBSET Includes
    BY <2>1, ValShape
  <2> QED
    BY <2>1, <2>2, <2>3 DEF IncludesOf
<1> QED
  BY <1>1, <1>2

\* MergeSPF adds to the includes of the current record.
LEMMA MergedShape ==
    ASSUME NEW s \in Seq(Vals), NEW incs \in SUBSET Includes
    PROVE  /\ MergedSPF(s, incs) = SPF(CurrentIncludes(s) \cup incs)
           /\ MergedSPF(s, incs) \in Vals
           /\ MergedSPF(s, incs).spf
           /\ MergedSPF(s, incs).includes = CurrentIncludes(s) \cup incs
<1>1. MergedSPF(s, incs) = SPF(CurrentIncludes(s) \cup incs)
  BY DEF MergedSPF, CurrentIncludes
<1>2. CurrentIncludes(s) \cup incs \in SUBSET Includes
  BY CurrentIsPart
<1> QED
  BY <1>1, <1>2, ValShape

\* More records, more includes.
LEMMA IncludesGrow ==
    ASSUME NEW s \in Seq(Vals), NEW t \in Seq(Vals), Members(s) \subseteq Members(t)
    PROVE  IncludesOf(s) \subseteq IncludesOf(t)
<1>1. ASSUME NEW i \in SPFRecords(s) PROVE \E j \in SPFRecords(t) : t[j] = s[i]
  BY <1>1 DEF SPFRecords, Members
<1> QED
  BY <1>1 DEF IncludesOf

\* SetRecord of a name: the record is first, or added to what was read.
LEMMA SetShape ==
    ASSUME NEW s \in Seq(Vals), NEW v \in Vals
    PROVE  /\ ReplaceFirst(s, v) \in Seq(Vals) /\ ReplaceFirst(s, v) # <<>> /\ ReplaceFirst(s, v)[1] = v
           /\ s # <<>> => Members(s) \ {s[1]} \subseteq Members(ReplaceFirst(s, v))
           /\ Append(s, v) \in Seq(Vals) /\ Append(s, v) # <<>>
           /\ Members(s) \cup {v} \subseteq Members(Append(s, v))
           /\ RRSetSet(v) \in Seq(Vals) /\ RRSetSet(v) # <<>> /\ RRSetSet(v)[1] = v
           /\ MergeGoDaddyRecords(s, v) \in Seq(Vals) /\ MergeGoDaddyRecords(s, v) # <<>>
           /\ Members(s) \cup {v} \subseteq Members(MergeGoDaddyRecords(s, v))
<1>1. /\ <<v>> \in Seq(Vals) /\ <<v>> # <<>> /\ <<v>>[1] = v
  OBVIOUS
<1>2. Append(s, v) \in Seq(Vals) /\ Append(s, v) # <<>>
  BY AppendProperties
<1>3. Members(s) \cup {v} \subseteq Members(Append(s, v))
  <2>1. /\ Len(Append(s, v)) = Len(s) + 1 /\ Len(s) \in Nat
        /\ Append(s, v)[Len(s) + 1] = v
        /\ \A i \in 1..Len(s) : Append(s, v)[i] = s[i]
    BY AppendProperties
  <2>2. v \in Members(Append(s, v))
    BY <2>1 DEF Members
  <2>3. Members(s) \subseteq Members(Append(s, v))
    BY <2>1 DEF Members
  <2> QED
    BY <2>2, <2>3
<1>4. ASSUME s # <<>>
      PROVE  /\ [s EXCEPT ![1] = v] \in Seq(Vals) /\ [s EXCEPT ![1] = v] # <<>> /\ [s EXCEPT ![1] = v][1] = v
             /\ Members(s) \ {s[1]} \subseteq Members([s EXCEPT ![1] = v])
  <2>1. 1 \in 1..Len(s)
    BY <1>4
  <2> DEFINE t == [s EXCEPT ![1] = v]
  <2>2. /\ t \in Seq(Vals) /\ Len(t) = Len(s)
        /\ \A j \in 1..Len(s) : t[j] = IF j = 1 THEN v ELSE s[j]
    BY <2>1, ExceptSeq
  <2> HIDE DEF t
  <2>3. t # <<>> /\ t[1] = v
    BY <2>1, <2>2
  <2>4. Members(s) \ {s[1]} \subseteq Members(t)
    BY <2>2 DEF Members
  <2> QED
    BY <2>2, <2>3, <2>4 DEF t
<1>5. v \in Members(s) => s # <<>>
  BY DEF Members
<1> QED
  BY <1>1, <1>2, <1>3, <1>4, <1>5 DEF ReplaceFirst, RRSetSet, MergeGoDaddyRecords

-----------------------------------------------------------------------------
(* What a write does to the zone.                                           *)

-----------------------------------------------------------------------------
(* What a push decides, and what its write does to the zone.                *)

\* The apex holds TXT records, "sub" those of one type.
LEMMA KeyType ==
    ASSUME ShapeOK, NEW k
    PROVE  TypeOf(k) \in {"TXT", "MX", "CNAME"} /\ TypeOf("apex") = "TXT"
BY DEF ShapeOK, SubTypes, TypeOf

\* A push decides to write a value: the one asked for, as the provider keeps it,
\* or an SPF record with the includes that were listed and those asked for.
LEMMA DecisionIs ==
    ASSUME IInv, NEW r \in Reqs, pc[r] # "idle"
    PROVE  /\ Fits(op[r]) /\ op[r].key \in Keys /\ Decision(r) \in Vals
           /\ op[r].kind = "set" => Decision(r) = Stored(provider, TypeOf(op[r].key), op[r].arg)
           /\ op[r].kind = "spf" =>
                /\ Decision(r).spf
                /\ Decision(r).includes = CurrentIncludes(listed[r]) \cup op[r].incs
                /\ op[r].key = "apex" /\ op[r].incs \in SUBSET Includes
<1>1. Fits(op[r]) /\ op[r] \in Ops /\ listed[r] \in Seq(Vals)
  BY DEF IInv, UnderWay, Fits, ShapeOK
<1>2. /\ op[r].key \in Keys /\ op[r].kind \in {"set", "spf"}
      /\ op[r].kind = "spf" => op[r].key = "apex" /\ op[r].incs \in SUBSET Includes
  BY <1>1, OpShape
<1>3. TypeOf(op[r].key) \in {"TXT", "MX", "CNAME"} /\ TypeOf("apex") = "TXT"
  BY KeyType DEF IInv
<1>4. CASE op[r].kind = "set"
  <2>1. Decision(r) = Stored(provider, TypeOf(op[r].key), op[r].arg)
    BY <1>4 DEF Decision, Wanted
  <2>2. op[r].arg \in ValsOf(TypeOf(op[r].key))
    BY <1>1, <1>4 DEF Fits
  <2>3. Stored(provider, TypeOf(op[r].key), op[r].arg) \in Vals
    BY <1>3, <2>2, StoredShape
  <2> QED
    BY <1>1, <1>2, <1>4, <2>1, <2>3
<1>5. CASE op[r].kind = "spf"
  <2>1. Decision(r) = Stored(provider, "TXT", MergedSPF(listed[r], op[r].incs))
    BY <1>2, <1>3, <1>5 DEF Decision, Wanted
  <2>2. Decision(r) = MergedSPF(listed[r], op[r].incs)
    BY <2>1 DEF Stored
  <2>3. /\ MergedSPF(listed[r], op[r].incs) \in Vals
        /\ MergedSPF(listed[r], op[r].incs).spf
        /\ MergedSPF(listed[r], op[r].incs).includes = CurrentIncludes(listed[r]) \cup op[r].incs
    BY <1>1, <1>2, <1>5, MergedShape
  <2> QED
    BY <1>1, <1>2, <1>5, <2>2, <2>3
<1> QED
  BY <1>2, <1>4, <1>5

\* A zone with other records at one key.
LEMMA ZoneExcept ==
    ASSUME NEW z \in [Keys -> Seq(Vals)], NEW k \in Keys, NEW w \in Seq(Vals)
    PROVE  /\ [z EXCEPT ![k] = w] \in [Keys -> Seq(Vals)]
           /\ [z EXCEPT ![k] = w][k] = w
           /\ \A j \in Keys \ {k} : [z EXCEPT ![k] = w][j] = z[j]
OBVIOUS

\* The zone after push r's write of v at key k: what was read holds, or not.
WriteOK(r, k, v) ==
    /\ Written(r) \in [Keys -> Seq(Vals)]
    /\ Written(r)[k] # <<>>
    /\ provider # "namecheap" => \A j \in Keys \ {k} : Written(r)[j] = zone[j]
    /\ ReadHolds(r) => \A j \in Keys \ {k} : Written(r)[j] = zone[j]
    /\ provider = "namecheap" =>
         snap[r] \in [Keys -> Seq(Vals)] /\ \A j \in Keys \ {k} : Written(r)[j] = snap[r][j]
    /\ provider # "godaddy" /\ Justified(r) => Written(r)[k][1] = v
    /\ provider \in {"cloudflare", "namecheap"} /\ ReadHolds(r) => Written(r)[k] = ReplaceFirst(zone[k], v)
    /\ provider = "godaddy" =>
         /\ snap[r][k] \in Seq(Vals)
         /\ v \in Members(Written(r)[k])
         /\ ReadHolds(r) => Members(zone[k]) \subseteq Members(Written(r)[k])

\* Appending makes a sequence longer.
LEMMA AppendDiffers ==
    ASSUME NEW s \in Seq(Vals), NEW v \in Vals
    PROVE  Append(s, v) # s
<1>1. Len(Append(s, v)) = Len(s) + 1 /\ Len(s) \in Nat
  BY AppendProperties
<1> QED
  BY <1>1

\* Whatever SetRecord has read, the name gets its record; if the read holds, so
\* do the other records.
LEMMA WrittenShape ==
    ASSUME IInv, NEW r \in Reqs, pc[r] = "write", NEW k, k = op[r].key, NEW v, v = Decision(r)
    PROVE  WriteOK(r, k, v)
<1>1. /\ k \in Keys /\ v \in Vals
      /\ zone \in [Keys -> Seq(Vals)] /\ zone[k] \in Seq(Vals)
      /\ snap[r] \in [ReadKeys(r) -> Seq(Vals)]
  BY DecisionIs DEF IInv, ShapeOK, UnderWay
<1>2. provider \in {"cloudflare", "route53", "gcdns", "godaddy", "namecheap"}
  BY ProviderAssumption DEF IInv, ShapeOK
<1>3. ReadHolds(r) <=> \A j \in ReadKeys(r) : snap[r][j] = zone[j]
  BY DEF ReadHolds
<1>4. Justified(r) => Written(r) = zone \/ ReadHolds(r)
  BY DEF Justified
<1>5. /\ ReplaceFirst(zone[k], v) \in Seq(Vals) /\ ReplaceFirst(zone[k], v) # <<>>
      /\ ReplaceFirst(zone[k], v)[1] = v
      /\ Append(zone[k], v) \in Seq(Vals) /\ Append(zone[k], v) # <<>> /\ Append(zone[k], v) # zone[k]
  BY <1>1, SetShape, AppendDiffers
<1>6. CASE provider = "cloudflare"
  <2>1. ReadKeys(r) = {k} /\ Written(r) = [zone EXCEPT ![k] = CloudflareSet(zone[k], snap[r][k], v)]
    BY <1>6 DEF ReadKeys, Written
  <2> DEFINE w == CloudflareSet(zone[k], snap[r][k], v)
  <2>2. w \in {Append(zone[k], v), ReplaceFirst(zone[k], v)}
    BY DEF CloudflareSet
  <2>3. ReadHolds(r) => w = ReplaceFirst(zone[k], v)
    <3>1. ReadHolds(r) => snap[r][k] = zone[k]
      BY <1>3, <2>1
    <3>2. Append(<<>>, v) = <<v>>
      OBVIOUS
    <3> QED
      BY <3>1, <3>2 DEF CloudflareSet, ReplaceFirst
  <2> HIDE DEF w
  <2>4. w \in Seq(Vals) /\ w # <<>> /\ (w = ReplaceFirst(zone[k], v) \/ w # zone[k])
    BY <1>5, <2>2, Zenon
  <2>5. /\ Written(r) \in [Keys -> Seq(Vals)] /\ Written(r)[k] = w
        /\ \A j \in Keys \ {k} : Written(r)[j] = zone[j]
    BY <1>1, <2>1, <2>4, ZoneExcept DEF w
  <2>6. Justified(r) => w = ReplaceFirst(zone[k], v)
    BY <1>4, <2>3, <2>4, <2>5
  <2> QED
    BY <1>5, <1>6, <2>3, <2>4, <2>5, <2>6 DEF WriteOK
<1>7. CASE provider \in {"route53", "gcdns"}
  <2>1. Written(r) = [zone EXCEPT ![k] = RRSetSet(v)]
    BY <1>7 DEF Written
  <2>2. RRSetSet(v) \in Seq(Vals) /\ RRSetSet(v) # <<>> /\ RRSetSet(v)[1] = v
    BY <1>1, SetShape
  <2>3. /\ Written(r) \in [Keys -> Seq(Vals)] /\ Written(r)[k] = RRSetSet(v)
        /\ \A j \in Keys \ {k} : Written(r)[j] = zone[j]
    BY <1>1, <2>1, <2>2, ZoneExcept
  <2> QED
    BY <1>7, <2>2, <2>3 DEF WriteOK
<1>8. CASE provider = "godaddy"
  <2>1. ReadKeys(r) = {k} /\ Written(r) = [zone EXCEPT ![k] = MergeGoDaddyRecords(snap[r][k], v)]
    BY <1>8 DEF ReadKeys, Written
  <2>2. snap[r][k] \in Seq(Vals)
    BY <1>1, <2>1
  <2> DEFINE w == MergeGoDaddyRecords(snap[r][k], v)
  <2>3. w \in Seq(Vals) /\ w # <<>> /\ Members(snap[r][k]) \cup {v} \subseteq Members(w)
    BY <1>1, <2>2, SetShape
  <2> HIDE DEF w
  <2>4. /\ Written(r) \in [Keys -> Seq(Vals)] /\ Written(r)[k] = w
        /\ \A j \in Keys \ {k} : Written(r)[j] = zone[j]
    BY <1>1, <2>1, <2>3, ZoneExcept DEF w
  <2>5. ReadHolds(r) => snap[r][k] = zone[k]
    BY <1>3, <2>1
  <2> QED
    BY <1>8, <2>2, <2>3, <2>4, <2>5 DEF WriteOK
<1>9. CASE provider = "namecheap"
  <2>1. ReadKeys(r) = Keys /\ Written(r) = [snap[r] EXCEPT ![k] = ReplaceFirst(snap[r][k], v)]
    BY <1>9 DEF ReadKeys, Written, NamecheapSet
  <2>2. snap[r] \in [Keys -> Seq(Vals)] /\ snap[r][k] \in Seq(Vals)
    BY <1>1, <2>1
  <2>3. ReadHolds(r) => \A j \in Keys : snap[r][j] = zone[j]
    BY <1>3, <2>1
  <2> DEFINE w == ReplaceFirst(snap[r][k], v)
  <2>4. w \in Seq(Vals) /\ w # <<>> /\ w[1] = v
    BY <1>1, <2>2, SetShape
  <2>5. ReadHolds(r) => w = ReplaceFirst(zone[k], v)
    BY <1>1, <2>3
  <2> HIDE DEF w
  <2>6. /\ Written(r) \in [Keys -> Seq(Vals)] /\ Written(r)[k] = w
        /\ \A j \in Keys \ {k} : Written(r)[j] = snap[r][j]
    BY <1>1, <2>1, <2>2, <2>4, ZoneExcept DEF w
  <2> QED
    BY <1>9, <2>2, <2>3, <2>4, <2>5, <2>6 DEF WriteOK
<1> QED
  BY <1>2, <1>6, <1>7, <1>8, <1>9

-----------------------------------------------------------------------------
(* Initially, and for each step.                                            *)

\* Nothing has been pushed or promised.
LEMMA InitIInv == Init => IInv
<1> SUFFICES ASSUME Init PROVE IInv
  OBVIOUS
<1>1. zone \in [Keys -> Seq(Vals)]
  <2>1. PICK a \in StartSeqs(ValsOf("TXT"), 2), b \in StartSeqs(SubVals(type), 1) :
          zone = [k \in Keys |-> IF k = "apex" THEN a ELSE b]
    BY DEF Init
  <2>2. a \in Seq(Vals)
    <3>1. a \in Seq(ValsOf("TXT"))
      BY DEF StartSeqs
    <3>2. ValsOf("TXT") \subseteq Vals
      BY DEF Vals, ValsOf
    <3> QED
      BY <3>1, <3>2
  <2>3. b \in Seq(Vals)
    <3>1. b \in Seq(SubVals(type))
      BY DEF StartSeqs
    <3>2. type \in {"TXT", "MX", "CNAME"}
      BY DEF Init, SubTypes
    <3>3. ValsOf(type) \subseteq Vals
      BY <3>2 DEF Vals, ValsOf
    <3>4. SubVals(type) \subseteq Vals
      BY <3>2, <3>3, StoredShape DEF SubVals
    <3> QED
      BY <3>1, <3>4
  <2> QED
    BY <2>1, <2>2, <2>3
<1>2. ShapeOK
  BY <1>1 DEF Init, ShapeOK, PCs, Statuses
<1>3. SettledOK
  BY DEF Init, SettledOK
<1>4. AckOK
  BY DEF Init, AckOK
<1>5. ASSUME NEW r \in Reqs PROVE UnderWay(r)
  BY <1>5 DEF Init, UnderWay
<1> QED
  BY <1>2, <1>3, <1>4, <1>5 DEF IInv

\* What push r does leaves the others under way as they were.
LEMMA OthersIInv ==
    ASSUME IInv, NEW r \in Reqs, UNCHANGED <<provider, type>>, ShapeOK', AckOK', SettledOK',
           \A q \in Reqs \ {r} : pc'[q] = pc[q] /\ op'[q] = op[q] /\ snap'[q] = snap[q],
           UnderWay(r)'
    PROVE  IInv'
<1>1. ASSUME NEW q \in Reqs \ {r} PROVE UnderWay(q)'
  <2>1. UnderWay(q)
    BY DEF IInv
  <2>2. ReadKeys(q)' = ReadKeys(q)
    BY <1>1 DEF ReadKeys
  <2>3. Fits(op[q]) => Fits(op[q])'
    BY <1>1 DEF Fits, TypeOf
  <2> QED
    BY <1>1, <2>1, <2>2, <2>3 DEF UnderWay
<1> QED
  BY <1>1 DEF IInv

\* A push begins.
LEMMA BeginIInv ==
    ASSUME IInv, NEW r \in Reqs, NEW o \in Asks[r], Begin(r, o)
    PROVE  IInv'
<1>1. /\ UNCHANGED <<provider, type, zone, listed, snap, settled, acked>>
      /\ pc' = [pc EXCEPT ![r] = "get"] /\ op' = [op EXCEPT ![r] = o] /\ status' = "none"
      /\ o \in Ops /\ (o.kind = "set" => o.arg \in ValsOf(TypeOf(o.key)))
  BY PushAssumption DEF Begin
<1>2. /\ pc'[r] = "get" /\ op'[r] = o
      /\ \A q \in Reqs \ {r} : pc'[q] = pc[q] /\ op'[q] = op[q] /\ snap'[q] = snap[q]
  BY <1>1 DEF IInv, ShapeOK
<1>3. ShapeOK'
  BY <1>1 DEF IInv, ShapeOK, PCs, Statuses
<1>4. Fits(o)'
  BY <1>1 DEF Fits, TypeOf
<1>5. UnderWay(r)'
  BY <1>2, <1>4 DEF UnderWay
<1>6. AckOK' /\ SettledOK'
  BY <1>1 DEF IInv, AckOK, SettledOK, Fits, Answers, TypeOf
<1> QED
  BY <1>1, <1>2, <1>3, <1>5, <1>6, OthersIInv

\* A push that returns: what it leaves of the zone is in order.
LEMMA ReturnIInv ==
    ASSUME IInv, NEW r \in Reqs, NEW st \in Statuses, Return(r, st),
           UNCHANGED <<provider, type>>, zone' \in [Keys -> Seq(Vals)],
           settled' \in [Keys -> Ops \cup {NoOp}], acked' \in SUBSET Includes,
           AckOK', SettledOK'
    PROVE  IInv'
<1>1. /\ pc' = [pc EXCEPT ![r] = "idle"] /\ op' = [op EXCEPT ![r] = NoOp]
      /\ listed' = [listed EXCEPT ![r] = <<>>]
      /\ snap' = [snap EXCEPT ![r] = NoVal] /\ status' = st
  BY DEF Return
<1>2. ShapeOK'
  BY <1>1 DEF IInv, ShapeOK, PCs
<1>3. /\ pc'[r] = "idle"
      /\ \A q \in Reqs \ {r} : pc'[q] = pc[q] /\ op'[q] = op[q] /\ snap'[q] = snap[q]
  BY <1>1 DEF IInv, ShapeOK
<1>4. UnderWay(r)'
  BY <1>3 DEF UnderWay
<1> QED
  BY <1>2, <1>3, <1>4, OthersIInv

\* What is promised of a zone stays true while it and the promises stay.
LEMMA PromisesStay ==
    ASSUME IInv, UNCHANGED <<provider, type, zone, settled>>, acked' \in SUBSET Includes,
           acked' \subseteq acked \cup CurrentIncludes(zone["apex"])
    PROVE  /\ zone' \in [Keys -> Seq(Vals)] /\ settled' \in [Keys -> Ops \cup {NoOp}]
           /\ AckOK' /\ SettledOK'
<1>1. zone["apex"] \in Seq(Vals)
  BY DEF IInv, ShapeOK, Keys
<1>2. AckOK'
  BY <1>1, CurrentIsPart DEF IInv, AckOK
<1> QED
  BY <1>2 DEF IInv, ShapeOK, SettledOK, Fits, Answers, TypeOf

\* What GetRecords lists is what the name has, or nothing.
LEMMA ListedIs ==
    ASSUME NEW s, NEW b
    PROVE  GetRecordsOf(provider, s, b) \in {s, <<>>}
BY DEF GetRecordsOf, Route53Get, GCDNSGet

\* GetRecords: the push returns, or goes on with what it saw.
LEMMA GetIInv ==
    ASSUME IInv, NEW r \in Reqs, GetRecords(r)
    PROVE  IInv'
<1>1. /\ UNCHANGED <<provider, type, zone, settled>> /\ pc[r] = "get"
      /\ zone["apex"] \in Seq(Vals) /\ acked \in SUBSET Includes
  BY DEF GetRecords, IInv, ShapeOK, Keys
<1>2. /\ op[r] \in Ops /\ op[r].key \in Keys /\ op[r].kind \in {"set", "spf"}
      /\ op[r].kind = "spf" => op[r].key = "apex" /\ op[r].incs \in SUBSET Includes
      /\ zone[op[r].key] \in Seq(Vals) /\ <<>> \in Seq(Vals)
  BY <1>1, DecisionIs, OpShape DEF Fits, IInv, ShapeOK
<1>3. CASE Return(r, "failed") /\ UNCHANGED acked
  BY <1>1, <1>3, PromisesStay, ReturnIInv DEF Statuses
<1>4. CASE \E s \in {GetRecordsOf(provider, zone[op[r].key], onPage) : onPage \in BOOLEAN} :
             AlreadyConfigured(op[r], s) /\ Return(r, "already_configured") /\ acked' = Ack(r)
  <2>1. PICK s \in {zone[op[r].key], <<>>} :
          AlreadyConfigured(op[r], s) /\ Return(r, "already_configured") /\ acked' = Ack(r)
    BY <1>4, ListedIs
  <2>2. CASE op[r].kind = "set"
    <3>1. acked' = acked
      BY <2>1, <2>2 DEF Ack
    <3> QED
      BY <1>1, <2>1, <3>1, PromisesStay, ReturnIInv DEF Statuses
  <2>3. CASE op[r].kind = "spf"
    <3>1. s \in Seq(Vals) /\ s \in {zone["apex"], <<>>} /\ op[r].incs \in SUBSET Includes
      BY <1>2, <2>3, Zenon
    <3>2. CurrentSPF(s) # NoVal /\ CurrentSPF(s) = MergedSPF(s, op[r].incs)
      BY <1>2, <2>1, <2>3 DEF AlreadyConfigured, Existing, Wanted, SameRecord, TypeOf
    <3>3. SPFRecords(s) # {}
      BY <3>1, <3>2, CurrentMember
    <3>4. s = zone["apex"]
      BY <3>1, <3>3 DEF SPFRecords
    <3>5. MergedSPF(s, op[r].incs).includes = CurrentIncludes(s) \cup op[r].incs
      BY <3>1, MergedShape
    <3>6. op[r].incs \subseteq CurrentIncludes(zone["apex"])
      BY <3>2, <3>4, <3>5 DEF CurrentIncludes
    <3>7. acked' = acked \cup op[r].incs
      BY <2>1, <2>3 DEF Ack
    <3>8. acked' \in SUBSET Includes /\ acked' \subseteq acked \cup CurrentIncludes(zone["apex"])
      BY <1>1, <3>1, <3>6, <3>7
    <3> QED
      BY <1>1, <2>1, <3>8, PromisesStay, ReturnIInv DEF Statuses
  <2> QED
    BY <1>2, <2>2, <2>3
<1>5. CASE \E s \in {GetRecordsOf(provider, zone[op[r].key], onPage) : onPage \in BOOLEAN} :
             /\ pc' = [pc EXCEPT ![r] = "read"] /\ listed' = [listed EXCEPT ![r] = s]
             /\ status' = "none" /\ UNCHANGED <<op, snap, acked>>
  <2>1. PICK s \in {zone[op[r].key], <<>>} :
             /\ pc' = [pc EXCEPT ![r] = "read"] /\ listed' = [listed EXCEPT ![r] = s]
             /\ status' = "none" /\ UNCHANGED <<op, snap, acked>>
    BY <1>5, ListedIs
  <2>2. s \in Seq(Vals)
    BY <1>2, <2>1, Zenon
  <2>3. ShapeOK'
    BY <1>1, <2>1, <2>2 DEF IInv, ShapeOK, PCs, Statuses
  <2>4. /\ pc'[r] = "read"
        /\ \A q \in Reqs \ {r} : pc'[q] = pc[q] /\ op'[q] = op[q] /\ snap'[q] = snap[q]
    BY <2>1 DEF IInv, ShapeOK
  <2>5. UnderWay(r)'
    BY <1>1, <2>1, <2>4 DEF IInv, UnderWay, Fits, TypeOf
  <2>6. AckOK' /\ SettledOK'
    BY <1>1, <2>1, PromisesStay
  <2> QED
    BY <1>1, <2>3, <2>4, <2>5, <2>6, OthersIInv
<1> QED
  BY <1>3, <1>4, <1>5 DEF GetRecords

\* SetRecord goes on with f as what it read.
LEMMA SnapIInv ==
    ASSUME IInv, NEW r \in Reqs, NEW f \in [ReadKeys(r) -> Seq(Vals)],
           pc[r] = "read", pc' = [pc EXCEPT ![r] = "write"],
           snap' = [snap EXCEPT ![r] = f], status' = "none",
           UNCHANGED <<provider, type, zone, op, listed, settled, acked>>
    PROVE  IInv'
<1>1. /\ pc'[r] = "write" /\ snap'[r] = f
      /\ \A q \in Reqs \ {r} : pc'[q] = pc[q] /\ op'[q] = op[q] /\ snap'[q] = snap[q]
  BY DEF IInv, ShapeOK
<1>2. ShapeOK'
  BY DEF IInv, ShapeOK, PCs, Statuses
<1>3. ReadKeys(r)' = ReadKeys(r)
  BY DEF ReadKeys
<1>4. UnderWay(r)'
  BY <1>1, <1>3 DEF IInv, UnderWay, Fits, TypeOf
<1>5. AckOK' /\ SettledOK'
  BY PromisesStay DEF IInv, ShapeOK
<1> QED
  BY <1>1, <1>2, <1>4, <1>5, OthersIInv

\* SetRecord's own read.
LEMMA ReadIInv ==
    ASSUME IInv, NEW r \in Reqs, ReadForWrite(r)
    PROVE  IInv'
<1>1. /\ pc[r] = "read" /\ UNCHANGED <<provider, type, zone, settled, acked>>
      /\ zone \in [Keys -> Seq(Vals)] /\ acked \in SUBSET Includes
  BY DEF ReadForWrite, IInv, ShapeOK
<1>2. ReadKeys(r) \subseteq Keys
  BY <1>1, DecisionIs DEF ReadKeys
<1>3. CASE /\ snap' = [snap EXCEPT ![r] = [k \in ReadKeys(r) |-> zone[k]]]
           /\ pc' = [pc EXCEPT ![r] = "write"] /\ status' = "none"
           /\ UNCHANGED <<op, listed>>
  <2> DEFINE f == [k \in ReadKeys(r) |-> zone[k]]
  <2>1. f \in [ReadKeys(r) -> Seq(Vals)]
    BY <1>1, <1>2
  <2>2. snap' = [snap EXCEPT ![r] = f]
    BY <1>3
  <2> HIDE DEF f
  <2> QED
    BY <1>1, <1>3, <2>1, <2>2, SnapIInv
<1>4. CASE /\ snap' = [snap EXCEPT ![r] = [k \in ReadKeys(r) |-> <<>>]]
           /\ pc' = [pc EXCEPT ![r] = "write"] /\ status' = "none"
           /\ UNCHANGED <<op, listed>>
  <2> DEFINE f == [k \in ReadKeys(r) |-> <<>>]
  <2>1. f \in [ReadKeys(r) -> Seq(Vals)]
    OBVIOUS
  <2>2. snap' = [snap EXCEPT ![r] = f]
    BY <1>4
  <2> HIDE DEF f
  <2> QED
    BY <1>1, <1>4, <2>1, <2>2, SnapIInv
<1>5. CASE Return(r, "failed")
  BY <1>1, <1>5, PromisesStay, ReturnIInv DEF Statuses
<1> QED
  BY <1>3, <1>4, <1>5 DEF ReadForWrite

\* What a justified write has at the head of its name, if it is not GoDaddy's,
\* and what any write of GoDaddy's leaves.
LEMMA EffectHolds ==
    ASSUME IInv, NEW r \in Reqs, pc[r] = "write", Effect(r),
           UNCHANGED <<provider, type>>, acked' \subseteq AckWrite(r)
    PROVE  /\ zone' \in [Keys -> Seq(Vals)]
           /\ settled' \in [Keys -> Ops \cup {NoOp}]
           /\ acked' \in SUBSET Includes
           /\ AckOK' /\ SettledOK'
<1>0. PICK k, v : k = op[r].key /\ v = Decision(r)
  OBVIOUS
<1>1. /\ zone' = Written(r)
      /\ settled' = [j \in Keys |->
                       CASE j \notin Replaced(r) -> settled[j]
                         [] j \in Replaced(r) /\ ~Justified(r) -> NoOp
                         [] j # op[r].key /\ Justified(r) -> settled[j]
                         [] OTHER -> op[r]]
  BY DEF Effect
<1>2. /\ Fits(op[r]) /\ op[r] \in Ops /\ k \in Keys /\ v \in Vals
      /\ op[r].kind \in {"set", "spf"} /\ op[r] # NoOp
      /\ op[r].kind = "set" => v = Stored(provider, TypeOf(k), op[r].arg)
      /\ op[r].kind = "spf" =>
           /\ k = "apex" /\ op[r].incs \in SUBSET Includes
           /\ v.spf /\ v.includes = CurrentIncludes(listed[r]) \cup op[r].incs
  BY <1>0, DecisionIs, OpShape DEF Fits
<1>3. /\ zone \in [Keys -> Seq(Vals)] /\ zone["apex"] \in Seq(Vals) /\ acked \in SUBSET Includes
      /\ settled \in [Keys -> Ops \cup {NoOp}] /\ "apex" \in Keys
  BY DEF IInv, ShapeOK, Keys
<1>4. WriteOK(r, k, v)
  BY <1>0, WrittenShape
<1>5. /\ zone' \in [Keys -> Seq(Vals)] /\ zone'[k] # <<>> /\ zone'[k] \in Seq(Vals) /\ zone'["apex"] \in Seq(Vals)
      /\ provider # "namecheap" \/ ReadHolds(r) => \A j \in Keys \ {k} : zone'[j] = zone[j]
      /\ provider # "godaddy" /\ Justified(r) => zone'[k][1] = v
      /\ provider = "godaddy" => v \in Members(zone'[k])
      /\ provider = "godaddy" /\ ReadHolds(r) => Members(zone[k]) \subseteq Members(zone'[k])
  BY <1>1, <1>2, <1>3, <1>4 DEF WriteOK
<1>6. Justified(r) => \A j \in Keys \ {k} : zone'[j] = zone[j]
  BY <1>1, <1>5 DEF Justified
<1>7. k \in Replaced(r) /\ (provider # "namecheap" => Replaced(r) = {k}) /\ (provider = "namecheap" => Replaced(r) = Keys)
  BY <1>0, <1>2 DEF Replaced
<1>8. /\ "apex" \in Replaced(r) /\ (~Justified(r) \/ (op[r].kind = "set" /\ k = "apex")) => acked' = {}
      /\ op[r].kind = "set" => acked' \subseteq acked
      /\ op[r].kind = "spf" => acked' \subseteq acked \cup op[r].incs
  BY <1>0, <1>2 DEF AckWrite, Ack
<1>9. acked' \in SUBSET Includes
  BY <1>2, <1>3, <1>8
<1>10. settled' \in [Keys -> Ops \cup {NoOp}]
  BY <1>1, <1>2, <1>3
<1>11. ASSUME acked' = {} PROVE AckOK'
  BY <1>11 DEF AckOK
<1>12. ASSUME op[r].kind = "set" /\ acked' # {} PROVE AckOK'
  <2>1. zone'["apex"] = zone["apex"]
    <3>1. CASE k = "apex"
      BY <1>7, <1>8, <1>12, <3>1
    <3>2. CASE k # "apex" /\ provider # "namecheap"
      BY <1>3, <1>5, <3>2
    <3>3. CASE k # "apex" /\ provider = "namecheap"
      BY <1>3, <1>6, <1>7, <1>8, <1>12, <3>3
    <3> QED
      BY <3>1, <3>2, <3>3
  <2>2. acked' \subseteq acked
    BY <1>8, <1>12
  <2> QED
    BY <2>1, <2>2 DEF IInv, AckOK
<1>13. ASSUME op[r].kind = "spf" /\ acked' # {} PROVE AckOK'
  <2>1. Justified(r) /\ k = "apex" /\ acked' \subseteq acked \cup op[r].incs
    BY <1>2, <1>7, <1>8, <1>13
  <2>2. CASE provider # "godaddy"
    <3>1. CurrentIncludes(zone'["apex"]) = v.includes
      BY <1>2, <1>5, <1>13, <2>1, <2>2, CurrentFirst
    <3>2. acked \subseteq v.includes
      <4>1. acked \subseteq CurrentIncludes(zone["apex"])
        BY <2>2 DEF IInv, AckOK
      <4>2. CASE Written(r) = zone
        BY <1>1, <3>1, <4>1, <4>2
      <4>3. CASE listed[r] = zone["apex"]
        BY <1>2, <1>13, <4>1, <4>3
      <4> QED
        BY <1>13, <2>1, <2>2, <4>2, <4>3 DEF Justified
    <3>3. acked' \subseteq CurrentIncludes(zone'["apex"])
      BY <1>2, <1>13, <2>1, <3>1, <3>2
    <3> QED
      BY <2>2, <3>3 DEF AckOK
  <2>3. CASE provider = "godaddy"
    <3>1. Members(zone["apex"]) \subseteq Members(zone'["apex"])
      BY <1>1, <1>5, <2>1, <2>3 DEF Justified
    <3>2. IncludesOf(zone["apex"]) \subseteq IncludesOf(zone'["apex"])
      BY <1>3, <1>5, <3>1, IncludesGrow
    <3>3. PICK i \in 1..Len(zone'["apex"]) : zone'["apex"][i] = v
      BY <1>5, <2>1, <2>3 DEF Members
    <3>4. v.includes \subseteq IncludesOf(zone'["apex"])
      BY <1>2, <1>13, <3>3 DEF IncludesOf, SPFRecords
    <3>5. acked \subseteq IncludesOf(zone["apex"])
      BY <2>3 DEF IInv, AckOK
    <3>6. acked' \subseteq IncludesOf(zone'["apex"])
      BY <1>2, <1>13, <2>1, <3>2, <3>4, <3>5
    <3> QED
      BY <2>3, <3>6 DEF AckOK
  <2> QED
    BY <2>2, <2>3
<1>14. SettledOK'
  <2> SUFFICES ASSUME provider # "godaddy", NEW j \in Keys, NEW o, o = settled'[j], o # NoOp, NEW s, s = zone'[j]
               PROVE  Fits(o) /\ Answers(s, o)
    BY DEF SettledOK, Fits, Answers, TypeOf
  <2>1. CASE settled'[j] = settled[j] /\ zone'[j] = zone[j]
    BY <2>1 DEF IInv, SettledOK
  <2>2. CASE j = k /\ settled'[j] = op[r] /\ Justified(r)
    <3>1. s # <<>> /\ s[1] = v
      BY <1>5, <2>2
    <3>2. Answers(s, o)
      BY <1>0, <1>2, <2>2, <3>1 DEF Answers
    <3> QED
      BY <1>2, <2>2, <3>2
  <2>3. CASE j \notin Replaced(r)
    BY <1>1, <1>5, <1>7, <2>1, <2>3
  <2>4. CASE j \in Replaced(r) /\ ~Justified(r)
    BY <1>1, <2>4
  <2>5. CASE j \in Replaced(r) /\ Justified(r) /\ j # k
    BY <1>0, <1>1, <1>6, <2>1, <2>5
  <2>6. CASE j = k /\ Justified(r)
    BY <1>0, <1>1, <1>7, <2>2, <2>6
  <2> QED
    BY <2>3, <2>4, <2>5, <2>6
<1> QED
  BY <1>2, <1>5, <1>9, <1>10, <1>11, <1>12, <1>13, <1>14

\* GoDaddy's client sends its PUT again.
LEMMA ResendIInv ==
    ASSUME IInv, NEW r \in Reqs, Resend(r)
    PROVE  IInv'
<1>1. /\ pc[r] = "write" /\ Effect(r) /\ acked' \subseteq AckWrite(r) /\ status' = "none"
      /\ UNCHANGED <<provider, type, pc, op, listed, snap>>
  BY DEF Resend, reqVars
<1>2. /\ zone' \in [Keys -> Seq(Vals)] /\ settled' \in [Keys -> Ops \cup {NoOp}]
      /\ acked' \in SUBSET Includes /\ AckOK' /\ SettledOK'
  BY <1>1, EffectHolds
<1>3. ShapeOK'
  BY <1>1, <1>2 DEF IInv, ShapeOK, Statuses
<1>4. UnderWay(r)'
  BY <1>1 DEF IInv, UnderWay, Fits, TypeOf, ReadKeys
<1> QED
  BY <1>1, <1>2, <1>3, <1>4, OthersIInv

\* SetRecord's write: it takes effect, with or without an answer, or it is refused.
LEMMA SetIInv ==
    ASSUME IInv, NEW r \in Reqs, SetRecord(r)
    PROVE  IInv'
<1>1. pc[r] = "write" /\ UNCHANGED <<provider, type>> /\ acked \in SUBSET Includes
  BY DEF SetRecord, IInv, ShapeOK
<1>2. CASE \E st \in Statuses : Effect(r) /\ Return(r, st) /\ acked' \subseteq AckWrite(r)
  <2>1. PICK st \in Statuses : Effect(r) /\ Return(r, st) /\ acked' \subseteq AckWrite(r)
    BY <1>2
  <2>2. /\ zone' \in [Keys -> Seq(Vals)] /\ settled' \in [Keys -> Ops \cup {NoOp}]
        /\ acked' \in SUBSET Includes /\ AckOK' /\ SettledOK'
    BY <1>1, <2>1, EffectHolds
  <2> QED
    BY <1>1, <2>1, <2>2, ReturnIInv
<1>3. CASE Return(r, "failed") /\ UNCHANGED <<zone, settled, acked>>
  BY <1>1, <1>3, PromisesStay, ReturnIInv DEF Statuses
<1>4. \/ \E st \in Statuses : Effect(r) /\ Return(r, st) /\ acked' \subseteq AckWrite(r)
      \/ Return(r, "failed") /\ UNCHANGED <<zone, settled, acked>>
  BY DEF SetRecord, Statuses
<1> QED
  BY <1>2, <1>3, <1>4

LEMMA NextIInv == IInv /\ [Next]_vars => IInv'
<1> SUFFICES ASSUME IInv, [Next]_vars PROVE IInv'
  OBVIOUS
<1>1. CASE Next
  <2>1. PICK r \in Reqs : (\E o \in Asks[r] : Begin(r, o)) \/ Push(r)
    BY <1>1 DEF Next
  <2> QED
    BY <2>1, BeginIInv, GetIInv, ReadIInv, SetIInv, ResendIInv DEF Push
<1>2. CASE UNCHANGED vars
  <2>1. UNCHANGED <<provider, type, zone, pc, op, listed, snap, status, settled, acked>>
    BY <1>2 DEF vars
  <2>2. ShapeOK' /\ SettledOK' /\ AckOK'
    BY <2>1 DEF IInv, ShapeOK, SettledOK, AckOK, Fits, Answers, TypeOf
  <2>3. ASSUME NEW q \in Reqs PROVE UnderWay(q)'
    BY <2>1 DEF IInv, UnderWay, ReadKeys, Fits, TypeOf
  <2> QED
    BY <2>2, <2>3 DEF IInv
<1> QED
  BY <1>1, <1>2

LEMMA Invariance == Spec => []IInv
<1> QED
  BY InitIInv, NextIInv, PTL DEF Spec

-----------------------------------------------------------------------------
(* The theorems.                                                            *)

\* PushSafe of PushService.tla: records, requests and results are well formed,
\* and includes that PushSPFRecord reported as present stay in an SPF record,
\* over pushes that interleave, until a text is pushed to their name or a write
\* rests on a read that does not hold.
THEOREM PushesAreSafe == Spec => []PushSafe
<1>1. ASSUME IInv PROVE TypeOK
  <2>1. \A k \in Keys : \A i \in 1..Len(zone[k]) : zone[k][i] \in Vals
    BY <1>1 DEF IInv, ShapeOK
  <2>2. ASSUME NEW r \in Reqs
        PROVE  /\ pc[r] \in {"idle", "get", "read", "write"}
               /\ op[r] \in Ops \cup {NoOp}
               /\ \A i \in 1..Len(listed[r]) : listed[r][i] \in Vals
    <3>1. listed[r] \in Seq(Vals)
      BY <1>1 DEF IInv, ShapeOK
    <3> QED
      BY <1>1, <3>1 DEF IInv, ShapeOK, PCs
  <2>3. /\ provider \in Providers /\ type \in SubTypes /\ status \in Statuses
        /\ settled \in [Keys -> Ops \cup {NoOp}] /\ acked \subseteq Includes
    BY <1>1 DEF IInv, ShapeOK
  <2> QED
    BY <2>1, <2>2, <2>3 DEF TypeOK
<1>2. ASSUME IInv PROVE IncludesKept
  <2>1. zone["apex"] \in Seq(Vals)
    BY <1>2 DEF IInv, ShapeOK, Keys
  <2>2. acked \subseteq IncludesOf(zone["apex"])
    BY <1>2, <2>1, CurrentIsPart DEF IInv, AckOK
  <2> QED
    BY <2>2 DEF IncludesKept, IncludesOf
<1>3. IInv => PushSafe
  BY <1>1, <1>2 DEF PushSafe
<1> QED
  BY <1>3, Invariance, PTL

\* Only a write changes the zone.
LEMMA ZoneSteps ==
    ASSUME [Next]_vars
    PROVE  zone' = zone \/ \E r \in Reqs : pc[r] = "write" /\ ~Conflict(r) /\ zone' = Written(r)
<1>1. CASE UNCHANGED vars
  BY <1>1 DEF vars
<1>2. CASE Next
  <2>1. PICK r \in Reqs : (\E o \in Asks[r] : Begin(r, o)) \/ Push(r)
    BY <1>2 DEF Next
  <2>2. CASE (\E o \in Asks[r] : Begin(r, o)) \/ GetRecords(r) \/ ReadForWrite(r)
    BY <2>2 DEF Begin, GetRecords, ReadForWrite
  <2>3. CASE SetRecord(r)
    BY <2>3 DEF SetRecord, Effect
  <2>4. CASE Resend(r)
    BY <2>4 DEF Resend, Effect
  <2> QED
    BY <2>1, <2>2, <2>3, <2>4 DEF Push
<1> QED
  BY <1>1, <1>2

\* NeverEmptied: whichever call fails and however pushes interleave, a name that
\* has a record keeps at least one; with Namecheap, unless the zone has changed
\* since SetRecord read it.
THEOREM NamesStayServed == Spec => NeverEmptied
<1> DEFINE Served(j) ==
      \/ zone'[j] # <<>>
      \/ provider = "namecheap" /\ \E r \in Reqs : pc[r] = "write" /\ ~ReadHolds(r)
<1>1. ASSUME IInv, [Next]_vars, NEW j \in Keys, zone[j] # <<>>
      PROVE  Served(j)
  <2>1. CASE zone' = zone
    BY <1>1, <2>1
  <2>2. CASE \E r \in Reqs : pc[r] = "write" /\ ~Conflict(r) /\ zone' = Written(r)
    <3>1. PICK r \in Reqs : pc[r] = "write" /\ zone' = Written(r)
      BY <2>2
    <3>2. PICK k, v : k = op[r].key /\ v = Decision(r)
      OBVIOUS
    <3>3. WriteOK(r, k, v)
      BY <1>1, <3>1, <3>2, WrittenShape
    <3>4. zone'[k] # <<>> /\ (provider # "namecheap" \/ ReadHolds(r) => \A i \in Keys \ {k} : zone'[i] = zone[i])
      BY <3>1, <3>3 DEF WriteOK
    <3> QED
      BY <1>1, <3>1, <3>4
  <2> QED
    BY <1>1, <2>1, <2>2, ZoneSteps
<1>2. IInv /\ [Next]_vars => [\A k \in Keys : zone[k] # <<>> => Served(k)]_vars
  BY <1>1
<1> QED
  BY <1>2, Invariance, PTL DEF Spec, NeverEmptied

\* Once a push is to write, its step out of there is its own SetRecord.
LEMMA WriteSteps ==
    ASSUME IInv, [Next]_vars, NEW r \in Reqs, Writes(r)
    PROVE  pc[r] = "write" /\ (zone' = zone \/ (zone' = Written(r) /\ ~Conflict(r)))
<1>1. pc[r] = "write"
  BY DEF Writes
<1>2. CASE provider = "godaddy" /\ zone' = Written(r)
  BY <1>1, <1>2 DEF Conflict
<1>3. CASE pc'[r] = "idle"
  <2>1. PICK p \in Reqs : (\E o \in Asks[p] : Begin(p, o)) \/ Push(p)
    BY <1>1, <1>3 DEF Next, vars
  <2>2. CASE p # r
    <3>1. pc' = pc \/ \E x : pc' = [pc EXCEPT ![p] = x]
      BY <2>1 DEF Begin, Push, GetRecords, ReadForWrite, SetRecord, Resend, Return, reqVars
    <3>2. pc'[r] = pc[r]
      BY <2>2, <3>1 DEF IInv, ShapeOK
    <3> QED
      BY <1>1, <1>3, <3>2
  <2>3. CASE p = r
    <3>1. SetRecord(r) \/ Resend(r)
      BY <1>1, <2>1, <2>3 DEF Begin, Push, GetRecords, ReadForWrite
    <3> QED
      BY <1>1, <3>1 DEF SetRecord, Resend, Effect
  <2> QED
    BY <2>2, <2>3
<1> QED
  BY <1>2, <1>3 DEF Writes

\* SiblingsKept: what a write of any push may remove at its name, for each of the
\* providers: the record the push reports, the first one if an SPF push overwrites
\* it, nothing with GoDaddy, nothing unread with Cloud DNS.
THEOREM SiblingsStay == Spec => SiblingsKept
<1> DEFINE KeepsSiblings(r) ==
      LET k    == op[r].key
          gone == Members(zone[k]) \ Members(zone'[k])
          held == listed[r] = zone[k] /\ ReadHolds(r)
          first == IF op[r].kind = "spf" THEN {FindRecord(zone[k])} ELSE {}
      IN  Writes(r) =>
            CASE provider = "gcdns" -> gone \subseteq Members(snap[r][k])
              [] provider = "godaddy" -> ReadHolds(r) => gone = {}
              [] provider \in {"cloudflare", "namecheap"} ->
                    held => gone \subseteq {Existing(op[r], listed[r])} \cup first
              [] OTHER -> TRUE
<1>1. ASSUME IInv, [Next]_vars, NEW r \in Reqs, Writes(r),
             NEW k, k = op[r].key, NEW gone, gone = Members(zone[k]) \ Members(zone'[k])
      PROVE  /\ provider = "gcdns" => gone \subseteq Members(snap[r][k])
             /\ provider = "godaddy" => (ReadHolds(r) => gone = {})
             /\ provider \in {"cloudflare", "namecheap"} /\ ReadHolds(r) => gone \subseteq {FindRecord(zone[k])}
  <2>0. pc[r] = "write" /\ (zone' = zone \/ (zone' = Written(r) /\ ~Conflict(r)))
    BY <1>1, WriteSteps
  <2>1. CASE zone' = zone
    BY <1>1, <2>1
  <2>2. CASE zone' = Written(r) /\ ~Conflict(r)
    <3>1. PICK v : v = Decision(r)
      OBVIOUS
    <3>2. WriteOK(r, k, v)
      BY <1>1, <2>0, <3>1, WrittenShape
    <3>3. zone[k] \in Seq(Vals) /\ v \in Vals
      BY <1>1, <2>0, <3>1, DecisionIs DEF IInv, ShapeOK
    <3>4. CASE provider = "gcdns"
      <4>1. ReadKeys(r) = {k} /\ ReadHolds(r)
        BY <1>1, <2>2, <3>4 DEF ReadKeys, Conflict
      <4>2. snap[r][k] = zone[k]
        BY <4>1 DEF ReadHolds
      <4> QED
        BY <1>1, <3>4, <4>2
    <3>5. CASE provider = "godaddy"
      BY <1>1, <2>2, <3>2, <3>5 DEF WriteOK
    <3>6. CASE provider \in {"cloudflare", "namecheap"} /\ ReadHolds(r)
      <4>1. zone'[k] = ReplaceFirst(zone[k], v)
        BY <2>2, <3>2, <3>6 DEF WriteOK
      <4>2. CASE zone[k] = <<>>
        <5>1. Members(zone[k]) = {}
          BY <4>2 DEF Members
        <5> QED
          BY <1>1, <3>6, <5>1
      <4>3. CASE zone[k] # <<>>
        <5>1. Members(zone[k]) \ {zone[k][1]} \subseteq Members(ReplaceFirst(zone[k], v))
          BY <3>3, <4>3, SetShape
        <5>2. FindRecord(zone[k]) = zone[k][1]
          BY <4>3 DEF FindRecord
        <5>3. gone \subseteq {FindRecord(zone[k])}
          BY <1>1, <4>1, <5>1, <5>2
        <5> QED
          BY <3>6, <5>3
      <4> QED
        BY <4>2, <4>3
    <3> QED
      BY <3>4, <3>5, <3>6
  <2> QED
    BY <2>0, <2>1, <2>2
<1>2. ASSUME IInv, [Next]_vars, NEW r \in Reqs PROVE KeepsSiblings(r)
  <2> SUFFICES ASSUME Writes(r) PROVE KeepsSiblings(r)
    OBVIOUS
  <2>1. PICK k, gone : k = op[r].key /\ gone = Members(zone[k]) \ Members(zone'[k])
    OBVIOUS
  <2>2. /\ provider = "gcdns" => gone \subseteq Members(snap[r][k])
        /\ provider = "godaddy" => (ReadHolds(r) => gone = {})
        /\ provider \in {"cloudflare", "namecheap"} /\ ReadHolds(r) => gone \subseteq {FindRecord(zone[k])}
    BY <1>1, <1>2, <2>1
  <2>3. Fits(op[r]) /\ op[r].kind \in {"set", "spf"}
    BY <1>2, DecisionIs, OpShape DEF Writes, Fits
  <2>4. op[r].kind = "set" => Existing(op[r], zone[k]) = FindRecord(zone[k])
    BY DEF Existing
  <2>5. provider \in {"cloudflare", "namecheap"} /\ listed[r] = zone[k] /\ ReadHolds(r) =>
          gone \subseteq {Existing(op[r], listed[r])} \cup (IF op[r].kind = "spf" THEN {FindRecord(zone[k])} ELSE {})
    BY <2>2, <2>3, <2>4
  <2>6. CASE provider = "gcdns"
    BY <2>1, <2>2, <2>6
  <2>7. CASE provider = "godaddy"
    BY <2>1, <2>2, <2>7
  <2>8. CASE provider \in {"cloudflare", "namecheap"}
    BY <2>1, <2>5, <2>8
  <2>9. CASE provider \notin {"gcdns", "godaddy", "cloudflare", "namecheap"}
    BY <2>9
  <2> QED
    BY <2>6, <2>7, <2>8, <2>9
<1> HIDE DEF KeepsSiblings
<1>3. IInv /\ [Next]_vars => \A r \in Reqs : KeepsSiblings(r)
  BY <1>2
<1>4. IInv /\ [Next]_vars => [\A r \in Reqs : KeepsSiblings(r)]_vars
  BY <1>3
<1> USE DEF KeepsSiblings
<1> QED
  BY <1>4, Invariance, PTL DEF Spec, SiblingsKept

\* A request that is answered by the records of its name is found there.
LEMMA AnsweredIsFound ==
    ASSUME IInv, NEW o, Fits(o), ComesBack(o), NEW s \in Seq(Vals), Answers(s, o)
    PROVE  AlreadyConfigured(o, s)
<1>1. /\ o \in Ops /\ o.kind \in {"set", "spf"}
      /\ o.kind = "spf" => o.key = "apex" /\ o.incs \in SUBSET Includes
  BY OpShape DEF Fits
<1>2. s # <<>> /\ s[1] \in Vals /\ s[1] # NoVal
  <2>1. s # <<>> /\ s[1] \in Vals
    BY DEF Answers
  <2> QED
    BY <2>1, ValShape
<1>3. CASE o.kind = "set"
  <2>1. s[1] = o.arg
    BY <1>3 DEF Answers, ComesBack
  <2> QED
    BY <1>2, <1>3, <2>1 DEF AlreadyConfigured, Existing, Wanted, FindRecord, SameRecord
<1>4. CASE o.kind = "spf"
  <2>1. s[1].spf /\ o.incs \subseteq s[1].includes
    BY <1>4 DEF Answers
  <2>2. CurrentSPF(s) = s[1] /\ CurrentIncludes(s) = s[1].includes
    BY <1>2, <2>1, CurrentFirst
  <2>3. MergedSPF(s, o.incs) = SPF(s[1].includes \cup o.incs)
    BY <1>1, <1>4, <2>2, MergedShape
  <2>4. s[1].includes \cup o.incs = s[1].includes
    BY <2>1
  <2>5. s[1] = SPF(s[1].includes)
    BY <1>2, <2>1, ValShape
  <2>6. MergedSPF(s, o.incs) = s[1]
    BY <2>3, <2>4, <2>5
  <2> QED
    BY <1>1, <1>2, <1>4, <2>2, <2>6 DEF AlreadyConfigured, Existing, Wanted, SameRecord, TypeOf
<1> QED
  BY <1>1, <1>3, <1>4

\* Idempotent: a push of what was written last to its name finds its record and
\* writes nothing, also when the first attempt reported an error, and however
\* pushes overlap, unless the name is off the page that is listed or the priority
\* does not come back.
THEOREM PushesAreIdempotent == Spec => Idempotent
<1> DEFINE Found(r) ==
      LET k == op[r].key IN
      /\ pc[r] = "get" /\ pc'[r] = "read"
      /\ op[r] = settled[k] /\ ComesBack(op[r])
      /\ provider # "godaddy"
      => listed'[r] # zone[k]
<1>1. ASSUME IInv, [Next]_vars, NEW r \in Reqs, NEW k, k = op[r].key,
             pc[r] = "get", pc'[r] = "read", op[r] = settled[k], ComesBack(op[r]), provider # "godaddy"
      PROVE  listed'[r] # zone[k]
  <2>1. Fits(op[r]) /\ op[r] # NoOp /\ k \in Keys /\ zone[k] \in Seq(Vals)
    BY <1>1, DecisionIs, OpShape DEF Fits, IInv, ShapeOK
  <2>2. Answers(zone[k], op[r])
    BY <1>1, <2>1 DEF IInv, SettledOK
  <2>3. AlreadyConfigured(op[r], zone[k])
    BY <1>1, <2>1, <2>2, AnsweredIsFound
  <2>4. PICK p \in Reqs : (\E o \in Asks[p] : Begin(p, o)) \/ Push(p)
    BY <1>1 DEF Next, vars
  <2>5. CASE p # r
    <3>1. pc' = pc \/ \E x : pc' = [pc EXCEPT ![p] = x]
      BY <2>4 DEF Begin, Push, GetRecords, ReadForWrite, SetRecord, Resend, Return, reqVars
    <3>2. pc'[r] = pc[r]
      BY <1>1, <2>5, <3>1 DEF IInv, ShapeOK
    <3> QED
      BY <1>1, <3>2
  <2>6. CASE p = r
    <3>1. GetRecords(r)
      BY <1>1, <2>4, <2>6 DEF Begin, Push, ReadForWrite, SetRecord, Resend
    <3>2. /\ \A st : Return(r, st) => pc'[r] = "idle"
          /\ \A s : listed' = [listed EXCEPT ![r] = s] => listed'[r] = s
      BY <1>1 DEF Return, IInv, ShapeOK
    <3>3. PICK s : ~AlreadyConfigured(op[r], s) /\ listed' = [listed EXCEPT ![r] = s]
      BY <1>1, <3>1, <3>2 DEF GetRecords
    <3> QED
      BY <2>3, <3>2, <3>3
  <2> QED
    BY <2>5, <2>6
<1>2. IInv /\ [Next]_vars => [\A r \in Reqs : Found(r)]_vars
  BY <1>1
<1> QED
  BY <1>2, Invariance, PTL DEF Spec, Idempotent

-----------------------------------------------------------------------------
(* What a push keeps of a merge.                                            *)

\* The include targets of a record, qualified or not.
IsInclude(t) == t.kind \in {"include", "+include"}

IncludesIn(rec) ==
    IF IsRecord(rec)
    THEN {t.dom : t \in {x \in Range(rec) : IsInclude(x)}} ELSE {}

\* A merge adds nothing but the includes asked for and an "all".
LEMMA MergedOnly ==
    ASSUME NEW rec, NEW incs, Mergeable(rec, incs), NEW t \in Range(Merged(rec, incs))
    PROVE  \/ IsRecord(rec) /\ t \in Range(rec)
           \/ \E inc \in Range(incs) : t = Include(inc)
           \/ t \in {Term("-all"), Term("~all")}
<1>0. (IsRecord(rec) => rec \in Records) /\ incs \in Seq(Domains)
  BY DEF Mergeable
<1>1. CASE ~IsRecord(rec)
  <2>1. t \in Range(buildFresh(incs))
    BY <1>1 DEF Merged
  <2>2. PICK k \in 1..(Len(incs) + 1) : t = buildFresh(incs)[k] /\ Len(incs) \in Nat
    BY <1>0, <2>1, FreshRecordOK, RangeIs DEF Records
  <2>3. CASE k = Len(incs) + 1
    BY <1>0, <2>2, <2>3, FreshRecordOK
  <2>4. CASE k # Len(incs) + 1
    <3>1. k \in 1..Len(incs)
      BY <2>2, <2>4
    <3>2. t = Include(incs[k]) /\ incs[k] \in Range(incs)
      BY <1>0, <2>2, <3>1, FreshRecordOK, RangeIs
    <3> QED BY <3>2
  <2> QED BY <2>3, <2>4
<1>2. CASE IsRecord(rec) /\ Additions(rec, incs) = <<>>
  BY <1>2 DEF Merged
<1>3. CASE IsRecord(rec) /\ Additions(rec, incs) # <<>>
  <2> DEFINE adds == Additions(rec, incs)
             i == InsertAt(rec)
             pre == SubSeq(rec, 1, i - 1)
             post == SubSeq(rec, i, Len(rec))
             end == IF i > Len(rec) THEN <<Term("-all")>> ELSE <<>>
  <2>1. adds \in Records /\ rec \in Records /\ \A x \in Range(adds) : \E inc \in Range(incs) : x = Include(inc)
    BY <1>0, <1>3, AdditionsOK
  <2>2. /\ pre \in Seq(Terms) /\ post \in Seq(Terms) /\ pre \o post = rec /\ end \in Seq(Terms)
        /\ Inserted(rec, adds) = ((pre \o adds) \o post) \o end
    <3> HIDE DEF adds
    <3> QED BY <2>1, InsertedOK DEF Records
  <2>3. t \in Range(((pre \o adds) \o post) \o end)
    BY <1>3, <2>2 DEF Merged
  <2>4. \A x \in Range(end) : x = Term("-all")
    BY DEF Range
  <2>5. adds \in Seq(Terms)
    BY <2>1 DEF Records
  <2> HIDE DEF adds, pre, post, end, i
  <2>6. PICK a, b : a = pre \o adds /\ b = a \o post
    OBVIOUS
  <2>7. a \in Seq(Terms) /\ b \in Seq(Terms)
    BY <2>2, <2>5, <2>6, ConcatProperties
  <2>8. /\ Range(b \o end) = Range(b) \cup Range(end)
        /\ Range(a \o post) = Range(a) \cup Range(post)
        /\ Range(pre \o adds) = Range(pre) \cup Range(adds)
        /\ Range(pre \o post) = Range(pre) \cup Range(post)
    <3>1. \A p, q \in Seq(Terms) : Range(p \o q) = Range(p) \cup Range(q)
      BY RangeConcatenation
    <3> QED BY <2>2, <2>5, <2>7, <3>1, Zenon
  <2>9. t \in Range(pre) \cup Range(post) \cup Range(adds) \cup Range(end)
    BY <2>3, <2>6, <2>8
  <2>10. Range(rec) = Range(pre) \cup Range(post)
    BY <2>2, <2>8
  <2> QED BY <1>3, <2>1, <2>4, <2>9, <2>10
<1> QED BY <1>1, <1>2, <1>3

\* MergeSPF as the pushes and the applied requests use it: whatever
\* else a record holds and wherever the terms are put, the includes of the merged
\* record, qualified or not, are those it had and those asked for.  That is what MergedSPF of
\* ProviderZone says of the first SPF record at a name, the abstraction under
\* which those modules keep of a record only its includes.  Left out there is the
\* include whose name begins that of one which is present.
THEOREM MergesAgree ==
    ASSUME NEW rec, NEW incs, Mergeable(rec, incs),
           \A inc \in Range(incs), d \in Domains : <<inc, d>> \notin Prefixes
    PROVE  /\ IncludesIn(Merged(rec, incs)) = IncludesIn(rec) \cup Range(incs)
           /\ \A s \in Seq(Vals) :
                 CurrentIncludes(s) = IncludesIn(rec) =>
                    MergedSPF(s, Range(incs)) = SPF(IncludesIn(Merged(rec, incs)))
<1> DEFINE new == Merged(rec, incs)
<1>0. (IsRecord(rec) => rec \in Records) /\ incs \in Seq(Domains) /\ Range(incs) \subseteq Domains
  BY RangeIs DEF Mergeable
<1>1. new \in Records /\ (IsRecord(rec) => Range(rec) \subseteq Range(new))
  BY MergedOK
<1>2. IsRecord(new)
  BY <1>1, SPFAssumption DEF IsRecord
<1>3. \A t \in Range(new) : \/ IsRecord(rec) /\ t \in Range(rec)
                            \/ \E inc \in Range(incs) : t = Include(inc)
                            \/ t \in {Term("-all"), Term("~all")}
  BY MergedOnly
<1>4. ASSUME NEW inc \in Range(incs)
      PROVE  \/ Include(inc) \in Range(new)
             \/ \E t \in Range(rec) : IsRecord(rec) /\ IsInclude(t) /\ t.dom = inc
  <2>1. Include(inc) \in Range(new) \/ (IsRecord(rec) /\ Contains(rec, inc))
    BY MergedOK, Zenon
  <2>2. CASE IsRecord(rec) /\ Contains(rec, inc)
    <3>1. PICK t \in Range(rec) :
             t.kind \in {"include", "+include"} /\ (t.dom = inc \/ <<inc, t.dom>> \in Prefixes)
      BY <2>2 DEF Contains
    <3>2. <<inc, t.dom>> \in Prefixes => t.dom \in Domains
      BY SPFAssumption
    <3>3. t.dom = inc
      BY <3>1, <3>2
    <3> QED BY <2>2, <3>1, <3>3 DEF IsInclude
  <2> QED BY <2>1, <2>2
<1>5. ~IsInclude(Term("-all")) /\ ~IsInclude(Term("~all"))
  BY DEF IsInclude, Term
<1>6. \A inc \in Range(incs) : IsInclude(Include(inc)) /\ Include(inc).dom = inc
  BY DEF IsInclude, Include
<1> HIDE DEF new
<1>7. IncludesIn(new) = IncludesIn(rec) \cup Range(incs)
  <2>1. ASSUME NEW d \in IncludesIn(new) PROVE d \in IncludesIn(rec) \cup Range(incs)
    <3>1. PICK t \in Range(new) : IsInclude(t) /\ t.dom = d
      BY <1>2 DEF IncludesIn
    <3>2. CASE IsRecord(rec) /\ t \in Range(rec)
      BY <3>1, <3>2 DEF IncludesIn
    <3>3. CASE \E inc \in Range(incs) : t = Include(inc)
      BY <1>6, <3>1, <3>3
    <3> QED BY <1>3, <1>5, <3>1, <3>2, <3>3
  <2>2. ASSUME NEW d \in IncludesIn(rec) PROVE d \in IncludesIn(new)
    <3>1. IsRecord(rec)
      BY <2>2 DEF IncludesIn
    <3>2. PICK t \in Range(rec) : IsInclude(t) /\ t.dom = d
      BY <2>2, <3>1 DEF IncludesIn
    <3> QED BY <1>1, <1>2, <3>1, <3>2 DEF IncludesIn
  <2>3. ASSUME NEW d \in Range(incs) PROVE d \in IncludesIn(new)
    <3>1. CASE Include(d) \in Range(new)
      BY <1>2, <1>6, <2>3, <3>1 DEF IncludesIn
    <3>2. CASE \E t \in Range(rec) : IsRecord(rec) /\ IsInclude(t) /\ t.dom = d
      BY <1>1, <1>2, <3>2 DEF IncludesIn
    <3> QED BY <1>4, <2>3, <3>1, <3>2
  <2> QED BY <2>1, <2>2, <2>3
<1>8. \A s \in Seq(Vals) : MergedSPF(s, Range(incs)) = SPF(CurrentIncludes(s) \cup Range(incs))
  BY DEF MergedSPF, CurrentIncludes
<1> QED BY <1>7, <1>8 DEF new
=============================================================================
