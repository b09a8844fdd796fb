--------------------------- MODULE ZoneScrapeProofs ---------------------------
(***************************************************************************)
(* Proofs about ZoneScrape for every finite set of names, every zone, any   *)
(* number of nameservers and failures and any bound on the CNAMEs followed: *)
(* what is scraped is of the zone and without duplicates, what fits into a  *)
(* reply and is not scraped is warned of, and a file is read back but for   *)
(* what the BIND format cannot hold.  That a scrape ends is left to TLC.    *)
(***************************************************************************)
EXTENDS ZoneScrape, SequenceTheorems, FunctionTheorems, FiniteSetTheorems,
        WellFoundedInduction, TLAPS

-----------------------------------------------------------------------------
(* The inductive invariant.                                                 *)

ZoneRecords == {rec \in ZoneRRs : Kept(rec)}
Items == [name : Names, depth : 0..MaxDepth]

ShapeOK ==
    /\ zone \in Zones
    /\ chase \in BOOLEAN
    /\ pc \in {"lookup", "axfr", "query", "scraped", "failed", "imported", "unreadable"}
    /\ usable \in 0..Servers
    /\ ns \in 1..(Servers + 1)
    /\ faults \in 0..MaxFaults
    /\ queue \in Seq(Items)
    /\ seen \in SUBSET Names
    /\ qtype \in 1..Len(QueryTypes)
    /\ records \in Seq(ZoneRecords)
    /\ source \in {"none", "axfr", "iterated"}

PlaceOK ==
    /\ pc = "axfr" => usable > 0
    /\ pc = "query" => ns <= usable /\ source = "iterated"
    /\ pc = "query" <=> queue # <<>>
    /\ pc \in {"lookup", "axfr"} => records = <<>> /\ qtype = 1
    /\ pc = "imported" => file \in {ThroughBIND(records), records}
    /\ pc = "unreadable" => \E k \in 1..Len(records) : Unparsable(records[k])
    /\ pc # "imported" => file = <<>>

\* At the end no record is there twice.
Distinct(s) == \A j, k \in 1..Len(s) : s[j] = s[k] => j = k

DistinctOK == pc = "scraped" => Distinct(records)

\* A transfer has all there is.
TransferOK ==
    pc = "scraped" /\ source = "axfr" =>
        /\ Members(records) = ZoneRecords
        /\ Skipped(ZoneRRs) \subseteq warnings

\* The queries of type number t for the name n have been made.
Asked(n, t) ==
    \/ \A k \in 1..Len(queue) : queue[k].name # n
    \/ queue # <<>> /\ queue[1].name = n /\ t < qtype

\* The names of the records of s.
Named(s) == {s[k].name : k \in 1..Len(s)}

\* A query for type at n that is answered gives records of n.
Owed(n, type) ==
    \/ zone[n].type = "CNAME"
    \/ zone[n].type = type /\ \A rr \in RRs(n) : ~MayBeMissing(rr)

\* What comes of an answer: records of the name, and the target of a CNAME, one
\* step further from the labels.
Found(d, n, t) ==
    /\ Owed(n, QueryTypes[t]) => n \in Named(records)
    /\ zone[n].type = "CNAME" /\ zone[n].data \in Names /\ d[n] < MaxDepth =>
          zone[n].data \in seen /\ d[zone[n].data] <= d[n] + 1

\* The walk is breadth-first.  d is the depth at which a name was enqueued: the
\* queue is in this order, no name seen is further away than one step from the
\* head of the queue, and the labels are at depth 0.
DepthsOK(d) ==
    /\ d \in [seen -> 0..MaxDepth]
    /\ \A n \in Members(Labels) : n \in seen /\ d[n] = 0
    /\ \A k \in 1..Len(queue) : queue[k].name \in seen /\ d[queue[k].name] = queue[k].depth
    /\ \A j, k \in 1..Len(queue) : j <= k => queue[j].depth <= queue[k].depth
    /\ queue # <<>> => \A n \in seen : d[n] <= queue[1].depth + 1

\* A query that has been made found what there is, or a warning tells of it.
FoundOK(d) ==
    \A n \in seen, t \in 1..Len(QueryTypes) :
        Asked(n, t) => <<"query", n, QueryTypes[t]>> \in warnings \/ Found(d, n, t)

WalkOK(d) == DepthsOK(d) /\ FoundOK(d)

Walking == pc = "query" \/ (pc = "scraped" /\ source = "iterated")

IInv ==
    /\ ShapeOK
    /\ PlaceOK
    /\ DistinctOK
    /\ TransferOK
    /\ Walking => \E d : WalkOK(d)

-----------------------------------------------------------------------------
(* Recursive functions.                                                     *)

\* Every set of naturals that has an element has a least one.
LEMMA LeastElement ==
    ASSUME NEW T, T \subseteq Nat, T # {}
    PROVE  \E x \in T : \A y \in T : x <= y
<1> DEFINE R == OpToRel(<, Nat)
<1>1. IsWellFoundedOn(R, Nat)
  BY NatLessThanWellFounded
<1> HIDE DEF R
<1>2. PICK x \in T : \A y \in T : ~(<<y, x>> \in R)
  BY <1>1, WFMin
<1>3. \A y \in T : y < x => <<y, x>> \in R
  BY DEF R, OpToRel
<1>4. \A y \in T : ~(y < x)
  BY <1>2, <1>3
<1> QED
  BY <1>4

\* What holds of 0 and is passed on up to m holds up to m.
LEMMA UpTo ==
    ASSUME NEW m \in Nat, NEW T, 0 \in T, \A k \in 1..m : k - 1 \in T => k \in T
    PROVE  \A k \in 0..m : k \in T
<1> DEFINE Bad == {k \in 0..m : k \notin T}
<1> SUFFICES ASSUME Bad # {} PROVE FALSE
  OBVIOUS
<1>1. Bad \subseteq Nat
  OBVIOUS
<1>2. PICK k \in Bad : \A j \in Bad : k <= j
  BY <1>1, LeastElement, Zenon
<1>3. k \in 1..m
  BY <1>2
<1>4. k - 1 \notin Bad /\ k - 1 \in 0..m
  BY <1>2, <1>3
<1> QED BY <1>2, <1>3, <1>4

\* A value and m steps from one value to the next make a function.
Iteration(f, m, S, init, step) ==
    f \in [0..m -> S] /\ f[0] = init /\ \A k \in 1..m : f[k] = step[k][f[k-1]]

LEMMA Iterates ==
    ASSUME NEW m \in Nat, NEW S, NEW init \in S, NEW step \in [1..m -> [S -> S]]
    PROVE  \E f : Iteration(f, m, S, init, step)
<1> DEFINE Solves(f, n) == Iteration(f, n, S, init, step)
           T == {n \in 0..m : \E f : Solves(f, n)}
<1>1. 0 \in T
  <2> DEFINE g == [k \in 0..0 |-> init]
  <2>1. g \in [0..0 -> S] /\ g[0] = init /\ 1..0 = {}
    OBVIOUS
  <2>2. Solves(g, 0)
    BY <2>1 DEF Iteration
  <2> HIDE DEF Solves
  <2> QED BY <2>2
<1>2. ASSUME NEW n \in 1..m, n - 1 \in T PROVE n \in T
  <2>0. PICK f : Solves(f, n - 1)
    BY <1>2
  <2>1. /\ f \in [0..(n-1) -> S] /\ f[0] = init
        /\ \A k \in 1..(n-1) : f[k] = step[k][f[k-1]]
    BY <2>0 DEF Iteration
  <2> DEFINE g == [k \in 0..n |-> IF k < n THEN f[k] ELSE step[n][f[n-1]]]
  <2>2. n - 1 \in 0..(n-1) /\ f[n-1] \in S /\ step[n] \in [S -> S]
    BY <2>1
  <2>3. \A k \in 0..(n-1) : g[k] = f[k] /\ f[k] \in S
    BY <2>1
  <2>4. g[n] = step[n][f[n-1]] /\ step[n][f[n-1]] \in S
    BY <2>2
  <2>5. \A k \in 0..n : k \in 0..(n-1) \/ k = n
    OBVIOUS
  <2>6. g \in [0..n -> S]
    <3>1. \A k \in 0..n : (IF k < n THEN f[k] ELSE step[n][f[n-1]]) \in S
      BY <2>3, <2>4, <2>5
    <3> QED BY <3>1
  <2> HIDE DEF g
  <2>7. ASSUME NEW k \in 1..n PROVE g[k] = step[k][g[k-1]]
    <3>1. k - 1 \in 0..(n-1) /\ g[k-1] = f[k-1]
      BY <2>3
    <3>2. CASE k = n
      BY <2>4, <3>1, <3>2
    <3>3. CASE k # n
      <4>1. k \in 0..(n-1) /\ k \in 1..(n-1)
        BY <3>3
      <4> QED BY <2>1, <2>3, <3>1, <4>1
    <3> QED BY <3>2, <3>3
  <2>8. Solves(g, n)
    BY <2>1, <2>3, <2>6, <2>7 DEF Iteration
  <2> QED BY <2>8
<1> HIDE DEF T
<1>3. \A k \in 1..m : k - 1 \in T => k \in T
  BY <1>2
<1>4. \A k \in 0..m : k \in T
  BY <1>1, <1>3, UpTo
<1>5. m \in T
  BY <1>4
<1> QED BY <1>5 DEF T

-----------------------------------------------------------------------------
(* Sequences.                                                               *)

LEMMA MembersOf ==
    ASSUME NEW V, NEW s \in Seq(V)
    PROVE  /\ Members(s) \subseteq V
           /\ \A n \in 1..Len(s) : s[n] \in Members(s) /\ s[n] \in V
           /\ \A v \in Members(s) : \E n \in 1..Len(s) : v = s[n]
           /\ s = <<>> <=> Len(s) = 0
           /\ Len(s) \in Nat
BY DEF Members

LEMMA MembersAppend ==
    ASSUME NEW V, NEW s \in Seq(V), NEW v \in V
    PROVE  /\ Append(s, v) \in Seq(V) /\ Len(Append(s, v)) = Len(s) + 1
           /\ Append(s, v)[Len(s) + 1] = v
           /\ \A n \in 1..Len(s) : Append(s, v)[n] = s[n]
           /\ Members(Append(s, v)) = Members(s) \cup {v}
<1>1. /\ Append(s, v) \in Seq(V) /\ Len(Append(s, v)) = Len(s) + 1 /\ Len(s) \in Nat
      /\ Append(s, v)[Len(s) + 1] = v
      /\ \A n \in 1..Len(s) : Append(s, v)[n] = s[n]
  BY AppendProperties
<1>2. Members(Append(s, v)) \subseteq Members(s) \cup {v}
  <2> SUFFICES ASSUME NEW n \in 1..(Len(s) + 1) PROVE Append(s, v)[n] \in Members(s) \cup {v}
    BY <1>1 DEF Members
  <2>1. CASE n = Len(s) + 1
    BY <1>1, <2>1
  <2>2. CASE n # Len(s) + 1
    <3>1. n \in 1..Len(s)
      BY <1>1, <2>2
    <3> QED BY <1>1, <3>1 DEF Members
  <2> QED BY <2>1, <2>2
<1>3. v \in Members(Append(s, v))
  BY <1>1 DEF Members
<1>4. Members(s) \subseteq Members(Append(s, v))
  BY <1>1 DEF Members
<1> QED BY <1>1, <1>2, <1>3, <1>4

LEMMA TailShape ==
    ASSUME NEW V, NEW s \in Seq(V), s # <<>>
    PROVE  /\ Tail(s) \in Seq(V) /\ Len(s) \in Nat \ {0} /\ Len(Tail(s)) = Len(s) - 1
           /\ \A k \in 1..(Len(s) - 1) : Tail(s)[k] = s[k+1]
BY HeadTailProperties

\* A sequence without duplicates is as long as its set of members.
LEMMA DistinctCount ==
    ASSUME NEW V, NEW s \in Seq(V), Distinct(s)
    PROVE  Cardinality(Members(s)) = Len(s)
<1>1. Len(s) \in Nat /\ s \in [1..Len(s) -> Members(s)]
  BY MembersOf DEF Members
<1>2. s \in Bijection(1..Len(s), Members(s))
  <2>1. \A j, k \in 1..Len(s) : s[j] = s[k] => j = k
    BY DEF Distinct
  <2>2. \A v \in Members(s) : \E k \in 1..Len(s) : s[k] = v
    BY DEF Members
  <2> QED BY <1>1, <2>1, <2>2, Fun_IsBij
<1>3. IsFiniteSet(1..Len(s)) /\ Cardinality(1..Len(s)) = Len(s)
  BY <1>1, FS_Interval
<1> QED BY <1>2, <1>3, FS_Bijection DEF ExistsBijection

\* The records of a transfer, in whatever order, are the set without duplicates.
LEMMA ListingOK ==
    ASSUME NEW S, IsFiniteSet(S)
    PROVE  Listing(S) \in Seq(S) /\ Members(Listing(S)) = S /\ Distinct(Listing(S))
<1> DEFINE c == Cardinality(S)
           Lists(s) == s \in [1..c -> S] /\ Members(s) = S
<1>1. c \in Nat /\ ExistsBijection(1..c, S)
  BY FS_CardinalityType
<1> HIDE DEF c
<1>2. \A s \in [1..c -> S] : s \in Seq(S) /\ Len(s) = c
  BY <1>1
<1>3. PICK f \in [1..c -> S] : f \in Surjection(1..c, S)
  BY <1>1 DEF ExistsBijection, Bijection, Surjection
<1>4. Members(f) = S
  BY <1>2, <1>3 DEF Members, Surjection
<1>5. Lists(Listing(S))
  <2>1. Listing(S) = CHOOSE s \in [1..c -> S] : Members(s) = S
    BY Zenon DEF Listing, c
  <2> QED BY <1>3, <1>4, <2>1
<1>6. Listing(S) \in Surjection(1..c, S)
  <2>1. \A v \in S : \E k \in 1..c : Listing(S)[k] = v
    BY <1>2, <1>5 DEF Members
  <2> QED BY <1>5, <2>1 DEF Surjection
<1>7. IsFiniteSet(1..c) /\ Cardinality(1..c) = c
  BY <1>1, FS_Interval
<1>8. Listing(S) \in Injection(1..c, S)
  BY <1>6, <1>7, FS_Surjection DEF c
<1>9. Distinct(Listing(S))
  <2>1. \A j, k \in 1..c : Listing(S)[j] = Listing(S)[k] => j = k
    BY <1>8, Fun_InjectionProperties
  <2> QED BY <1>2, <1>5, <2>1 DEF Distinct
<1> QED BY <1>2, <1>5, <1>9

\* Firsts has one member for every key.
LEMMA FirstsOK ==
    ASSUME NEW V, NEW s \in Seq(V), NEW keys,
           \A j, k \in 1..Len(s) : s[j] = s[k] => keys[j] = keys[k]
    PROVE  /\ Firsts(s, keys) \in Seq(V) /\ Members(Firsts(s, keys)) \subseteq Members(s)
           /\ Distinct(Firsts(s, keys))
           /\ \A k \in 1..Len(s) : \E j \in 1..Len(s) :
                 keys[j] = keys[k] /\ s[j] \in Members(Firsts(s, keys))
<1> DEFINE Entry(x, k) == IF \E j \in 1..(k-1) : keys[j] = keys[k] THEN x ELSE Append(x, s[k])
           Solves(g) == g = [k \in 0..Len(s) |-> IF k = 0 THEN <<>> ELSE Entry(g[k-1], k)]
           out == CHOOSE g : Solves(g)
           Covers(x, k) == \A i \in 1..k : \E j \in 1..k : keys[j] = keys[i] /\ s[j] \in Members(x)
           Good(x, k) == /\ x \in Seq(V) /\ Members(x) \subseteq {s[j] : j \in 1..k}
                         /\ Distinct(x) /\ Covers(x, k)
           step == [k \in 1..Len(s) |-> [x \in Seq(V) |-> Entry(x, k)]]
<1>0. Len(s) \in Nat /\ \A k \in 1..Len(s) : s[k] \in V
  OBVIOUS
<1>1. ASSUME NEW k \in 1..Len(s), NEW x \in Seq(V) PROVE Entry(x, k) \in Seq(V)
  BY <1>0
<1>2. \E g : Solves(g)
  <2>1. step \in [1..Len(s) -> [Seq(V) -> Seq(V)]]
    <3> HIDE DEF Entry
    <3> QED BY <1>1
  <2>2. <<>> \in Seq(V)
    OBVIOUS
  <2> HIDE DEF step, Solves
  <2>3. PICK f : Iteration(f, Len(s), Seq(V), <<>>, step)
    BY <1>0, <2>1, <2>2, Iterates
  <2>4. ASSUME NEW k \in 0..Len(s)
        PROVE  f[k] = IF k = 0 THEN <<>> ELSE Entry(f[k-1], k)
    <3>1. CASE k = 0
      BY <2>3, <3>1 DEF Iteration
    <3>2. CASE k # 0
      <4> HIDE DEF Entry
      <4>1. k \in 1..Len(s) /\ k - 1 \in 0..Len(s)
        BY <1>0, <3>2
      <4>2. f[k] = step[k][f[k-1]] /\ f[k-1] \in Seq(V)
        BY <2>3, <4>1 DEF Iteration
      <4>3. step[k][f[k-1]] = Entry(f[k-1], k)
        BY <4>1, <4>2 DEF step
      <4> QED BY <3>2, <4>2, <4>3
    <3> QED BY <3>1, <3>2
  <2>5. f = [k \in 0..Len(s) |-> f[k]]
    BY <2>3 DEF Iteration
  <2>6. [k \in 0..Len(s) |-> f[k]] = [k \in 0..Len(s) |-> IF k = 0 THEN <<>> ELSE Entry(f[k-1], k)]
    <3> HIDE DEF Entry
    <3> QED BY <2>4
  <2>7. Solves(f)
    BY <2>5, <2>6, Zenon DEF Solves
  <2> QED BY <2>7
<1>3. Solves(out)
  BY <1>2, Zenon
<1>4. Firsts(s, keys) = out[Len(s)]
  BY Zenon DEF Firsts
<1> HIDE DEF out
<1> HIDE DEF Entry
<1>5. /\ out[0] = <<>>
      /\ \A k \in 1..Len(s) : out[k] = Entry(out[k-1], k)
  BY <1>0, <1>3
<1>6. Good(out[0], 0)
  BY <1>5 DEF Members, Distinct
<1>7. ASSUME NEW k \in 1..Len(s), NEW x, Good(x, k - 1)
      PROVE  Good(Entry(x, k), k)
  <2>0. /\ s[k] \in V /\ k \in Nat /\ k \in 1..k
        /\ \A j : j \in 1..k <=> j \in 1..(k-1) \/ j = k
    BY <1>0
  <2>1. /\ x \in Seq(V) /\ Members(x) \subseteq {s[j] : j \in 1..(k-1)}
        /\ Distinct(x) /\ Covers(x, k - 1)
    BY <1>7
  <2>2. CASE \E j \in 1..(k-1) : keys[j] = keys[k]
    <3>1. Entry(x, k) = x
      BY <2>2 DEF Entry
    <3>2. PICK i \in 1..(k-1) : keys[i] = keys[k]
      BY <2>2
    <3>3. Covers(x, k)
      BY <2>0, <2>1, <3>2
    <3>4. Members(x) \subseteq {s[j] : j \in 1..k}
      BY <2>0, <2>1
    <3> QED BY <2>1, <3>1, <3>3, <3>4
  <2>3. CASE ~ \E j \in 1..(k-1) : keys[j] = keys[k]
    <3>1. Entry(x, k) = Append(x, s[k])
      BY <2>3 DEF Entry
    <3>3. s[k] \notin Members(x)
      <4> SUFFICES ASSUME s[k] \in Members(x) PROVE FALSE
        OBVIOUS
      <4>1. PICK j \in 1..(k-1) : s[k] = s[j]
        BY <2>1
      <4>2. j \in 1..Len(s)
        BY <1>0
      <4>3. keys[j] = keys[k]
        BY <4>1, <4>2
      <4> QED BY <2>3, <4>3
    <3>4. /\ Append(x, s[k]) \in Seq(V) /\ Len(Append(x, s[k])) = Len(x) + 1 /\ Len(x) \in Nat
          /\ Append(x, s[k])[Len(x) + 1] = s[k]
          /\ \A n \in 1..Len(x) : Append(x, s[k])[n] = x[n] /\ x[n] \in Members(x)
          /\ Members(Append(x, s[k])) = Members(x) \cup {s[k]}
      BY <2>0, <2>1, MembersAppend, MembersOf
    <3>5. Distinct(Append(x, s[k]))
      <4> SUFFICES ASSUME NEW i \in 1..(Len(x) + 1), NEW j \in 1..(Len(x) + 1),
                          Append(x, s[k])[i] = Append(x, s[k])[j]
                   PROVE  i = j
        BY <3>4 DEF Distinct
      <4>1. \A n \in 1..(Len(x) + 1) : n \in 1..Len(x) \/ n = Len(x) + 1
        BY <3>4
      <4>2. CASE i \in 1..Len(x) /\ j \in 1..Len(x)
        BY <2>1, <3>4, <4>2 DEF Distinct
      <4>3. CASE i \in 1..Len(x) /\ j = Len(x) + 1
        BY <3>3, <3>4, <4>3
      <4>4. CASE j \in 1..Len(x) /\ i = Len(x) + 1
        BY <3>3, <3>4, <4>4
      <4>5. CASE i = Len(x) + 1 /\ j = Len(x) + 1
        BY <4>5
      <4> QED BY <4>1, <4>2, <4>3, <4>4, <4>5
    <3>6. Members(Append(x, s[k])) \subseteq {s[j] : j \in 1..k}
      BY <2>0, <2>1, <3>4
    <3>7. Covers(Append(x, s[k]), k)
      BY <2>0, <2>1, <3>4
    <3> QED BY <3>1, <3>4, <3>5, <3>6, <3>7
  <2> QED BY <2>2, <2>3
<1>8. Good(out[Len(s)], Len(s))
  <2> DEFINE T == {k \in 0..Len(s) : Good(out[k], k)}
  <2> HIDE DEF Good
  <2>1. 0 \in T
    BY <1>0, <1>6
  <2>2. \A k \in 1..Len(s) : k - 1 \in T => k \in T
    BY <1>0, <1>5, <1>7
  <2> HIDE DEF T
  <2>3. \A k \in 0..Len(s) : k \in T
    BY <1>0, <2>1, <2>2, UpTo
  <2>4. Len(s) \in T
    BY <1>0, <2>3
  <2> QED BY <2>4 DEF T
<1>9. /\ out[Len(s)] \in Seq(V) /\ Members(out[Len(s)]) \subseteq {s[j] : j \in 1..Len(s)}
      /\ Distinct(out[Len(s)]) /\ Covers(out[Len(s)], Len(s))
  BY <1>8, Zenon
<1> HIDE DEF Covers
<1>10. Members(s) = {s[j] : j \in 1..Len(s)}
  BY DEF Members
<1>11. \A k \in 1..Len(s) : \E j \in 1..Len(s) : keys[j] = keys[k] /\ s[j] \in Members(out[Len(s)])
  BY <1>9, Zenon DEF Covers
<1> QED BY <1>4, <1>9, <1>10, <1>11, Zenon

LEMMA NamedOf == \A s : Named(s) = {r.name : r \in Members(s)}
BY DEF Named, Members

\* Dedup leaves every record once, and a record of every name.
LEMMA DedupOK ==
    ASSUME NEW V, NEW s \in Seq(V)
    PROVE  /\ Dedup(s) \in Seq(V) /\ Members(Dedup(s)) \subseteq Members(s)
           /\ Distinct(Dedup(s)) /\ Named(Dedup(s)) = Named(s)
<1> DEFINE keys == [k \in 1..Len(s) |-> DedupKey(s[k])]
<1>1. \A j, k \in 1..Len(s) : s[j] = s[k] => keys[j] = keys[k]
  OBVIOUS
<1>2. ASSUME NEW j \in 1..Len(s), NEW k \in 1..Len(s), keys[j] = keys[k] PROVE s[j].name = s[k].name
  BY <1>2 DEF DedupKey
<1>3. Dedup(s) = Firsts(s, keys)
  BY DEF Dedup
<1> HIDE DEF keys
<1>4. /\ Dedup(s) \in Seq(V) /\ Members(Dedup(s)) \subseteq Members(s) /\ Distinct(Dedup(s))
      /\ \A k \in 1..Len(s) : \E j \in 1..Len(s) :
            keys[j] = keys[k] /\ s[j] \in Members(Dedup(s))
  BY <1>1, <1>3, FirstsOK
<1>5. \A t : Named(t) = {r.name : r \in Members(t)}
  BY DEF Named, Members
<1>6. Named(Dedup(s)) \subseteq Named(s)
  BY <1>4, <1>5
<1>7. ASSUME NEW k \in 1..Len(s) PROVE s[k].name \in Named(Dedup(s))
  <2>1. PICK j \in 1..Len(s) : keys[j] = keys[k] /\ s[j] \in Members(Dedup(s))
    BY <1>4
  <2>2. s[j].name = s[k].name
    BY <1>2, <2>1
  <2> QED BY <1>5, <2>1, <2>2
<1> QED BY <1>4, <1>6, <1>7 DEF Named

-----------------------------------------------------------------------------
(* Records, answers, and what is made of an answer.                         *)

LEMMA ZoneShape ==
    ASSUME zone \in Zones
    PROVE  /\ \A n \in Names :
                /\ zone[n].type \in Types
                /\ zone[n].type = "CNAME" => zone[n].data \in Targets
                /\ IsFiniteSet(RRs(n)) /\ RRs(n) # {}
           /\ \A n, rr : rr \in RRs(n) =>
                rr.name = n /\ rr.type = zone[n].type /\ rr.data = zone[n].data
           /\ \A n \in Names : zone[n].type \in {"CNAME", "TXT", "NS", "SRV"} =>
                RRs(n) \subseteq ZoneRecords
           /\ \A rec \in ZoneRecords : rec.name \in Names /\ rec \in RRs(rec.name)
           /\ ZoneRecords \subseteq RecordOf
<1>1. \A n \in Names : zone[n] \in Contents
  BY ScrapeAssumption
<1>2. ASSUME NEW n \in Names
      PROVE  /\ zone[n].type \in Types
             /\ zone[n].data \in Targets \cup Texts
             /\ zone[n].ttl \in {0, 300}
             /\ zone[n].type = "CNAME" => zone[n].data \in Targets
             /\ zone[n].ports \subseteq Ports /\ zone[n].ports # {}
  <2>1. CASE \E t \in Targets : zone[n] = Alias(t)
    BY <2>1 DEF Alias, Types, Ports
  <2>2. CASE zone[n] \in [type : Types \ {"CNAME"}, data : Texts,
                         ports : (SUBSET Ports) \ {{}}, ttl : {0, 300}]
    <3>1. /\ zone[n].type \in Types \ {"CNAME"} /\ zone[n].data \in Texts
          /\ zone[n].ports \in (SUBSET Ports) \ {{}} /\ zone[n].ttl \in {0, 300}
      BY <2>2, Zenon
    <3> HIDE DEF Types
    <3> QED BY <3>1
  <2> QED BY <1>1, <2>1, <2>2 DEF Contents
<1>3. ASSUME NEW n, NEW rr \in RRs(n)
      PROVE  /\ rr.name = n /\ rr.type = zone[n].type /\ rr.data = zone[n].data
             /\ rr.ttl = zone[n].ttl /\ rr.port \in zone[n].ports
             /\ rr = [name |-> rr.name, type |-> rr.type, data |-> rr.data,
                      port |-> rr.port, ttl |-> rr.ttl]
  BY DEF RRs
<1>4. ASSUME NEW n \in Names PROVE IsFiniteSet(RRs(n)) /\ RRs(n) # {}
  <2> DEFINE f == [p \in zone[n].ports |-> [name |-> n, type |-> zone[n].type,
                        data |-> zone[n].data, port |-> p, ttl |-> zone[n].ttl]]
  <2>1. f \in Surjection(zone[n].ports, RRs(n))
    <3>1. f \in [zone[n].ports -> RRs(n)] /\ \A r \in RRs(n) : \E p \in zone[n].ports : f[p] = r
      BY DEF RRs
    <3> QED BY <3>1, Fun_IsSurj
  <2>2. IsFiniteSet(Ports)
    <3>1. IsFiniteSet(1..2)
      BY FS_Interval, 1 \in Int, 2 \in Int
    <3> QED BY <3>1 DEF Ports
  <2>3. IsFiniteSet(zone[n].ports)
    BY <1>2, <2>2, FS_Subset
  <2>4. RRs(n) # {}
    <3>1. PICK p \in zone[n].ports : TRUE
      BY <1>2
    <3>2. f[p] \in RRs(n)
      BY <3>1 DEF RRs
    <3> QED BY <3>2
  <2> QED BY <2>1, <2>3, <2>4, FS_Surjection
<1>5. \A n \in Names : zone[n].type \in {"CNAME", "TXT", "NS", "SRV"} => RRs(n) \subseteq ZoneRecords
  BY <1>3 DEF ZoneRecords, ZoneRRs, Kept
<1>6. \A rec \in ZoneRecords : rec.name \in Names /\ rec \in RRs(rec.name) /\ Kept(rec)
  BY <1>3 DEF ZoneRecords, ZoneRRs
<1>7. ASSUME NEW rec \in ZoneRecords PROVE rec \in RecordOf
  <2>1. /\ rec.name \in Names /\ rec.type \in Types \ {"none", "DS"}
        /\ rec.data \in Targets \cup Texts /\ rec.ttl \in {0, 300} /\ rec.port \in Ports
    BY <1>2, <1>3, <1>6 DEF Kept
  <2>2. rec = [name |-> rec.name, type |-> rec.type, data |-> rec.data,
               port |-> rec.port, ttl |-> rec.ttl]
    BY <1>3, <1>6
  <2> QED BY <2>1, <2>2 DEF RecordOf
<1> QED BY <1>2, <1>3, <1>4, <1>5, <1>6, <1>7

\* What a server may send.
Sent == ZoneRRs \cup {Foreign}

\* The answer begins with the CNAME of the name, or is the list of its records if
\* these have the type asked for.
LEMMA AnswerOK ==
    ASSUME zone \in Zones, NEW name \in Names, NEW type
    PROVE  /\ Answer(name, type) \in Seq(Sent)
           /\ zone[name].type = "CNAME" =>
                 Len(Answer(name, type)) > 0 /\ Answer(name, type)[1] \in RRs(name)
           /\ zone[name].type # "CNAME" /\ zone[name].type = type =>
                 Answer(name, type) = Listing(RRs(name))
<1> DEFINE All == Targets
           Entry(g, k, n) ==
                IF n = Outside THEN <<Foreign>>
                ELSE IF zone[n].type = "CNAME"
                THEN Listing(RRs(n)) \o
                     (IF chase /\ type # "CNAME" /\ k > 0 THEN g[zone[n].data] ELSE <<>>)
                ELSE IF zone[n].type = type THEN Listing(RRs(n)) ELSE <<>>
           c == Cardinality(Names)
           Solves(f) == f = [k \in 0..c |-> [n \in All |-> Entry(f[k-1], k, n)]]
           chain == CHOOSE f : Solves(f)
           Row == [All -> Seq(Sent)]
           init == [n \in All |-> Entry(<<>>, 0, n)]
           step == [k \in 1..c |-> [g \in Row |-> [n \in All |-> Entry(g, k, n)]]]
<1>0. c \in Nat
  BY ScrapeAssumption, FS_CardinalityType
<1>1. Answer(name, type) = chain[c][name]
  <2>1. Answer(name, type) =
          LET f == CHOOSE f : f = [k \in 0..Cardinality(Names) |->
                [n \in Targets |->
                IF n = Outside THEN <<Foreign>>
                ELSE IF zone[n].type = "CNAME"
                THEN Listing(RRs(n)) \o
                     (IF chase /\ type # "CNAME" /\ k > 0 THEN f[k-1][zone[n].data] ELSE <<>>)
                ELSE IF zone[n].type = type THEN Listing(RRs(n)) ELSE <<>>]]
          IN f[Cardinality(Names)][name]
    BY Zenon DEF Answer
  <2> QED BY <2>1, Zenon
<1> HIDE DEF c
<1> DEFINE Begins(x, n) ==
                /\ zone[n].type = "CNAME" => Len(x) > 0 /\ x[1] \in RRs(n)
                /\ zone[n].type # "CNAME" /\ zone[n].type = type => x = Listing(RRs(n))
<1>2. ASSUME NEW g \in Row, NEW k \in Nat, NEW n \in All
      PROVE  /\ Entry(g, k, n) \in Seq(Sent)
             /\ n \in Names => Begins(Entry(g, k, n), n)
  <2>0. <<Foreign>> \in Seq(Sent) /\ <<>> \in Seq(Sent)
    BY DEF Sent
  <2>1. CASE n = Outside
    BY <2>0, <2>1, ScrapeAssumption
  <2>2. ASSUME n # Outside
        PROVE  /\ n \in Names /\ Listing(RRs(n)) \in Seq(Sent) /\ Len(Listing(RRs(n))) \in Nat \ {0}
               /\ Listing(RRs(n))[1] \in RRs(n)
               /\ zone[n].type = "CNAME" => zone[n].data \in All
    <3>1. n \in Names
      BY <2>2 DEF Targets
    <3>2. IsFiniteSet(RRs(n)) /\ RRs(n) # {} /\ (zone[n].type = "CNAME" => zone[n].data \in All)
      BY <3>1, ZoneShape
    <3>3. Listing(RRs(n)) \in Seq(RRs(n)) /\ Members(Listing(RRs(n))) = RRs(n)
      BY <3>2, ListingOK
    <3>4. PICK l \in Seq(RRs(n)) : l = Listing(RRs(n))
      BY <3>3
    <3>5. Len(l) \in Nat \ {0}
      <4>1. Members(l) # {} /\ Len(l) \in Nat
        BY <3>2, <3>3, <3>4
      <4> QED BY <4>1 DEF Members
    <3>6. RRs(n) \subseteq Sent
      BY <3>1 DEF Sent, ZoneRRs
    <3>7. l \in Seq(Sent) /\ l[1] \in RRs(n)
      BY <3>4, <3>5, <3>6
    <3> QED BY <3>1, <3>2, <3>4, <3>5, <3>7
  <2>3. CASE n # Outside /\ zone[n].type = "CNAME"
    <3> DEFINE rest == IF chase /\ type # "CNAME" /\ k > 0 THEN g[zone[n].data] ELSE <<>>
               l == Listing(RRs(n))
    <3>1. n \in Names /\ l \in Seq(Sent) /\ Len(l) \in Nat \ {0} /\ l[1] \in RRs(n)
      BY <2>2, <2>3
    <3>2. rest \in Seq(Sent)
      BY <2>0, <2>2, <2>3
    <3>3. Entry(g, k, n) = l \o rest
      BY <2>3
    <3> HIDE DEF rest, l, Entry
    <3>4. l \o rest \in Seq(Sent) /\ Len(l \o rest) = Len(l) + Len(rest) /\ (l \o rest)[1] = l[1]
      BY <3>1, <3>2, ConcatProperties
    <3>5. Len(rest) \in Nat
      BY <3>2
    <3> QED BY <2>3, <3>1, <3>3, <3>4, <3>5
  <2>4. CASE n # Outside /\ zone[n].type # "CNAME" /\ zone[n].type = type
    <3>1. Entry(g, k, n) = Listing(RRs(n))
      BY <2>4
    <3> HIDE DEF Entry
    <3> QED BY <2>2, <2>4, <3>1
  <2>5. CASE n # Outside /\ zone[n].type # "CNAME" /\ zone[n].type # type
    BY <2>0, <2>5
  <2> QED BY <2>1, <2>3, <2>4, <2>5
<1>3. \A g, h, n : Entry(g, 0, n) = Entry(h, 0, n)
  OBVIOUS
<1>4. Row # {}
  <2>1. [n \in All |-> <<>>] \in Row
    OBVIOUS
  <2> QED BY <2>1
<1> HIDE DEF Entry, Begins
<1>5. \A g : init = [n \in All |-> Entry(g, 0, n)]
  BY <1>3
<1>6. init \in Row
  <2>1. PICK g \in Row : TRUE
    BY <1>4
  <2>2. init = [n \in All |-> Entry(g, 0, n)]
    BY <1>5, Zenon
  <2> HIDE DEF init
  <2> QED BY <1>2, <2>2
<1>7. step \in [1..c -> [Row -> Row]]
  <2>1. \A k \in 1..c, g \in Row : [n \in All |-> Entry(g, k, n)] \in Row
    BY <1>0, <1>2
  <2> HIDE DEF Row
  <2> QED BY <2>1
<1> HIDE DEF init
<1>8. \E f : Solves(f)
  <2>1. PICK f : Iteration(f, c, Row, init, step)
    BY <1>0, <1>6, <1>7, Iterates
  <2>2. f \in [0..c -> Row]
    BY <2>1 DEF Iteration
  <2>3. ASSUME NEW k \in 0..c PROVE f[k] = [n \in All |-> Entry(f[k-1], k, n)]
    <3>1. CASE k = 0
      BY <1>5, <2>1, <3>1 DEF Iteration
    <3>2. CASE k # 0
      <4> HIDE DEF Row
      <4>0. k \in 1..c /\ k - 1 \in 0..c
        BY <1>0, <3>2
      <4>1. k \in 1..c /\ f[k-1] \in Row
        BY <2>2, <4>0
      <4>2. f[k] = step[k][f[k-1]]
        BY <2>1, <4>1 DEF Iteration
      <4> QED BY <4>1, <4>2
    <3> QED BY <3>1, <3>2
  <2>4. f = [k \in 0..c |-> f[k]]
    BY <2>2
  <2>5. [k \in 0..c |-> f[k]] = [k \in 0..c |-> [n \in All |-> Entry(f[k-1], k, n)]]
    BY <2>3
  <2>6. Solves(f)
    BY <2>4, <2>5, Zenon
  <2> HIDE DEF Solves
  <2> QED BY <2>6
<1>9. Solves(chain)
  <2> HIDE DEF Solves
  <2> QED BY <1>8, Zenon
<1> HIDE DEF chain
<1>10. \A k \in 0..c : chain[k] = [n \in All |-> Entry(chain[k-1], k, n)]
  BY <1>9
<1>11. \A k \in 0..c : chain[k] \in Row
  <2> DEFINE T == {k \in 0..c : chain[k] \in Row}
  <2>1. 0 \in T
    <3>1. chain[0] = init
      BY <1>0, <1>5, <1>10
    <3> QED BY <1>0, <1>6, <3>1
  <2>2. ASSUME NEW k \in 1..c, k - 1 \in T PROVE k \in T
    <3>1. k \in 0..c /\ k \in Nat /\ chain[k-1] \in Row
      BY <1>0, <2>2
    <3>2. chain[k] = [n \in All |-> Entry(chain[k-1], k, n)]
      BY <1>10, <3>1
    <3>3. \A n \in All : Entry(chain[k-1], k, n) \in Seq(Sent)
      BY <1>2, <3>1
    <3> QED BY <3>1, <3>2, <3>3
  <2> HIDE DEF T
  <2>3. \A k \in 0..c : k \in T
    BY <1>0, <2>1, <2>2, UpTo
  <2> QED BY <2>3 DEF T
<1>12. c \in 0..c /\ name \in All
  BY <1>0 DEF Targets
<1>13. chain[c][name] \in Seq(Sent)
  BY <1>11, <1>12
<1>14. CASE c = 0
  <2>1. PICK g \in Row : TRUE
    BY <1>4
  <2>2. chain[c][name] = Entry(g, 0, name)
    BY <1>3, <1>10, <1>12, <1>14
  <2> QED BY <1>1, <1>2, <1>12, <1>13, <2>2 DEF Begins
<1>15. CASE c # 0
  <2>1. c - 1 \in 0..c
    BY <1>0, <1>15
  <2>2. chain[c-1] \in Row
    BY <1>11, <2>1
  <2>3. chain[c][name] = Entry(chain[c-1], c, name)
    BY <1>10, <1>12
  <2> QED BY <1>0, <1>1, <1>2, <1>12, <1>13, <2>2, <2>3 DEF Begins
<1> QED BY <1>14, <1>15

\* A CNAME, and records none of which may be missing, are in every reply.
LEMMA ReplyOK ==
    ASSUME zone \in Zones, NEW name \in Names, NEW type, NEW k \in 0..Len(Answer(name, type)),
           CutAt(Answer(name, type), k)
    PROVE  /\ SubSeq(Answer(name, type), 1, k) \in Seq(Sent)
           /\ Owed(name, type) => \E r \in Members(SubSeq(Answer(name, type), 1, k)) : r \in RRs(name)
<1>1. PICK answer \in Seq(Sent) : answer = Answer(name, type)
  BY AnswerOK
<1>2. /\ Len(answer) \in Nat /\ k \in 0..Len(answer)
      /\ k < Len(answer) => MayBeMissing(answer[k+1])
  BY <1>1 DEF CutAt
<1> DEFINE reply == SubSeq(answer, 1, k)
<1>3. /\ reply \in Seq(Sent) /\ Len(reply) = k
      /\ \A j \in 1..k : reply[j] = answer[j] /\ answer[j] \in Members(reply)
  <2>1. 1 \in 1..(Len(answer) + 1) /\ k \in 0..Len(answer) /\ k \in Nat
    BY <1>2
  <2>2. \A j \in 1..k : answer[j] \in Sent
    BY <1>2
  <2>3. reply = [j \in 1..k |-> answer[j]]
    BY <1>2, <2>1
  <2> HIDE DEF reply
  <2> QED BY <2>1, <2>2, <2>3 DEF Members
<1> HIDE DEF reply
<1>4. CASE zone[name].type = "CNAME"
  <2>1. Len(answer) > 0 /\ answer[1] \in RRs(name)
    BY <1>1, <1>4, AnswerOK
  <2>2. ~MayBeMissing(answer[1])
    BY <1>4, <2>1, ZoneShape DEF MayBeMissing
  <2>3. k # 0
    BY <1>2, <2>1, <2>2
  <2>4. answer[1] \in Members(reply)
    BY <1>2, <1>3, <2>3
  <2> QED BY <1>1, <1>3, <2>1, <2>4 DEF reply
<1>5. CASE zone[name].type # "CNAME" /\ Owed(name, type)
  <2>1. zone[name].type = type /\ \A rr \in RRs(name) : ~MayBeMissing(rr)
    BY <1>5 DEF Owed
  <2>2. answer = Listing(RRs(name)) /\ IsFiniteSet(RRs(name)) /\ RRs(name) # {}
    BY <1>1, <1>5, <2>1, AnswerOK, ZoneShape
  <2>3. Members(answer) = RRs(name)
    BY <2>2, ListingOK
  <2>4. ~(k < Len(answer))
    <3> SUFFICES ASSUME k < Len(answer) PROVE FALSE
      OBVIOUS
    <3>1. answer[k+1] \in Members(answer)
      BY <1>2 DEF Members
    <3> QED BY <1>2, <2>1, <2>3, <3>1
  <2>5. k = Len(answer)
    BY <1>2, <2>4
  <2>6. PICK r \in Members(answer) : r \in RRs(name)
    BY <2>2, <2>3
  <2>7. r \in Members(reply)
    BY <1>3, <2>5, <2>6 DEF Members
  <2> QED BY <1>1, <1>3, <2>6, <2>7 DEF reply
<1> QED BY <1>1, <1>3, <1>4, <1>5 DEF reply

\* What has grown after the records got have been taken: the new items are one
\* step further from the labels than the head of the queue, and new names are
\* in the new part of the queue.
Growing == [records : Seq(ZoneRecords), queue : Seq(Items), seen : SUBSET Names]
NewItems(s) == (Len(queue) + 1)..Len(s.queue)

QueueGrown(s) ==
    /\ Len(queue) <= Len(s.queue)
    /\ \A j \in 1..Len(queue) : s.queue[j] = queue[j]
    /\ \A j \in NewItems(s) :
          s.queue[j].name \in s.seen \ seen /\ s.queue[j].depth = queue[1].depth + 1

SeenGrown(s) ==
    /\ seen \subseteq s.seen
    /\ s.seen # seen => queue[1].depth < MaxDepth
    /\ \A n \in s.seen \ seen : \E j \in NewItems(s) : s.queue[j].name = n

Got(s, r) ==
    /\ r \in Members(s.records)
    /\ r.type = "CNAME" /\ r.data \in Names /\ queue[1].depth < MaxDepth => r.data \in s.seen

Grown(s, got) ==
    /\ s \in Growing
    /\ Members(records) \subseteq Members(s.records)
    /\ QueueGrown(s)
    /\ SeenGrown(s)
    /\ \A r \in got \cap ZoneRecords : Got(s, r)

LEMMA EnqueueGrown ==
    ASSUME queue \in Seq(Items), queue # <<>>, NEW s, NEW got, Grown(s, got),
           NEW n \in Names, queue[1].depth < MaxDepth
    PROVE  LET t == Enqueue(s, [name |-> n, depth |-> queue[1].depth + 1]) IN
           Grown(t, got) /\ n \in t.seen /\ t.records = s.records
<1> DEFINE item == [name |-> n, depth |-> queue[1].depth + 1]
           q == Append(s.queue, item)
           t == [records |-> s.records, queue |-> q, seen |-> s.seen \cup {n}]
<1>1. CASE n \in s.seen
  BY <1>1 DEF Enqueue
<1>2. CASE n \notin s.seen
  <2>0. Enqueue(s, item) = t
    BY <1>2 DEF Enqueue
  <2>1. /\ s.queue \in Seq(Items) /\ s.seen \in SUBSET Names /\ s.records \in Seq(ZoneRecords)
        /\ Members(records) \subseteq Members(s.records)
        /\ QueueGrown(s) /\ SeenGrown(s) /\ \A r \in got \cap ZoneRecords : Got(s, r)
    BY DEF Grown, Growing
  <2>2. item \in Items /\ item.name = n /\ item.depth = queue[1].depth + 1 /\ Len(queue) \in Nat
    <3>1. 1 \in 1..Len(queue) /\ Len(queue) \in Nat
      OBVIOUS
    <3>2. queue[1] \in Items
      BY <3>1
    <3>3. queue[1].depth \in 0..MaxDepth
      BY <3>2 DEF Items
    <3>4. queue[1].depth + 1 \in 0..MaxDepth
      BY <3>3, ScrapeAssumption
    <3> QED BY <3>1, <3>4 DEF Items
  <2> HIDE DEF item
  <2>3. /\ q \in Seq(Items) /\ Len(q) = Len(s.queue) + 1 /\ q[Len(s.queue) + 1] = item
        /\ \A j \in 1..Len(s.queue) : q[j] = s.queue[j]
        /\ Len(s.queue) \in Nat
    BY <2>1, <2>2, AppendProperties
  <2> HIDE DEF q
  <2>4. t.records = s.records /\ t.queue = q /\ t.seen = s.seen \cup {n} /\ t \in Growing
    BY <2>1, <2>3 DEF Growing
  <2> HIDE DEF t
  <2>5. /\ Len(queue) <= Len(s.queue) /\ seen \subseteq s.seen
        /\ \A j \in 1..Len(queue) : s.queue[j] = queue[j]
        /\ \A j \in (Len(queue) + 1)..Len(s.queue) :
              s.queue[j].name \in s.seen \ seen /\ s.queue[j].depth = queue[1].depth + 1
        /\ \A m \in s.seen \ seen : \E j \in (Len(queue) + 1)..Len(s.queue) : s.queue[j].name = m
    BY <2>1 DEF QueueGrown, SeenGrown, NewItems
  <2>6. QueueGrown(t)
    <3>1. \A j \in 1..Len(queue) : t.queue[j] = queue[j]
      BY <2>2, <2>3, <2>4, <2>5
    <3>2. ASSUME NEW j \in (Len(queue) + 1)..Len(t.queue)
          PROVE  t.queue[j].name \in t.seen \ seen /\ t.queue[j].depth = queue[1].depth + 1
      <4>1. CASE j = Len(s.queue) + 1
        BY <1>2, <2>2, <2>3, <2>4, <2>5, <4>1
      <4>2. CASE j # Len(s.queue) + 1
        <5>1. j \in (Len(queue) + 1)..Len(s.queue) /\ j \in 1..Len(s.queue)
          BY <2>2, <2>3, <2>4, <4>2
        <5> QED BY <2>3, <2>4, <2>5, <5>1
      <4> QED BY <4>1, <4>2
    <3>3. Len(queue) <= Len(t.queue)
      BY <2>2, <2>3, <2>4, <2>5
    <3> QED BY <3>1, <3>2, <3>3 DEF QueueGrown, NewItems
  <2>7. SeenGrown(t)
    <3>1. ASSUME NEW m \in t.seen \ seen
          PROVE  \E j \in (Len(queue) + 1)..Len(t.queue) : t.queue[j].name = m
      <4>1. CASE m = n
        <5>1. Len(s.queue) + 1 \in (Len(queue) + 1)..Len(t.queue)
          BY <2>2, <2>3, <2>4, <2>5
        <5> QED BY <2>2, <2>3, <2>4, <4>1, <5>1
      <4>2. CASE m # n
        <5>1. m \in s.seen \ seen
          BY <2>4, <4>2
        <5>2. PICK j \in (Len(queue) + 1)..Len(s.queue) : s.queue[j].name = m
          BY <2>5, <5>1
        <5>3. j \in (Len(queue) + 1)..Len(t.queue) /\ j \in 1..Len(s.queue)
          BY <2>2, <2>3, <2>4, <5>2
        <5> QED BY <2>3, <2>4, <5>2, <5>3
      <4> QED BY <4>1, <4>2
    <3>2. seen \subseteq t.seen
      BY <2>4, <2>5
    <3> QED BY <3>1, <3>2 DEF SeenGrown, NewItems
  <2>8. \A r \in got \cap ZoneRecords : Got(t, r)
    BY <2>1, <2>4 DEF Got
  <2>9. Grown(t, got)
    BY <2>1, <2>4, <2>6, <2>7, <2>8 DEF Grown
  <2> QED BY <2>0, <2>4, <2>9 DEF item
<1> QED BY <1>1, <1>2

LEMMA TakeGrown ==
    ASSUME zone \in Zones, queue \in Seq(Items), queue # <<>>, NEW s, NEW got, Grown(s, got),
           NEW rec \in Sent
    PROVE  Grown(Take(s, rec, queue[1].depth), got \cup {rec})
<1> DEFINE t == [records |-> Append(s.records, rec), queue |-> s.queue, seen |-> s.seen]
           depth == queue[1].depth
           goes == rec.type = "CNAME" /\ rec.data \in Names /\ depth < MaxDepth
<1>0. /\ s.queue \in Seq(Items) /\ s.seen \in SUBSET Names /\ s.records \in Seq(ZoneRecords)
      /\ Members(records) \subseteq Members(s.records)
      /\ QueueGrown(s) /\ SeenGrown(s) /\ \A r \in got \cap ZoneRecords : Got(s, r)
  BY DEF Grown, Growing
<1>1. CASE ~inZone(rec) \/ ~Kept(rec)
  <2>1. rec \notin ZoneRecords
    BY <1>1, ZoneShape DEF ZoneRecords, inZone
  <2>2. Take(s, rec, depth) = s
    BY <1>1 DEF Take
  <2>3. (got \cup {rec}) \cap ZoneRecords = got \cap ZoneRecords
    BY <2>1
  <2> QED BY <2>2, <2>3 DEF Grown
<1>2. CASE inZone(rec) /\ Kept(rec)
  <2>1. rec \in ZoneRecords
    <3>1. rec # Foreign
      BY <1>2, ScrapeAssumption DEF inZone, Foreign
    <3> QED BY <1>2, <3>1 DEF Sent, ZoneRecords, ZoneRRs
  <2>2. /\ Append(s.records, rec) \in Seq(ZoneRecords)
        /\ Members(Append(s.records, rec)) = Members(s.records) \cup {rec}
    BY <1>0, <2>1, MembersAppend
  <2>3. /\ t.records = Append(s.records, rec) /\ t.queue = s.queue /\ t.seen = s.seen
        /\ t \in Growing
    BY <1>0, <2>2 DEF Growing
  <2>4. Take(s, rec, depth) = IF goes THEN Enqueue(t, [name |-> rec.data, depth |-> depth + 1]) ELSE t
    BY <1>2 DEF Take
  <2> HIDE DEF t
  <2>5. Grown(t, got)
    <3>1. QueueGrown(t) /\ SeenGrown(t)
      BY <1>0, <2>3 DEF QueueGrown, SeenGrown, NewItems
    <3>2. \A r \in got \cap ZoneRecords : Got(t, r)
      BY <1>0, <2>2, <2>3 DEF Got
    <3> QED BY <1>0, <2>2, <2>3, <3>1, <3>2 DEF Grown
  <2>6. CASE goes
    <3> DEFINE u == Enqueue(t, [name |-> rec.data, depth |-> depth + 1])
    <3>1. Grown(u, got) /\ rec.data \in u.seen /\ u.records = t.records
      BY <2>5, <2>6, EnqueueGrown
    <3> HIDE DEF u
    <3>2. Got(u, rec)
      BY <2>2, <2>3, <3>1 DEF Got
    <3>3. Grown(u, got \cup {rec})
      BY <3>1, <3>2 DEF Grown
    <3>4. Take(s, rec, depth) = u
      BY <2>4, <2>6 DEF u
    <3> QED BY <3>3, <3>4
  <2>7. CASE ~goes
    <3>1. Got(t, rec)
      BY <2>2, <2>3, <2>7 DEF Got
    <3>2. Grown(t, got \cup {rec})
      BY <2>5, <3>1 DEF Grown
    <3> QED BY <2>4, <2>7, <3>2
  <2> QED BY <2>6, <2>7
<1> QED BY <1>1, <1>2

LEMMA WalkedGrown ==
    ASSUME records \in Seq(ZoneRecords), queue \in Seq(Items), seen \in SUBSET Names
    PROVE  Grown(Walked, {})
<1>1. Walked.records = records /\ Walked.queue = queue /\ Walked.seen = seen /\ Walked \in Growing
  BY DEF Walked, Growing
<1>2. Len(queue) \in Nat /\ NewItems(Walked) = {}
  BY <1>1 DEF NewItems
<1> QED BY <1>1, <1>2 DEF Grown, QueueGrown, SeenGrown

LEMMA TakenGrown ==
    ASSUME zone \in Zones, records \in Seq(ZoneRecords), queue \in Seq(Items), queue # <<>>,
           seen \in SUBSET Names, NEW answer \in Seq(Sent)
    PROVE  Grown(Taken(answer, queue[1].depth), Members(answer))
<1> DEFINE depth == queue[1].depth
           c == Len(answer)
           Solves(f) == f = [k \in 0..c |-> IF k = 0 THEN Walked ELSE Take(f[k-1], answer[k], depth)]
           after == CHOOSE f : Solves(f)
           Some == {s \in Growing : Grown(s, {})}
           step == [k \in 1..c |-> [s \in Some |-> Take(s, answer[k], depth)]]
           Upto(k) == {answer[j] : j \in 1..k}
<1>0. c \in Nat /\ \A k \in 1..c : answer[k] \in Sent
  OBVIOUS
<1>1. Taken(answer, depth) = after[c]
  BY Zenon DEF Taken
<1> HIDE DEF c, depth
<1>2. Walked \in Some
  BY WalkedGrown DEF Grown
<1>3. ASSUME NEW s \in Some, NEW k \in 1..c PROVE Take(s, answer[k], depth) \in Some
  <2>1. Grown(Take(s, answer[k], depth), {} \cup {answer[k]})
    BY <1>0, TakeGrown DEF depth
  <2> QED BY <2>1 DEF Grown
<1>4. step \in [1..c -> [Some -> Some]]
  <2> HIDE DEF Some
  <2> QED BY <1>3
<1> HIDE DEF Some
<1>5. \E f : Solves(f)
  <2>1. PICK f : Iteration(f, c, Some, Walked, step)
    BY <1>0, <1>2, <1>4, Iterates
  <2>2. f \in [0..c -> Some]
    BY <2>1 DEF Iteration
  <2>3. ASSUME NEW k \in 0..c
        PROVE  f[k] = IF k = 0 THEN Walked ELSE Take(f[k-1], answer[k], depth)
    <3>1. CASE k = 0
      BY <2>1, <3>1 DEF Iteration
    <3>2. CASE k # 0
      <4>0. k \in 1..c /\ k - 1 \in 0..c
        BY <1>0, <3>2
      <4>1. f[k-1] \in Some /\ f[k] = step[k][f[k-1]]
        BY <2>1, <2>2, <4>0 DEF Iteration
      <4> QED BY <3>2, <4>0, <4>1
    <3> QED BY <3>1, <3>2
  <2>4. f = [k \in 0..c |-> f[k]]
    BY <2>2
  <2>5. [k \in 0..c |-> f[k]] =
            [k \in 0..c |-> IF k = 0 THEN Walked ELSE Take(f[k-1], answer[k], depth)]
    BY <2>3
  <2>6. Solves(f)
    BY <2>4, <2>5, Zenon
  <2> HIDE DEF Solves
  <2> QED BY <2>6
<1>6. Solves(after)
  <2> HIDE DEF Solves
  <2> QED BY <1>5, Zenon
<1> HIDE DEF after
<1>7. after[0] = Walked /\ \A k \in 1..c : after[k] = Take(after[k-1], answer[k], depth)
  BY <1>0, <1>6
<1> DEFINE T == {k \in 0..c : Grown(after[k], Upto(k))}
<1>8. 0 \in T
  <2>1. Upto(0) = {}
    OBVIOUS
  <2> HIDE DEF Upto
  <2>2. Grown(after[0], Upto(0))
    BY <1>7, <2>1, WalkedGrown
  <2>3. 0 \in 0..c
    BY <1>0
  <2> QED BY <2>2, <2>3
<1>9. ASSUME NEW k \in 1..c, k - 1 \in T PROVE k \in T
  <2>1. Upto(k) = Upto(k-1) \cup {answer[k]}
    <3>1. \A j : j \in 1..k <=> j \in 1..(k-1) \/ j = k
      BY <1>0
    <3> QED BY <3>1
  <2> HIDE DEF Upto
  <2>2. Grown(after[k-1], Upto(k-1)) /\ answer[k] \in Sent /\ k \in 0..c
    BY <1>0, <1>9
  <2>3. Grown(Take(after[k-1], answer[k], depth), Upto(k-1) \cup {answer[k]})
    BY <2>2, TakeGrown DEF depth
  <2> QED BY <1>7, <2>1, <2>2, <2>3
<1> HIDE DEF T
<1>10. \A k \in 0..c : k \in T
  BY <1>0, <1>8, <1>9, UpTo
<1>11. c \in T
  BY <1>0, <1>10
<1>12. Members(answer) = Upto(c)
  BY DEF Members, c
<1> QED BY <1>1, <1>11, <1>12 DEF T, depth

-----------------------------------------------------------------------------
(* From one query to the next.                                              *)

LEMMA FourTypes ==
    /\ Len(QueryTypes) = 4
    /\ QueryTypes[1] = "CNAME" /\ QueryTypes[2] = "TXT" /\ QueryTypes[3] = "NS"
    /\ QueryTypes[4] = "SRV"
    /\ Members(QueryTypes) = {QueryTypes[t] : t \in 1..4}
BY DEF QueryTypes, Members

\* The head of the queue, and what is behind it.
LEMMA HeadShape ==
    ASSUME queue \in Seq(Items), queue # <<>>
    PROVE  /\ Len(queue) \in Nat \ {0} /\ 1 \in 1..Len(queue)
           /\ queue[1].name \in Names /\ queue[1].depth \in 0..MaxDepth
           /\ \A k \in 1..Len(queue) : queue[k].name \in Names /\ queue[k].depth \in 0..MaxDepth
<1>1. Len(queue) \in Nat \ {0} /\ 1 \in 1..Len(queue)
  OBVIOUS
<1>2. \A k \in 1..Len(queue) : queue[k] \in Items
  OBVIOUS
<1>3. \A k \in 1..Len(queue) : queue[k].name \in Names /\ queue[k].depth \in 0..MaxDepth
  BY <1>2 DEF Items
<1> QED BY <1>1, <1>3

\* The depths after an answer.
Deeper(d, s) == [n \in s.seen |-> IF n \in seen THEN d[n] ELSE queue[1].depth + 1]

LEMMA GrownDepths ==
    ASSUME queue \in Seq(Items), queue # <<>>, seen \in SUBSET Names,
           NEW d, DepthsOK(d), NEW s, NEW got, Grown(s, got), NEW e, e = Deeper(d, s)
    PROVE  /\ e \in [s.seen -> 0..MaxDepth]
           /\ \A n \in seen : n \in s.seen /\ e[n] = d[n]
           /\ \A n \in s.seen : e[n] <= queue[1].depth + 1
           /\ \A j \in 1..Len(s.queue) :
                 /\ s.queue[j].name \in s.seen /\ e[s.queue[j].name] = s.queue[j].depth
                 /\ s.queue[j].depth \in 0..MaxDepth
                 /\ queue[1].depth <= s.queue[j].depth
           /\ \A j, k \in 1..Len(s.queue) : j <= k => s.queue[j].depth <= s.queue[k].depth
<1> DEFINE h == queue[1].depth
           L == Len(queue)
           M == Len(s.queue)
<1>1. /\ s \in Growing /\ QueueGrown(s) /\ SeenGrown(s)
  BY DEF Grown
<1>2. s.queue \in Seq(Items) /\ s.seen \in SUBSET Names
  BY <1>1 DEF Growing
<1>3. /\ L <= M /\ seen \subseteq s.seen
      /\ \A j \in 1..L : s.queue[j] = queue[j]
      /\ \A j \in (L + 1)..M : s.queue[j].name \in s.seen \ seen /\ s.queue[j].depth = h + 1
      /\ s.seen # seen => h < MaxDepth
  BY <1>1 DEF QueueGrown, SeenGrown, NewItems
<1>4. /\ L \in Nat \ {0} /\ M \in Nat /\ 1 \in 1..L /\ h \in 0..MaxDepth
      /\ \A k \in 1..L : queue[k].depth \in 0..MaxDepth
  BY <1>2, HeadShape
<1>5. /\ d \in [seen -> 0..MaxDepth]
      /\ \A k \in 1..L : queue[k].name \in seen /\ d[queue[k].name] = queue[k].depth
      /\ \A j, k \in 1..L : j <= k => queue[j].depth <= queue[k].depth
      /\ \A n \in seen : d[n] <= h + 1
  BY DEF DepthsOK
<1> HIDE DEF h, L, M
<1>6. /\ \A n \in seen : n \in s.seen /\ e[n] = d[n]
      /\ \A n \in s.seen \ seen : e[n] = h + 1
      /\ e = [n \in s.seen |-> e[n]]
  BY <1>3 DEF Deeper, h
<1>7. \A n \in s.seen \ seen : h + 1 \in 0..MaxDepth
  BY <1>3, <1>4, ScrapeAssumption
<1>8. \A n \in s.seen : e[n] \in 0..MaxDepth /\ e[n] <= h + 1
  <2> SUFFICES ASSUME NEW n \in s.seen PROVE e[n] \in 0..MaxDepth /\ e[n] <= h + 1
    OBVIOUS
  <2>1. CASE n \in seen
    BY <1>5, <1>6, <2>1
  <2>2. CASE n \notin seen
    BY <1>4, <1>6, <1>7, <2>2
  <2> QED BY <2>1, <2>2
<1>9. e \in [s.seen -> 0..MaxDepth]
  BY <1>6, <1>8
<1>10. \A j \in 1..M : j \in 1..L \/ j \in (L + 1)..M
  BY <1>4
<1>11. ASSUME NEW j \in 1..M
       PROVE  /\ s.queue[j].name \in s.seen /\ e[s.queue[j].name] = s.queue[j].depth
              /\ s.queue[j].depth \in 0..MaxDepth /\ h <= s.queue[j].depth
  <2>1. CASE j \in 1..L
    <3>1. s.queue[j] = queue[j] /\ queue[j].name \in seen /\ d[queue[j].name] = queue[j].depth
      BY <1>3, <1>5, <2>1
    <3>2. 1 <= j /\ h <= queue[j].depth
      BY <1>4, <1>5, <2>1 DEF h
    <3> QED BY <1>4, <1>6, <2>1, <3>1, <3>2
  <2>2. CASE j \in (L + 1)..M
    <3>1. s.queue[j].name \in s.seen \ seen /\ s.queue[j].depth = h + 1
      BY <1>3, <2>2
    <3>2. h + 1 \in 0..MaxDepth /\ e[s.queue[j].name] = h + 1 /\ s.queue[j].name \in s.seen
      BY <1>6, <1>7, <3>1
    <3>3. h <= h + 1
      BY <1>4
    <3> QED BY <3>1, <3>2, <3>3
  <2> QED BY <1>10, <2>1, <2>2
<1>12. ASSUME NEW j \in 1..M, NEW k \in 1..M, j <= k
       PROVE  s.queue[j].depth <= s.queue[k].depth
  <2>1. CASE k \in 1..L
    <3>1. j \in 1..L
      BY <1>4, <1>12, <2>1
    <3> QED BY <1>3, <1>5, <1>12, <2>1, <3>1
  <2>2. CASE k \in (L + 1)..M
    <3>1. s.queue[k].depth = h + 1
      BY <1>3, <2>2
    <3>2. e[s.queue[j].name] <= h + 1 /\ e[s.queue[j].name] = s.queue[j].depth
      BY <1>8, <1>11
    <3> QED BY <3>1, <3>2
  <2> QED BY <1>10, <2>1, <2>2
<1> QED BY <1>6, <1>8, <1>9, <1>11, <1>12 DEF h, M

\* On to the next type, or to the next name.
Onward(s) ==
    \/ qtype < 4 /\ qtype' = qtype + 1 /\ queue' = s.queue
    \/ qtype = 4 /\ qtype' = 1 /\ queue' = Tail(s.queue)

LEMMA OnwardQueue ==
    ASSUME queue \in Seq(Items), queue # <<>>, NEW s, NEW got, Grown(s, got), Onward(s)
    PROVE  \E off \in {0, 1} :
             /\ off = 0 <=> qtype < 4
             /\ off = 1 <=> qtype = 4
             /\ queue' \in Seq(Items)
             /\ Len(s.queue) \in Nat \ {0}
             /\ Len(queue') = Len(s.queue) - off
             /\ \A k \in 1..Len(queue') : queue'[k] = s.queue[k + off] /\ k + off \in 1..Len(s.queue)
<1>1. s.queue \in Seq(Items) /\ Len(queue) <= Len(s.queue)
  BY DEF Grown, Growing, QueueGrown
<1>2. Len(s.queue) \in Nat \ {0} /\ s.queue # <<>>
  BY <1>1, HeadShape
<1>3. CASE qtype < 4 /\ qtype' = qtype + 1 /\ queue' = s.queue
  <2>1. \A k \in 1..Len(queue') : queue'[k] = s.queue[k + 0] /\ k + 0 \in 1..Len(s.queue)
    BY <1>2, <1>3
  <2>2. 0 \in {0, 1} /\ qtype # 4 /\ Len(queue') = Len(s.queue) - 0
    BY <1>2, <1>3
  <2> QED BY <1>1, <1>2, <1>3, <2>1, <2>2
<1>4. CASE qtype = 4 /\ qtype' = 1 /\ queue' = Tail(s.queue)
  <2>1. /\ Tail(s.queue) \in Seq(Items) /\ Len(Tail(s.queue)) = Len(s.queue) - 1
        /\ \A k \in 1..(Len(s.queue) - 1) : Tail(s.queue)[k] = s.queue[k + 1]
    BY <1>1, <1>2, TailShape
  <2>2. \A k \in 1..Len(queue') : queue'[k] = s.queue[k + 1] /\ k + 1 \in 1..Len(s.queue)
    BY <1>2, <1>4, <2>1
  <2>3. 1 \in {0, 1} /\ ~(qtype < 4)
    BY <1>4
  <2> QED BY <1>2, <1>4, <2>1, <2>2, <2>3
<1> QED BY <1>3, <1>4 DEF Onward

LEMMA OnwardDepths ==
    ASSUME queue \in Seq(Items), queue # <<>>, seen \in SUBSET Names,
           NEW d, DepthsOK(d), NEW s, NEW got, Grown(s, got), Onward(s), seen' = s.seen,
           NEW e, e = Deeper(d, s)
    PROVE  /\ e \in [seen' -> 0..MaxDepth]
           /\ \A n \in Members(Labels) : n \in seen' /\ e[n] = 0
           /\ \A k \in 1..Len(queue') :
                 queue'[k].name \in seen' /\ e[queue'[k].name] = queue'[k].depth
           /\ \A j, k \in 1..Len(queue') : j <= k => queue'[j].depth <= queue'[k].depth
           /\ queue' # <<>> => \A n \in seen' : e[n] <= queue'[1].depth + 1
<1>1. PICK off \in {0, 1} :
        /\ queue' \in Seq(Items)
        /\ Len(s.queue) \in Nat \ {0}
        /\ Len(queue') = Len(s.queue) - off
        /\ \A k \in 1..Len(queue') : queue'[k] = s.queue[k + off] /\ k + off \in 1..Len(s.queue)
  BY OnwardQueue
<1>2. /\ e \in [s.seen -> 0..MaxDepth]
      /\ \A n \in seen : n \in s.seen /\ e[n] = d[n]
      /\ \A n \in s.seen : e[n] <= queue[1].depth + 1
      /\ \A j \in 1..Len(s.queue) :
            /\ s.queue[j].name \in s.seen /\ e[s.queue[j].name] = s.queue[j].depth
            /\ s.queue[j].depth \in 0..MaxDepth
            /\ queue[1].depth <= s.queue[j].depth
      /\ \A j, k \in 1..Len(s.queue) : j <= k => s.queue[j].depth <= s.queue[k].depth
  BY GrownDepths
<1>3. \A n \in Members(Labels) : n \in seen /\ d[n] = 0
  BY DEF DepthsOK
<1>4. \A n \in Members(Labels) : n \in seen' /\ e[n] = 0
  BY <1>2, <1>3
<1>5. ASSUME NEW k \in 1..Len(queue')
      PROVE  queue'[k].name \in seen' /\ e[queue'[k].name] = queue'[k].depth
  BY <1>1, <1>2
<1>6. ASSUME NEW j \in 1..Len(queue'), NEW k \in 1..Len(queue'), j <= k
      PROVE  queue'[j].depth <= queue'[k].depth
  <2>1. j + off <= k + off /\ j + off \in 1..Len(s.queue) /\ k + off \in 1..Len(s.queue)
    BY <1>1, <1>6
  <2> QED BY <1>1, <1>2, <2>1
<1>7. ASSUME queue' # <<>>, NEW n \in seen'
      PROVE  e[n] <= queue'[1].depth + 1
  <2>1. 1 \in 1..Len(queue')
    BY <1>1, <1>7
  <2>2. PICK j \in 1..Len(s.queue) : queue'[1] = s.queue[j]
    BY <1>1, <2>1
  <2>3. /\ queue[1].depth <= queue'[1].depth /\ queue'[1].depth \in 0..MaxDepth
        /\ e[n] <= queue[1].depth + 1 /\ e[n] \in 0..MaxDepth
    BY <1>2, <2>2
  <2>4. queue[1].depth \in 0..MaxDepth
    BY HeadShape
  <2> QED BY <2>3, <2>4
<1> QED BY <1>2, <1>4, <1>5, <1>6, <1>7

\* A query that has been made after the step was made before it, or is the one
\* the step has made.
LEMMA OnwardAsked ==
    ASSUME queue \in Seq(Items), queue # <<>>, qtype \in 1..4,
           \A k \in 1..Len(queue) : queue[k].name \in seen,
           NEW s, NEW got, Grown(s, got), Onward(s),
           NEW n \in s.seen, NEW t \in 1..4, Asked(n, t)'
    PROVE  n \in seen /\ (Asked(n, t) \/ (n = queue[1].name /\ t = qtype))
<1>1. PICK off \in {0, 1} :
        /\ off = 0 <=> qtype < 4
        /\ off = 1 <=> qtype = 4
        /\ queue' \in Seq(Items)
        /\ Len(s.queue) \in Nat \ {0}
        /\ Len(queue') = Len(s.queue) - off
        /\ \A k \in 1..Len(queue') : queue'[k] = s.queue[k + off] /\ k + off \in 1..Len(s.queue)
  BY OnwardQueue
<1>2. /\ Len(queue) <= Len(s.queue)
      /\ \A j \in 1..Len(queue) : s.queue[j] = queue[j]
      /\ \A m \in s.seen \ seen : \E j \in (Len(queue) + 1)..Len(s.queue) : s.queue[j].name = m
  BY DEF Grown, QueueGrown, SeenGrown, NewItems
<1>3. Len(queue) \in Nat \ {0} /\ 1 \in 1..Len(queue)
  BY HeadShape
<1>4. \A j \in 1..Len(s.queue) : j # 1 \/ off = 0 =>
        j - off \in 1..Len(queue') /\ queue'[j - off] = s.queue[j]
  <2> SUFFICES ASSUME NEW j \in 1..Len(s.queue), j # 1 \/ off = 0
               PROVE  j - off \in 1..Len(queue') /\ queue'[j - off] = s.queue[j]
    OBVIOUS
  <2>1. j - off \in 1..Len(queue') /\ (j - off) + off = j
    BY <1>1
  <2> QED BY <1>1, <2>1
<1>5. (\A k \in 1..Len(queue') : queue'[k].name # n) \/
      (queue' # <<>> /\ queue'[1].name = n /\ t < qtype')
  BY DEF Asked
<1>6. CASE \A k \in 1..Len(queue') : queue'[k].name # n
  <2>1. \A j \in 1..Len(s.queue) : j # 1 \/ off = 0 => s.queue[j].name # n
    BY <1>4, <1>6
  <2>2. n \in seen
    <3> SUFFICES ASSUME n \notin seen PROVE FALSE
      OBVIOUS
    <3>1. PICK j \in (Len(queue) + 1)..Len(s.queue) : s.queue[j].name = n
      BY <1>2
    <3>2. j \in 1..Len(s.queue) /\ j # 1
      BY <1>1, <1>3, <3>1
    <3> QED BY <2>1, <3>1, <3>2
  <2>3. \A j \in 1..Len(queue) : j # 1 => queue[j].name # n
    <3> SUFFICES ASSUME NEW j \in 1..Len(queue), j # 1 PROVE queue[j].name # n
      OBVIOUS
    <3>1. j \in 1..Len(s.queue) /\ s.queue[j] = queue[j]
      BY <1>1, <1>2, <1>3
    <3> QED BY <2>1, <3>1
  <2>4. CASE queue[1].name # n
    <3>1. \A j \in 1..Len(queue) : queue[j].name # n
      BY <2>3, <2>4
    <3> QED BY <2>2, <3>1 DEF Asked
  <2>5. CASE queue[1].name = n
    <3>1. 1 \in 1..Len(s.queue) /\ s.queue[1] = queue[1]
      BY <1>1, <1>2, <1>3
    <3>2. off = 1 /\ qtype = 4
      BY <1>1, <2>1, <2>5, <3>1
    <3>3. t < qtype \/ t = qtype
      BY <3>2
    <3> QED BY <2>2, <2>5, <3>3 DEF Asked
  <2> QED BY <2>4, <2>5
<1>7. CASE queue' # <<>> /\ queue'[1].name = n /\ t < qtype'
  <2>1. qtype < 4 /\ qtype' = qtype + 1
    <3>1. CASE qtype = 4 /\ qtype' = 1
      BY <1>7, <3>1
    <3> QED BY <3>1 DEF Onward
  <2>2. off = 0 /\ 1 \in 1..Len(queue')
    BY <1>1, <2>1
  <2>3. queue'[1] = queue[1]
    <3>1. queue'[1] = s.queue[1 + off] /\ 1 + off = 1
      BY <1>1, <2>2
    <3> QED BY <1>2, <1>3, <3>1
  <2>4. queue[1].name = n /\ n \in seen
    BY <1>3, <1>7, <2>3
  <2>5. t < qtype \/ t = qtype
    BY <1>7, <2>1
  <2> QED BY <2>4, <2>5 DEF Asked
<1> QED BY <1>5, <1>6, <1>7

\* The query just made gave what there is to find, or a warning.
Settled(got) ==
    \/ <<"query", queue[1].name, QueryTypes[qtype]>> \in warnings'
    \/ Owed(queue[1].name, QueryTypes[qtype]) => \E r \in got : r \in RRs(queue[1].name)

LEMMA OnwardFound ==
    ASSUME zone \in Zones, zone' = zone,
           queue \in Seq(Items), queue # <<>>, seen \in SUBSET Names, qtype \in 1..4,
           NEW d, WalkOK(d), NEW s, NEW got, Grown(s, got), Onward(s), seen' = s.seen,
           warnings \subseteq warnings', Named(records') = Named(s.records), Settled(got),
           NEW e, e = Deeper(d, s)
    PROVE  \A n \in seen', t \in 1..4 :
              Asked(n, t)' =>
                \/ <<"query", n, QueryTypes[t]>> \in warnings'
                \/ /\ Owed(n, QueryTypes[t]) => n \in Named(records')
                   /\ zone[n].type = "CNAME" /\ zone[n].data \in Names /\ e[n] < MaxDepth =>
                         zone[n].data \in seen' /\ e[zone[n].data] <= e[n] + 1
<1>1. DepthsOK(d) /\ FoundOK(d)
  BY DEF WalkOK
<1>2. /\ \A n \in seen : n \in s.seen /\ e[n] = d[n]
      /\ \A n \in s.seen : e[n] <= queue[1].depth + 1
      /\ e \in [s.seen -> 0..MaxDepth]
  BY <1>1, GrownDepths
<1>3. /\ \A k \in 1..Len(queue) : queue[k].name \in seen /\ d[queue[k].name] = queue[k].depth
      /\ 1 \in 1..Len(queue) /\ queue[1].depth \in 0..MaxDepth
  BY <1>1, HeadShape DEF DepthsOK
<1>4. Members(records) \subseteq Members(s.records) /\ \A r \in got \cap ZoneRecords : Got(s, r)
  BY DEF Grown
<1>40. Named(records) \subseteq Named(records') /\ \A r \in Members(s.records) : r.name \in Named(records')
  BY <1>4, NamedOf
<1> SUFFICES ASSUME NEW n \in s.seen, NEW t \in 1..4, Asked(n, t)',
                    <<"query", n, QueryTypes[t]>> \notin warnings'
             PROVE  /\ Owed(n, QueryTypes[t]) => n \in Named(records')
                    /\ zone[n].type = "CNAME" /\ zone[n].data \in Names /\ e[n] < MaxDepth =>
                          zone[n].data \in seen' /\ e[zone[n].data] <= e[n] + 1
  OBVIOUS
<1>5. n \in seen /\ (Asked(n, t) \/ (n = queue[1].name /\ t = qtype))
  BY <1>3, OnwardAsked
<1>6. CASE Asked(n, t)
  <2>1. <<"query", n, QueryTypes[t]>> \in warnings \/ Found(d, n, t)
    BY <1>1, <1>5, <1>6, FourTypes DEF FoundOK
  <2>2. Found(d, n, t)
    BY <2>1
  <2>3. /\ Owed(n, QueryTypes[t]) => n \in Named(records)
        /\ zone[n].type = "CNAME" /\ zone[n].data \in Names /\ d[n] < MaxDepth =>
              zone[n].data \in seen /\ d[zone[n].data] <= d[n] + 1
    BY <2>2 DEF Found
  <2> QED BY <1>2, <1>40, <1>5, <2>3
<1>7. CASE n = queue[1].name /\ t = qtype
  <2>1. Owed(n, QueryTypes[t]) => \E r \in got : r \in RRs(n)
    BY <1>7 DEF Settled
  <2>2. QueryTypes[t] \in {"CNAME", "TXT", "NS", "SRV"} /\ n \in Names
    BY FourTypes, <1>5
  <2>3. Owed(n, QueryTypes[t]) =>
            \E r : Got(s, r) /\ r.name = n /\ r.type = zone[n].type /\ r.data = zone[n].data
    <3> SUFFICES ASSUME Owed(n, QueryTypes[t])
                 PROVE  \E r : Got(s, r) /\ r.name = n /\ r.type = zone[n].type /\ r.data = zone[n].data
      OBVIOUS
    <3>1. PICK r \in got : r \in RRs(n)
      BY <2>1
    <3>2. RRs(n) \subseteq ZoneRecords
      BY <2>2, ZoneShape DEF Owed
    <3> QED BY <1>4, <3>1, <3>2, ZoneShape
  <2>4. Owed(n, QueryTypes[t]) => n \in Named(records')
    BY <1>40, <2>3 DEF Got
  <2>5. ASSUME zone[n].type = "CNAME", zone[n].data \in Names, e[n] < MaxDepth
        PROVE  zone[n].data \in seen' /\ e[zone[n].data] <= e[n] + 1
    <3>1. e[n] = queue[1].depth
      BY <1>2, <1>3, <1>7
    <3>2. PICK r : Got(s, r) /\ r.type = "CNAME" /\ r.data = zone[n].data
      BY <2>3, <2>5 DEF Owed
    <3>3. zone[n].data \in s.seen
      BY <2>5, <3>1, <3>2 DEF Got
    <3> QED BY <1>2, <3>1, <3>3
  <2> QED BY <2>4, <2>5
<1> QED BY <1>5, <1>6, <1>7

-----------------------------------------------------------------------------
(* The steps.                                                               *)

LEMMA ZoneUnchanged ==
    ASSUME zone' = zone
    PROVE  /\ ZoneRecords' = ZoneRecords
           /\ ZoneRRs' = ZoneRRs
           /\ \A n : RRs(n)' = RRs(n)
           /\ \A n, type : Owed(n, type)' <=> Owed(n, type)
           /\ \A d, n, t : Found(d, n, t)' <=>
                /\ Owed(n, QueryTypes[t]) => n \in Named(records')
                /\ zone[n].type = "CNAME" /\ zone[n].data \in Names /\ d[n] < MaxDepth =>
                      zone[n].data \in seen' /\ d[zone[n].data] <= d[n] + 1
<1>1. \A n : RRs(n)' = RRs(n)
  BY DEF RRs
<1>2. ZoneRRs' = ZoneRRs
  BY <1>1 DEF ZoneRRs
<1>3. ZoneRecords' = ZoneRecords
  BY <1>2 DEF ZoneRecords
<1>5. \A n, type : Owed(n, type)' <=> Owed(n, type)
  BY <1>1 DEF Owed
<1>4. \A d, n, t : Found(d, n, t)' <=>
                /\ Owed(n, QueryTypes[t]) => n \in Named(records')
                /\ zone[n].type = "CNAME" /\ zone[n].data \in Names /\ d[n] < MaxDepth =>
                      zone[n].data \in seen' /\ d[zone[n].data] <= d[n] + 1
  BY <1>5 DEF Found, Named
<1> QED BY <1>1, <1>2, <1>3, <1>4, <1>5

\* What Advance makes of the queue, the records and the place.
LEMMA AdvanceShape ==
    ASSUME IInv, pc = "query", NEW s, NEW got, Grown(s, got), Advance(s), zone' = zone
    PROVE  /\ ns' = 1 /\ seen' = s.seen /\ seen' \in SUBSET Names
           /\ Onward(s) /\ qtype' \in 1..4 /\ queue' \in Seq(Items)
           /\ records' \in Seq(ZoneRecords) /\ Named(records') = Named(s.records)
           /\ pc' \in {"query", "scraped"} /\ (pc' = "query" <=> queue' # <<>>)
           /\ pc' = "scraped" => Distinct(records')
<1>1. s.records \in Seq(ZoneRecords) /\ s.queue \in Seq(Items) /\ s.seen \in SUBSET Names
  BY DEF Grown, Growing
<1>2. queue \in Seq(Items) /\ queue # <<>> /\ qtype \in 1..4
  BY FourTypes DEF IInv, ShapeOK, PlaceOK
<1>3. Len(queue) \in Nat \ {0} /\ Len(queue) <= Len(s.queue)
  BY <1>2, HeadShape DEF Grown, QueueGrown
<1>4. s.queue # <<>>
  BY <1>1, <1>3
<1>5. ns' = 1 /\ seen' = s.seen
  BY DEF Advance
<1>6. /\ Dedup(s.records) \in Seq(ZoneRecords) /\ Named(Dedup(s.records)) = Named(s.records)
      /\ Distinct(Dedup(s.records))
  BY <1>1, DedupOK
<1>7. CASE /\ qtype < Len(QueryTypes) /\ qtype' = qtype + 1 /\ queue' = s.queue
           /\ records' = s.records /\ pc' = pc
  BY <1>1, <1>2, <1>4, <1>5, <1>7, FourTypes DEF Onward
<1>8. CASE /\ qtype = Len(QueryTypes) /\ qtype' = 1 /\ queue' = Tail(s.queue)
           /\ records' = IF queue' = <<>> THEN Dedup(s.records) ELSE s.records
           /\ pc' = IF queue' = <<>> THEN "scraped" ELSE "query"
  <2>1. Tail(s.queue) \in Seq(Items)
    BY <1>1, <1>4, TailShape
  <2>2. Onward(s) /\ qtype' \in 1..4
    BY <1>8, FourTypes DEF Onward
  <2> QED BY <1>1, <1>5, <1>6, <1>8, <2>1, <2>2
<1>9. \/ /\ qtype < Len(QueryTypes) /\ qtype' = qtype + 1 /\ queue' = s.queue
         /\ records' = s.records /\ pc' = pc
      \/ /\ qtype = Len(QueryTypes) /\ qtype' = 1 /\ queue' = Tail(s.queue)
         /\ records' = IF queue' = <<>> THEN Dedup(s.records) ELSE s.records
         /\ pc' = IF queue' = <<>> THEN "scraped" ELSE "query"
  BY Zenon DEF Advance
<1> QED BY <1>7, <1>8, <1>9

LEMMA AdvanceIInv ==
    ASSUME IInv, pc = "query", NEW s, NEW got, Grown(s, got), Advance(s), Settled(got),
           warnings \subseteq warnings', faults' \in 0..MaxFaults,
           zone' = zone, chase' = chase, usable' = usable, source' = source, file' = file
    PROVE  IInv'
<1>1. /\ ns' = 1 /\ seen' = s.seen /\ seen' \in SUBSET Names
      /\ Onward(s) /\ qtype' \in 1..4 /\ queue' \in Seq(Items)
      /\ records' \in Seq(ZoneRecords) /\ Named(records') = Named(s.records)
      /\ pc' \in {"query", "scraped"} /\ (pc' = "query" <=> queue' # <<>>)
      /\ pc' = "scraped" => Distinct(records')
  BY AdvanceShape
<1>2. /\ zone \in Zones /\ chase \in BOOLEAN /\ usable \in 0..Servers /\ ns \in 1..(Servers + 1)
      /\ ns <= usable /\ source = "iterated" /\ file = <<>>
      /\ queue \in Seq(Items) /\ queue # <<>> /\ seen \in SUBSET Names /\ qtype \in 1..4
  BY FourTypes DEF IInv, ShapeOK, PlaceOK
<1>3. ShapeOK'
  <2>1. ns' \in 1..(Servers + 1)
    BY <1>1, ScrapeAssumption
  <2> QED BY <1>1, <1>2, <2>1, FourTypes, ZoneUnchanged DEF ShapeOK
<1>4. PlaceOK'
  <2>1. ns' <= usable'
    BY <1>1, <1>2, ScrapeAssumption
  <2> QED BY <1>1, <1>2, <2>1 DEF PlaceOK
<1>5. DistinctOK' /\ TransferOK'
  <2>1. DistinctOK'
    BY <1>1 DEF DistinctOK, Distinct
  <2> QED BY <1>2, <2>1 DEF TransferOK
<1>6. \E e : WalkOK(e)'
  <2>1. PICK d : WalkOK(d)
    BY DEF IInv, Walking
  <2>2. PICK e : e = Deeper(d, s)
    OBVIOUS
  <2>3. DepthsOK(e)'
    <3>1. /\ e \in [seen' -> 0..MaxDepth]
          /\ \A n \in Members(Labels) : n \in seen' /\ e[n] = 0
          /\ \A k \in 1..Len(queue') :
                queue'[k].name \in seen' /\ e[queue'[k].name] = queue'[k].depth
          /\ \A j, k \in 1..Len(queue') : j <= k => queue'[j].depth <= queue'[k].depth
          /\ queue' # <<>> => \A n \in seen' : e[n] <= queue'[1].depth + 1
      BY <1>1, <1>2, <2>1, <2>2, OnwardDepths DEF WalkOK
    <3> QED BY <3>1 DEF DepthsOK
  <2>4. FoundOK(e)'
    <3>1. \A n \in seen', t \in 1..4 :
              Asked(n, t)' =>
                \/ <<"query", n, QueryTypes[t]>> \in warnings'
                \/ /\ Owed(n, QueryTypes[t]) => n \in Named(records')
                   /\ zone[n].type = "CNAME" /\ zone[n].data \in Names /\ e[n] < MaxDepth =>
                         zone[n].data \in seen' /\ e[zone[n].data] <= e[n] + 1
      BY <1>1, <1>2, <2>1, <2>2, OnwardFound
    <3>2. \A n \in seen', t \in 1..4 :
              Asked(n, t)' => <<"query", n, QueryTypes[t]>> \in warnings' \/ Found(e, n, t)'
      BY <3>1, ZoneUnchanged
    <3> QED BY <3>2, FourTypes DEF FoundOK
  <2> QED BY <2>3, <2>4 DEF WalkOK
<1> QED BY <1>3, <1>4, <1>5, <1>6 DEF IInv

LEMMA InitIInv == Init => IInv
<1> SUFFICES ASSUME Init PROVE IInv
  OBVIOUS
<1>1. ShapeOK
  BY ScrapeAssumption, FourTypes DEF Init, ShapeOK
<1>2. PlaceOK
  BY DEF Init, PlaceOK
<1> QED BY <1>1, <1>2 DEF Init, IInv, DistinctOK, TransferOK, Walking

LEMMA LookupNSIInv ==
    ASSUME IInv, LookupNS PROVE IInv'
<1>1. PICK n \in 0..Servers : usable' = n /\ pc' = IF n = 0 THEN "failed" ELSE "axfr"
  BY Zenon DEF LookupNS
<1>2. /\ pc = "lookup" /\ zone' = zone /\ chase' = chase /\ ns' = ns /\ faults' = faults
      /\ queue' = queue /\ seen' = seen /\ qtype' = qtype /\ records' = records
      /\ warnings' = warnings /\ source' = source /\ file' = file
  BY Zenon DEF LookupNS, walk, found
<1>3. ShapeOK'
  BY <1>1, <1>2, ZoneUnchanged DEF IInv, ShapeOK
<1>4. PlaceOK'
  BY <1>1, <1>2 DEF IInv, PlaceOK
<1> QED BY <1>1, <1>2, <1>3, <1>4 DEF IInv, DistinctOK, TransferOK, Walking

LEMMA TransferIInv ==
    ASSUME IInv, Transfer PROVE IInv'
<1>0. PICK sent \in {ZoneRRs, ZoneRRs \cup {Foreign}} :
        /\ records' = Listing({rec \in sent : inZone(rec) /\ Kept(rec)})
        /\ warnings' = Skipped({rec \in sent : inZone(rec)}) \cup
              {<<"dropped", rec.name>> : rec \in {r \in sent : ~inZone(r)}}
  BY Zenon DEF Transfer
<1>01. zone \in Zones
  BY DEF IInv, ShapeOK
<1>02. {rec \in sent : inZone(rec)} = ZoneRRs
  <2>1. \A rec \in ZoneRRs : inZone(rec)
    BY <1>01, ZoneShape DEF ZoneRRs, inZone
  <2>2. ~inZone(Foreign)
    BY ScrapeAssumption DEF inZone, Foreign
  <2> QED BY <2>1, <2>2
<1>03. {rec \in sent : inZone(rec) /\ Kept(rec)} = ZoneRecords
  BY <1>02 DEF ZoneRecords
<1>1. /\ pc = "axfr" /\ records' = Listing(ZoneRecords)
      /\ Skipped(ZoneRRs) \subseteq warnings'
      /\ source' = "axfr" /\ pc' = "scraped"
      /\ zone' = zone /\ chase' = chase /\ usable' = usable /\ ns' = ns /\ faults' = faults
      /\ queue' = queue /\ seen' = seen /\ qtype' = qtype /\ file' = file
  <2>1. Skipped(ZoneRRs) \subseteq warnings'
    BY <1>0, <1>02
  <2>2. records' = Listing(ZoneRecords)
    BY <1>0, <1>03
  <2> QED BY <2>1, <2>2, Zenon DEF Transfer, walk
<1>2. IsFiniteSet(ZoneRecords)
  <2> DEFINE All == {RRs(n) : n \in Names}
             f == [n \in Names |-> RRs(n)]
  <2>1. f \in Surjection(Names, All)
    <3>1. f \in [Names -> All] /\ \A r \in All : \E n \in Names : f[n] = r
      OBVIOUS
    <3> QED BY <3>1, Fun_IsSurj
  <2>2. IsFiniteSet(All)
    BY <2>1, ScrapeAssumption, FS_Surjection
  <2>3. \A S \in All : IsFiniteSet(S)
    BY <1>01, ZoneShape
  <2>4. IsFiniteSet(ZoneRRs)
    BY <2>2, <2>3, FS_UNION DEF ZoneRRs
  <2> QED BY <2>4, FS_Subset DEF ZoneRecords
<1>3. records' \in Seq(ZoneRecords) /\ Members(records') = ZoneRecords /\ Distinct(records')
  BY <1>1, <1>2, ListingOK
<1>4. ShapeOK'
  BY <1>1, <1>3, ZoneUnchanged DEF IInv, ShapeOK
<1>5. PlaceOK'
  BY <1>1 DEF IInv, PlaceOK
<1>6. DistinctOK'
  BY <1>3 DEF DistinctOK, Distinct
<1>7. TransferOK'
  <2>1. Members(records)' = Members(records')
    BY DEF Members
  <2>2. Skipped(ZoneRRs)' = Skipped(ZoneRRs)
    BY <1>1, ZoneUnchanged DEF Skipped
  <2> QED BY <1>1, <1>3, <2>1, <2>2, ZoneUnchanged DEF TransferOK
<1> QED BY <1>1, <1>4, <1>5, <1>6, <1>7 DEF IInv, Walking

LEMMA TransferFailsIInv ==
    ASSUME IInv, TransferFails PROVE IInv'
<1>1. /\ pc = "axfr" /\ ns <= usable /\ ns' = ns + 1
      /\ zone' = zone /\ chase' = chase /\ pc' = pc /\ usable' = usable /\ faults' = faults
      /\ queue' = queue /\ seen' = seen /\ qtype' = qtype /\ records' = records
      /\ warnings' = warnings /\ source' = source /\ file' = file
  BY Zenon DEF TransferFails, walk, found
<1>2. ns' \in 1..(Servers + 1)
  BY <1>1, ScrapeAssumption DEF IInv, ShapeOK
<1>3. ShapeOK'
  BY <1>1, <1>2, ZoneUnchanged DEF IInv, ShapeOK
<1>4. PlaceOK'
  BY <1>1 DEF IInv, PlaceOK
<1> QED BY <1>1, <1>3, <1>4 DEF IInv, DistinctOK, TransferOK, Walking

\* The walk begins at the labels, all at depth 0, with nothing asked.
LEMMA StartOK ==
    /\ StartQueue \in Seq(Items)
    /\ \A k \in 1..Len(StartQueue) : StartQueue[k].name \in Members(Labels) /\ StartQueue[k].depth = 0
    /\ \A n \in Members(Labels) : \E k \in 1..Len(StartQueue) : StartQueue[k].name = n
    /\ Members(Labels) \subseteq Names
<1> DEFINE s == Firsts(Labels, Labels)
<1>1. s \in Seq(Names) /\ Members(s) = Members(Labels)
  <2>1. /\ s \in Seq(Names) /\ Members(s) \subseteq Members(Labels)
        /\ \A k \in 1..Len(Labels) : \E j \in 1..Len(Labels) :
              Labels[j] = Labels[k] /\ Labels[j] \in Members(s)
    BY FirstsOK, ScrapeAssumption
  <2> HIDE DEF s
  <2> QED BY <2>1 DEF Members
<1>2. StartQueue = [k \in 1..Len(s) |-> [name |-> s[k], depth |-> 0]]
  BY DEF StartQueue
<1> HIDE DEF s
<1>3. Len(s) \in Nat /\ \A k \in 1..Len(s) : s[k] \in Names /\ s[k] \in Members(s)
  BY <1>1, MembersOf
<1>4. StartQueue \in Seq(Items) /\ Len(StartQueue) = Len(s)
  <2>1. \A k \in 1..Len(s) : [name |-> s[k], depth |-> 0] \in Items
    BY <1>3, ScrapeAssumption DEF Items
  <2> QED BY <1>2, <1>3, <2>1
<1>5. \A k \in 1..Len(s) : StartQueue[k].name = s[k] /\ StartQueue[k].depth = 0
  BY <1>2
<1>6. \A n \in Members(s) : \E k \in 1..Len(s) : s[k] = n
  BY DEF Members
<1>7. Members(Labels) \subseteq Names
  BY <1>1, MembersOf
<1> QED BY <1>1, <1>3, <1>4, <1>5, <1>6, <1>7

LEMMA BeginWalkIInv ==
    ASSUME IInv, BeginWalk PROVE IInv'
<1>1. /\ pc = "axfr" /\ ns' = 1 /\ queue' = StartQueue /\ seen' = Members(Labels)
      /\ source' = "iterated" /\ pc' = IF queue' = <<>> THEN "scraped" ELSE "query"
      /\ zone' = zone /\ chase' = chase /\ usable' = usable /\ faults' = faults /\ qtype' = qtype
      /\ records' = records /\ warnings' = warnings /\ file' = file
  BY Zenon DEF BeginWalk
<1>2. usable > 0 /\ usable \in 0..Servers /\ records = <<>> /\ qtype = 1 /\ file = <<>>
  BY <1>1 DEF IInv, ShapeOK, PlaceOK
<1>3. ShapeOK'
  <2>1. queue' \in Seq(Items) /\ seen' \in SUBSET Names
    BY <1>1, StartOK
  <2>2. ns' \in 1..(Servers + 1)
    BY <1>1, ScrapeAssumption
  <2>3. pc' \in {"lookup", "axfr", "query", "scraped", "failed", "imported"}
    BY <1>1
  <2>4. records' \in Seq(ZoneRecords)' /\ qtype' \in 1..Len(QueryTypes)
    BY <1>1, ZoneUnchanged DEF IInv, ShapeOK
  <2>5. /\ zone' \in Zones /\ chase' \in BOOLEAN /\ usable' \in 0..Servers /\ faults' \in 0..MaxFaults
        /\ source' \in {"none", "axfr", "iterated"}
    BY <1>1 DEF IInv, ShapeOK
  <2> QED BY <2>1, <2>2, <2>3, <2>4, <2>5 DEF ShapeOK
<1>4. PlaceOK'
  BY <1>1, <1>2 DEF PlaceOK
<1>5. DistinctOK' /\ TransferOK'
  BY <1>1, <1>2 DEF DistinctOK, Distinct, TransferOK
<1>6. \E e : WalkOK(e)'
  <2>1. PICK e : e = [n \in Members(Labels) |-> 0]
    OBVIOUS
  <2>2. e \in [Members(Labels) -> 0..MaxDepth] /\ \A n \in Members(Labels) : e[n] = 0
    BY <2>1, ScrapeAssumption
  <2>3. DepthsOK(e)'
    <3>1. /\ \A k \in 1..Len(queue') : queue'[k].name \in seen' /\ queue'[k].depth = 0
          /\ queue' # <<>> => 1 \in 1..Len(queue')
      BY <1>1, StartOK
    <3> QED BY <1>1, <2>2, <3>1 DEF DepthsOK
  <2>4. \A n \in seen', t \in 1..4 : ~Asked(n, t)'
    BY <1>1, <1>2, StartOK DEF Asked
  <2>5. FoundOK(e)'
    BY <2>4, FourTypes DEF FoundOK
  <2> QED BY <2>3, <2>5 DEF WalkOK
<1> QED BY <1>3, <1>4, <1>5, <1>6 DEF IInv

LEMMA AnsweredIInv ==
    ASSUME IInv, Answered PROVE IInv'
<1> DEFINE whole == Answer(queue[1].name, QueryTypes[qtype])
<1>0. PICK k \in 0..Len(whole) :
        /\ CutAt(whole, k)
        /\ Advance(Taken(SubSeq(whole, 1, k), queue[1].depth))
        /\ warnings' = warnings \cup Delegations(SubSeq(whole, 1, k))
  BY Zenon DEF Answered
<1> DEFINE answer == SubSeq(whole, 1, k)
           s == Taken(answer, queue[1].depth)
           got == Members(answer)
<1>1. /\ pc = "query" /\ Advance(s) /\ warnings' = warnings \cup Delegations(answer)
      /\ zone' = zone /\ chase' = chase /\ usable' = usable /\ faults' = faults
      /\ source' = source /\ file' = file
  BY <1>0, Zenon DEF Answered
<1>2. /\ zone \in Zones /\ records \in Seq(ZoneRecords) /\ queue \in Seq(Items) /\ queue # <<>>
      /\ seen \in SUBSET Names /\ faults \in 0..MaxFaults
  BY <1>1 DEF IInv, ShapeOK, PlaceOK
<1>3. queue[1].name \in Names
  BY <1>2, HeadShape
<1>4. /\ answer \in Seq(Sent)
      /\ Owed(queue[1].name, QueryTypes[qtype]) => \E r \in got : r \in RRs(queue[1].name)
  BY <1>0, <1>2, <1>3, ReplyOK
<1> HIDE DEF answer
<1>5. Grown(s, got)
  BY <1>2, <1>4, TakenGrown
<1> HIDE DEF s
<1>6. Settled(got)
  BY <1>4 DEF Settled
<1> HIDE DEF got
<1>7. warnings \subseteq warnings' /\ faults' \in 0..MaxFaults
  BY <1>1, <1>2
<1> QED BY <1>1, <1>5, <1>6, <1>7, AdvanceIInv

LEMMA GivenUpIInv ==
    ASSUME IInv, pc = "query", faults < MaxFaults, faults' = faults + 1,
           warnings' = warnings \cup {QueryWarning}, Advance(Walked),
           zone' = zone, chase' = chase, usable' = usable, source' = source, file' = file
    PROVE  IInv'
<1>1. records \in Seq(ZoneRecords) /\ queue \in Seq(Items) /\ seen \in SUBSET Names
  BY DEF IInv, ShapeOK
<1>2. Grown(Walked, {})
  BY <1>1, WalkedGrown
<1>3. Settled({}) /\ warnings \subseteq warnings'
  BY DEF Settled, QueryWarning
<1>4. faults' \in 0..MaxFaults
  BY ScrapeAssumption DEF IInv, ShapeOK
<1> QED BY <1>2, <1>3, <1>4, AdvanceIInv

LEMMA RefusedIInv ==
    ASSUME IInv, Refused PROVE IInv'
<1>1. /\ pc = "query" /\ faults < MaxFaults /\ faults' = faults + 1
      /\ warnings' = warnings \cup {QueryWarning} /\ Advance(Walked)
      /\ zone' = zone /\ chase' = chase /\ usable' = usable /\ source' = source /\ file' = file
  BY Zenon DEF Refused
<1> QED BY <1>1, GivenUpIInv

LEMMA NoAnswerIInv ==
    ASSUME IInv, NoAnswer PROVE IInv'
<1>1. /\ pc = "query" /\ faults < MaxFaults /\ faults' = faults + 1
      /\ zone' = zone /\ chase' = chase /\ usable' = usable /\ source' = source /\ file' = file
      /\ \/ /\ ns < usable /\ ns' = ns + 1
            /\ pc' = pc /\ queue' = queue /\ seen' = seen /\ qtype' = qtype
            /\ records' = records /\ warnings' = warnings
         \/ ns = usable /\ warnings' = warnings \cup {QueryWarning} /\ Advance(Walked)
  BY Zenon DEF NoAnswer, walk
<1>2. CASE ns = usable /\ warnings' = warnings \cup {QueryWarning} /\ Advance(Walked)
  BY <1>1, <1>2, GivenUpIInv
<1>3. CASE /\ ns < usable /\ ns' = ns + 1
           /\ pc' = pc /\ queue' = queue /\ seen' = seen /\ qtype' = qtype
           /\ records' = records /\ warnings' = warnings
  <2>1. /\ ns' \in 1..(Servers + 1) /\ ns' <= usable' /\ faults' \in 0..MaxFaults
    BY <1>1, <1>3, ScrapeAssumption DEF IInv, ShapeOK
  <2>2. ShapeOK'
    BY <1>1, <1>3, <2>1, ZoneUnchanged DEF IInv, ShapeOK
  <2>3. PlaceOK'
    BY <1>1, <1>3, <2>1 DEF IInv, PlaceOK
  <2>4. DistinctOK' /\ TransferOK'
    BY <1>1, <1>3 DEF DistinctOK, TransferOK
  <2>5. \E d : WalkOK(d)'
    <3>1. PICK d : WalkOK(d)
      BY <1>1 DEF IInv, Walking
    <3>2. DepthsOK(d)'
      BY <1>3, <3>1 DEF WalkOK, DepthsOK
    <3>3. \A n, t : (Asked(n, t)' <=> Asked(n, t)) /\ (Found(d, n, t)' <=> Found(d, n, t))
      BY <1>1, <1>3, ZoneUnchanged DEF Asked, Found
    <3>4. FoundOK(d)'
      BY <1>3, <3>1, <3>3 DEF WalkOK, FoundOK
    <3> QED BY <3>2, <3>4 DEF WalkOK
  <2> QED BY <2>2, <2>3, <2>4, <2>5 DEF IInv
<1> QED BY <1>1, <1>2, <1>3

LEMMA CancelIInv ==
    ASSUME IInv, Cancel PROVE IInv'
<1>1. /\ pc = "query" /\ pc' = "failed" /\ records' = <<>> /\ source' = "none"
      /\ queue' = <<>> /\ seen' = {} /\ qtype' = 1 /\ ns' = 1
      /\ zone' = zone /\ chase' = chase /\ usable' = usable /\ faults' = faults /\ file' = file
  BY Zenon DEF Cancel
<1>2. ns' \in 1..(Servers + 1)
  BY <1>1, ScrapeAssumption
<1>3. ShapeOK'
  BY <1>1, <1>2, FourTypes DEF IInv, ShapeOK
<1>4. PlaceOK'
  BY <1>1 DEF IInv, PlaceOK
<1> QED BY <1>1, <1>3, <1>4 DEF IInv, DistinctOK, TransferOK, Walking

LEMMA ExportImportIInv ==
    ASSUME IInv, ExportImport PROVE IInv'
<1>1. /\ pc = "scraped"
      /\ \/ file' \in {ThroughBIND(records), records} /\ pc' = "imported"
         \/ /\ file' = <<>> /\ pc' = "unreadable"
            /\ \E k \in 1..Len(records) : Unparsable(records[k])
      /\ zone' = zone /\ chase' = chase /\ usable' = usable /\ ns' = ns /\ faults' = faults
      /\ queue' = queue /\ seen' = seen /\ qtype' = qtype /\ records' = records
      /\ warnings' = warnings /\ source' = source
  BY DEF ExportImport, walk, found, ThroughJSON
<1>2. ShapeOK'
  BY <1>1, ZoneUnchanged DEF IInv, ShapeOK
<1>3. PlaceOK'
  <2>1. ThroughBIND(records)' = ThroughBIND(records)
    BY <1>1 DEF ThroughBIND, BINDLine
  <2>2. \A k : Unparsable(records[k])' <=> Unparsable(records[k])
    BY <1>1 DEF Unparsable
  <2> QED BY <1>1, <2>1, <2>2 DEF IInv, PlaceOK
<1> QED BY <1>1, <1>2, <1>3 DEF IInv, DistinctOK, TransferOK, Walking

LEMMA StutterIInv ==
    ASSUME IInv, UNCHANGED vars PROVE IInv'
<1>1. /\ zone' = zone /\ chase' = chase /\ pc' = pc /\ usable' = usable /\ ns' = ns /\ faults' = faults
      /\ queue' = queue /\ seen' = seen /\ qtype' = qtype /\ records' = records
      /\ warnings' = warnings /\ source' = source /\ file' = file
  BY Zenon DEF vars
<1>2. ShapeOK' /\ PlaceOK'
  BY <1>1, ZoneUnchanged DEF IInv, ShapeOK, PlaceOK, ThroughBIND, BINDLine, Unparsable
<1>3. DistinctOK' /\ TransferOK'
  BY <1>1, ZoneUnchanged DEF IInv, DistinctOK, TransferOK
<1>4. ASSUME NEW d, WalkOK(d) PROVE WalkOK(d)'
  <2>1. DepthsOK(d)'
    BY <1>1, <1>4 DEF WalkOK, DepthsOK
  <2>2. \A n, t : (Asked(n, t)' <=> Asked(n, t)) /\ (Found(d, n, t)' <=> Found(d, n, t))
    BY <1>1, ZoneUnchanged DEF Asked, Found
  <2>3. FoundOK(d)'
    BY <1>1, <1>4, <2>2 DEF WalkOK, FoundOK
  <2> QED BY <2>1, <2>3 DEF WalkOK
<1>5. Walking' => \E d : WalkOK(d)'
  BY <1>1, <1>4 DEF IInv, Walking
<1> QED BY <1>2, <1>3, <1>5 DEF IInv

\* The invariant is inductive.
LEMMA Invariance == Spec => []IInv
<1>1. Init => IInv
  BY InitIInv
<1>2. IInv /\ [Next]_vars => IInv'
  <2> SUFFICES ASSUME IInv, [Next]_vars PROVE IInv'
    OBVIOUS
  <2>1. CASE LookupNS BY <2>1, LookupNSIInv
  <2>2. CASE Transfer BY <2>2, TransferIInv
  <2>3. CASE TransferFails BY <2>3, TransferFailsIInv
  <2>4. CASE BeginWalk BY <2>4, BeginWalkIInv
  <2>5. CASE Cancel BY <2>5, CancelIInv
  <2>6. CASE Refused BY <2>6, RefusedIInv
  <2>7. CASE NoAnswer BY <2>7, NoAnswerIInv
  <2>8. CASE Answered BY <2>8, AnsweredIInv
  <2>9. CASE ExportImport BY <2>9, ExportImportIInv
  <2>10. CASE Finished
    BY <2>10, StutterIInv DEF Finished
  <2>11. CASE UNCHANGED vars
    BY <2>11, StutterIInv
  <2> QED BY <2>1, <2>2, <2>3, <2>4, <2>5, <2>6, <2>7, <2>8, <2>9, <2>10, <2>11, Zenon DEF Next, Step
<1> QED BY <1>1, <1>2, PTL DEF Spec

-----------------------------------------------------------------------------
(* What follows from the invariant.                                         *)

\* When the walk is over every query has been made.
LEMMA AllAsked ==
    ASSUME IInv, pc = "scraped", source = "iterated"
    PROVE  \E d : /\ DepthsOK(d) /\ seen \subseteq Names
                  /\ \A n \in seen, t \in 1..4 :
                        <<n, QueryTypes[t]>> \notin Unanswered => Found(d, n, t)
<1>1. PICK d : WalkOK(d)
  BY DEF IInv, Walking
<1>2. queue = <<>> /\ seen \subseteq Names
  BY DEF IInv, PlaceOK, ShapeOK
<1>3. \A n, t : Asked(n, t)
  BY <1>2 DEF Asked
<1>4. ASSUME NEW n \in seen, NEW t \in 1..4, <<n, QueryTypes[t]>> \notin Unanswered
      PROVE  Found(d, n, t)
  <2> DEFINE w == <<"query", n, QueryTypes[t]>>
  <2>1. w \in warnings \/ Found(d, n, t)
    BY <1>1, <1>3, FourTypes DEF WalkOK, FoundOK
  <2>2. w[1] = "query" /\ w[2] = n /\ w[3] = QueryTypes[t]
    OBVIOUS
  <2> HIDE DEF w
  <2>3. w \notin warnings
    BY <1>4, <2>2 DEF Unanswered
  <2> QED BY <2>1, <2>3
<1> QED BY <1>1, <1>2, <1>4 DEF WalkOK

\* A name that answers has one query at least that was not given up.
LEMMA AnswersShape ==
    ASSUME NEW n, Answers(n)
    PROVE  \E t \in 1..4 : <<n, QueryTypes[t]>> \notin Unanswered
BY FourTypes DEF Answers

\* The walk has been wherever MaxDepth CNAMEs lead.
LEMMA ReachedOK ==
    ASSUME zone \in Zones, NEW d, DepthsOK(d), seen \subseteq Names,
           \A n \in seen, t \in 1..4 : <<n, QueryTypes[t]>> \notin Unanswered => Found(d, n, t)
    PROVE  Reached[MaxDepth] \subseteq seen
<1> DEFINE Hops(S) == {zone[n].data : n \in {m \in S :
                            zone[m].type = "CNAME" /\ zone[m].data \in Names /\ Answers(m)}}
           Solves(f) == f = [k \in 0..MaxDepth |-> IF k = 0 THEN Members(Labels)
                                                   ELSE f[k-1] \cup Hops(f[k-1])]
           step == [k \in 1..MaxDepth |-> [S \in SUBSET Names |-> S \cup Hops(S)]]
           Within(k) == {n \in seen : d[n] <= k}
<1>0. MaxDepth \in Nat /\ Members(Labels) \in SUBSET Names
  BY ScrapeAssumption, StartOK
<1>1. Reached = CHOOSE f : Solves(f)
  BY Zenon DEF Reached
<1>2. \A S \in SUBSET Names : S \cup Hops(S) \in SUBSET Names
  OBVIOUS
<1> HIDE DEF Hops
<1>3. step \in [1..MaxDepth -> [SUBSET Names -> SUBSET Names]]
  BY <1>2
<1>4. \E f : Solves(f)
  <2>1. PICK f : Iteration(f, MaxDepth, SUBSET Names, Members(Labels), step)
    BY <1>0, <1>3, Iterates
  <2>2. f \in [0..MaxDepth -> SUBSET Names]
    BY <2>1 DEF Iteration
  <2>3. ASSUME NEW k \in 0..MaxDepth
        PROVE  f[k] = IF k = 0 THEN Members(Labels) ELSE f[k-1] \cup Hops(f[k-1])
    <3>1. CASE k = 0
      BY <2>1, <3>1 DEF Iteration
    <3>2. CASE k # 0
      <4>1. k \in 1..MaxDepth /\ k - 1 \in 0..MaxDepth
        BY <1>0, <3>2
      <4>2. f[k-1] \in SUBSET Names /\ f[k] = step[k][f[k-1]]
        BY <2>1, <2>2, <4>1 DEF Iteration
      <4> QED BY <3>2, <4>1, <4>2
    <3> QED BY <3>1, <3>2
  <2>4. f = [k \in 0..MaxDepth |-> f[k]]
    BY <2>2
  <2>5. [k \in 0..MaxDepth |-> f[k]] =
            [k \in 0..MaxDepth |-> IF k = 0 THEN Members(Labels) ELSE f[k-1] \cup Hops(f[k-1])]
    BY <2>3
  <2>6. Solves(f)
    BY <2>4, <2>5, Zenon
  <2> HIDE DEF Solves
  <2> QED BY <2>6
<1>5. Solves(Reached)
  <2> HIDE DEF Solves
  <2> QED BY <1>1, <1>4, Zenon
<1>6. /\ Reached[0] = Members(Labels)
      /\ \A k \in 1..MaxDepth : Reached[k] = Reached[k-1] \cup Hops(Reached[k-1])
  <2>1. PICK R : R = Reached
    OBVIOUS
  <2>2. R = [k \in 0..MaxDepth |-> IF k = 0 THEN Members(Labels) ELSE R[k-1] \cup Hops(R[k-1])]
    BY <1>5, <2>1
  <2>3. R[0] = Members(Labels)
    BY <1>0, <2>2
  <2>4. ASSUME NEW k \in 1..MaxDepth PROVE R[k] = R[k-1] \cup Hops(R[k-1])
    <3>1. k \in 0..MaxDepth /\ k # 0
      BY <1>0
    <3>2. R[k] = IF k = 0 THEN Members(Labels) ELSE R[k-1] \cup Hops(R[k-1])
      BY <2>2, <3>1, Zenon
    <3> QED BY <3>1, <3>2
  <2> QED BY <2>1, <2>3, <2>4
<1> DEFINE T == {k \in 0..MaxDepth : Reached[k] \subseteq Within(k)}
<1>7. 0 \in T
  BY <1>0, <1>6 DEF DepthsOK
<1>8. ASSUME NEW k \in 1..MaxDepth, k - 1 \in T PROVE k \in T
  <2>1. Reached[k-1] \subseteq Within(k-1) /\ k \in 0..MaxDepth
    BY <1>8
  <2>2. \A n \in seen : d[n] \in 0..MaxDepth
    BY DEF DepthsOK
  <2>3. Reached[k-1] \subseteq Within(k)
    BY <2>1, <2>2
  <2>4. ASSUME NEW n \in Reached[k-1], zone[n].type = "CNAME", zone[n].data \in Names, Answers(n)
        PROVE  zone[n].data \in Within(k)
    <3>1. n \in seen /\ d[n] <= k - 1 /\ d[n] \in 0..MaxDepth
      BY <2>1, <2>2
    <3>2. PICK t \in 1..4 : Found(d, n, t)
      BY <2>4, <3>1, AnswersShape
    <3>3. d[n] < MaxDepth
      BY <1>0, <3>1
    <3>4. zone[n].data \in seen /\ d[zone[n].data] <= d[n] + 1
      BY <2>4, <3>2, <3>3 DEF Found
    <3> QED BY <2>2, <3>1, <3>4
  <2>5. Hops(Reached[k-1]) \subseteq Within(k)
    BY <2>4 DEF Hops
  <2>6. Reached[k] \subseteq Within(k)
    BY <1>6, <2>3, <2>5
  <2> QED BY <2>1, <2>6
<1> HIDE DEF T
<1>9. \A k \in 0..MaxDepth : k \in T
  BY <1>0, <1>7, <1>8, UpTo
<1>10. MaxDepth \in T
  BY <1>0, <1>9
<1> QED BY <1>10 DEF T

\* A record of a name stands for all that dedupRecords takes for the same.
LEMMA NamedReported ==
    ASSUME zone \in Zones, records \in Seq(ZoneRecords), NEW n \in Named(records)
    PROVE  Reported(n)
<1>1. PICK rec \in Members(records) : rec.name = n
  BY NamedOf
<1>2. rec \in RRs(n)
  BY <1>1, MembersOf, ZoneShape
<1>3. \A rr \in RRs(n) : DedupKey(rec) = DedupKey(rr)
  BY <1>2, ZoneShape DEF DedupKey
<1> QED BY <1>1, <1>3 DEF Reported

LEMMA IInvNothingLost ==
    ASSUME IInv PROVE NothingLost
<1>0. zone \in Zones /\ records \in Seq(ZoneRecords)
  BY DEF IInv, ShapeOK
<1>1. NoSilentLoss
  <2> SUFFICES ASSUME pc = "scraped", source = "iterated", NEW n \in Reached[MaxDepth]
               PROVE  /\ zone[n].type = "CNAME" /\ Answers(n) => Reported(n)
                      /\ /\ zone[n].type \in Members(QueryTypes) /\ <<n, zone[n].type>> \notin Unanswered
                         /\ \A rr \in RRs(n) : ~MayBeMissing(rr)
                         => Reported(n)
    BY Zenon DEF NoSilentLoss, Scraped
  <2>1. PICK d :
          /\ DepthsOK(d) /\ seen \subseteq Names
          /\ \A m \in seen, t \in 1..4 : <<m, QueryTypes[t]>> \notin Unanswered => Found(d, m, t)
    BY AllAsked
  <2>2. n \in seen
    BY <1>0, <2>1, ReachedOK
  <2>3. ASSUME zone[n].type = "CNAME", Answers(n) PROVE Reported(n)
    <3>1. PICK t \in 1..4 : Found(d, n, t)
      BY <2>1, <2>2, <2>3, AnswersShape
    <3>2. n \in Named(records)
      BY <2>3, <3>1 DEF Found, Owed
    <3> QED BY <1>0, <3>2, NamedReported
  <2>4. ASSUME zone[n].type \in Members(QueryTypes), <<n, zone[n].type>> \notin Unanswered,
               \A rr \in RRs(n) : ~MayBeMissing(rr)
        PROVE  Reported(n)
    <3>1. PICK t \in 1..4 : QueryTypes[t] = zone[n].type
      BY <2>4, FourTypes
    <3>2. Found(d, n, t)
      BY <2>1, <2>2, <2>4, <3>1
    <3>3. n \in Named(records)
      BY <2>4, <3>1, <3>2 DEF Found, Owed
    <3> QED BY <1>0, <3>3, NamedReported
  <2> QED BY <2>3, <2>4
<1>2. TransferComplete
  <2> SUFFICES ASSUME pc = "scraped", source = "axfr", NEW n \in Names
               PROVE  \/ zone[n].type = "none"
                      \/ RRs(n) \subseteq Members(records)
                      \/ <<"skipped", n>> \in warnings
    BY Zenon DEF TransferComplete, Scraped
  <2>1. Members(records) = ZoneRecords /\ Skipped(ZoneRRs) \subseteq warnings
    BY DEF IInv, TransferOK
  <2>2. /\ RRs(n) # {} /\ RRs(n) \subseteq ZoneRRs
        /\ \A rr \in RRs(n) : rr.name = n /\ rr.type = zone[n].type
    BY <1>0, ZoneShape DEF ZoneRRs
  <2>3. CASE zone[n].type = "DS"
    BY <2>1, <2>2, <2>3 DEF Skipped
  <2>4. CASE zone[n].type \notin {"none", "DS"}
    BY <2>1, <2>2, <2>4 DEF ZoneRecords, Kept
  <2> QED BY <2>3, <2>4
<1> QED BY <1>1, <1>2 DEF NothingLost

LEMMA ThroughBINDShape ==
    ASSUME zone \in Zones, records \in Seq(ZoneRecords)
    PROVE  /\ Members(ThroughBIND(records)) \subseteq RecordOf
           /\ Len(ThroughBIND(records)) = Len(records)
           /\ \A k \in 1..Len(records) : Plain(records[k]) => ThroughBIND(records)[k] = records[k]
<1>1. Len(records) \in Nat /\ \A k \in 1..Len(records) : records[k] \in RecordOf
  BY ZoneShape
<1>2. Len(ThroughBIND(records)) = Len(records)
  BY <1>1 DEF ThroughBIND
<1>3. ASSUME NEW rec \in RecordOf
      PROVE  BINDLine(rec) \in RecordOf /\ (Plain(rec) => BINDLine(rec) = rec)
  <2> DEFINE name == IF rec.name \in Odd THEN "mangled" ELSE rec.name
             data == IF rec.data = "escaped" THEN "escaped twice" ELSE rec.data
             ttl == IF rec.ttl = 0 THEN 300 ELSE rec.ttl
             line == [name |-> name, type |-> rec.type, data |-> data, port |-> rec.port, ttl |-> ttl]
  <2>1. BINDLine(rec) = line
    BY DEF BINDLine
  <2>2. /\ rec = [name |-> rec.name, type |-> rec.type, data |-> rec.data,
                 port |-> rec.port, ttl |-> rec.ttl]
        /\ rec.name \in Names \cup {"mangled"} /\ rec.type \in Types \ {"none", "DS"}
        /\ rec.data \in Targets \cup Texts \cup {"escaped twice"}
        /\ rec.port \in Ports /\ rec.ttl \in {0, 300}
    BY DEF RecordOf
  <2>3. /\ name \in Names \cup {"mangled"} /\ ttl \in {0, 300}
        /\ data \in Targets \cup Texts \cup {"escaped twice"}
    BY <2>2
  <2>4. Plain(rec) => name = rec.name /\ data = rec.data /\ ttl = rec.ttl
    BY DEF Plain
  <2> HIDE DEF name, data, ttl
  <2>6. line \in RecordOf
    BY <2>2, <2>3 DEF RecordOf
  <2>7. Plain(rec) => line = rec
    BY <2>2, <2>4
  <2> QED BY <2>1, <2>6, <2>7
<1>4. \A k \in 1..Len(records) : ThroughBIND(records)[k] = BINDLine(records[k])
  BY DEF ThroughBIND
<1>5. Members(ThroughBIND(records)) \subseteq RecordOf
  BY <1>1, <1>2, <1>3, <1>4 DEF Members
<1> QED BY <1>1, <1>2, <1>3, <1>4, <1>5

LEMMA IInvScrapeSafe ==
    ASSUME IInv PROVE ScrapeSafe
<1>0. zone \in Zones /\ records \in Seq(ZoneRecords)
  BY DEF IInv, ShapeOK
<1>1. Members(records) \subseteq ZoneRecords /\ ZoneRecords \subseteq RecordOf
  BY <1>0, ZoneShape, MembersOf
<1>2. Sound
  <2>1. ASSUME pc = "scraped" PROVE Cardinality(Members(records)) = Len(records)
    BY <1>0, <2>1, DistinctCount DEF IInv, DistinctOK
  <2>2. Members(records) \subseteq {rec \in ZoneRRs : Kept(rec)}
    BY <1>1 DEF ZoneRecords
  <2> QED BY <2>1, <2>2, Zenon DEF Sound, Scraped
<1>3. TypeOK
  <2>1. /\ \A k \in 1..Len(queue) : queue[k] \in Items
        /\ {queue[k].name : k \in 1..Len(queue)} \subseteq seen
    <3>1. queue \in Seq(Items)
      BY DEF IInv, ShapeOK
    <3>2. CASE queue = <<>>
      BY <3>2
    <3>3. CASE queue # <<>>
      <4>1. PICK d : DepthsOK(d)
        BY <3>3 DEF IInv, PlaceOK, Walking, WalkOK
      <4> QED BY <3>1, <4>1 DEF DepthsOK
    <3> QED BY <3>1, <3>2, <3>3
  <2>2. Members(file) \subseteq RecordOf
    <3>1. file \in {<<>>, records, ThroughBIND(records)}
      BY DEF IInv, ShapeOK, PlaceOK
    <3>2. Members(<<>>) = {}
      BY DEF Members
    <3> QED BY <1>0, <1>1, <3>1, <3>2, ThroughBINDShape
  <2>3. Members(records) \subseteq RecordOf
    BY <1>1
  <2> QED BY <2>1, <2>2, <2>3 DEF IInv, ShapeOK, PlaceOK, TypeOK, Items
<1> QED BY <1>2, <1>3 DEF ScrapeSafe

LEMMA IInvRoundTrip ==
    ASSUME IInv PROVE RoundTrip
<1>1. zone \in Zones /\ records \in Seq(ZoneRecords)
  BY DEF IInv, ShapeOK
<1>2. /\ pc = "imported" => file \in {ThroughBIND(records), records}
      /\ pc = "unreadable" => \E k \in 1..Len(records) : Unparsable(records[k])
  BY DEF IInv, PlaceOK
<1> QED BY <1>1, <1>2, ThroughBINDShape DEF RoundTrip, Unparsable

\* Types, a queue without strays, and true records: what ScrapeZone returns are
\* records of the zone, of types it keeps, each of them once, whatever the
\* servers add to their answers (iteratedScrape, axfrTransfer, dedupRecords).
THEOREM RecordsAreTrue == Spec => []ScrapeSafe
BY Invariance, IInvScrapeSafe, PTL

\* What is within reach of the labels and fits into a reply is in the report, up
\* to weights and ports, or a warning tells of the query that was given up; a
\* transfer is the whole zone (iteratedScrape's queue and depth, dedupRecords,
\* axfrTransfer's check of both SOAs).
THEOREM NothingIsLost == Spec => []NothingLost
BY Invariance, IInvNothingLost, PTL

\* A zone that is exported and imported has the records that were scraped, each as
\* it was if the BIND format keeps it: names spelled like the domain, text without
\* quotes, a TTL; only an empty target makes the import fail (renderBIND,
\* ImportBIND, parseZoneJSON).
THEOREM FilesAreFaithful == Spec => []RoundTrip
BY Invariance, IInvRoundTrip, PTL

=============================================================================
