------------------------ MODULE TemplateProcessProofs ------------------------
(***************************************************************************)
(* Proofs about TemplateProcess for every template, zone, sequence of calls *)
(* and set of redirect records: zones stay well formed, a template's        *)
(* records are installed, what no record of it may delete is spared, and a  *)
(* service that is applied again is replaced.  The second half writes the   *)
(* result of a call as a function of the zone and shows that the loop       *)
(* computes it and that applying it twice is applying it once.              *)
(***************************************************************************)
EXTENDS TemplateProcess, SequenceTheorems, WellFoundedInduction, TLAPS

-----------------------------------------------------------------------------
(* The inductive invariant.                                                 *)

ResolvedEntry ==
    [type : Texts, name : Seq(Texts), content : Seq(Texts), ttl : Int, mode : Texts,
     prefix : Seq(Texts), essential : Texts, backing : BOOLEAN]

\* Entry k comes after the redirect that it serves.
Backs(es, k) ==
    /\ es[k].type \in Addresses
    /\ \E j \in 1..(k-1) :
          ~es[j].backing /\ es[j].type \in Redirects /\ es[j].name = es[k].name

\* What resolving makes.
ResolvedOK(es) ==
    /\ es \in Seq(ResolvedEntry)
    /\ \A k \in 1..Len(es) : es[k].backing => Backs(es, k)
    /\ \A k \in 1..Len(es) : ~es[k].backing /\ es[k].type = "APEXCNAME" => es[k].name = <<>>

\* An alias and what may not be beside it.
Opposed(r, s) ==
    /\ r.name = s.name
    /\ \/ r.type = "CNAME" /\ s.type \in Addresses \cup {"CNAME"}
       \/ s.type = "CNAME" /\ r.type \in Addresses \cup {"CNAME"}

\* A record that entry e adds.
Made(a, e) ==
    /\ a \in Records /\ a.dc = Free /\ a.name = e.name
    /\ IF e.type = "SPFM" THEN Serves(a, e) ELSE a = Record(e)

\* Entry e leaves no such record of the zone at its name.
Sweeps(e, r) ==
    /\ r.name = e.name
    /\ \/ e.type \in Redirects /\ r.type \in Addresses \cup {"CNAME"}
       \/ e.type \in {"CNAME", "APEXCNAME"} /\ r.type # "NS"

\* Entry e may find its record in the working copy.
MayFind(e) == e.type \in {"TXT", "SPFM"} \/ e.type \notin Core

Good(e) ==
    \/ \E a \in toAdd : Serves(a, e)
    \/ MayFind(e) /\ \E r \in work : Serves(r, e)

\* A record of the zone that is not to be deleted.
Stays(r) == r \in zone /\ Key(r) \notin Keys(toDelete)

\* The call that is under way.
CallOK ==
    /\ req \in Calls
    /\ checkInternalConflicts(resolved)
    /\ work \subseteq Records
    /\ toDelete \subseteq Records
    /\ essentialAlways = Candidates(req)
    /\ OwnedRecords(req) \subseteq toDelete

\* The working copy is what stays of the zone, and what was added.
WorkOK ==
    /\ \A r \in zone : Stays(r) => r \in work
    /\ \A r \in work : r \in toAdd \/ (r \in zone /\ (NoTwins(zone) => Stays(r)))

\* Only what the template asks for is added, and only what it may delete or the
\* caller owns is deleted.
ListsOK ==
    /\ \A a \in toAdd : \E k \in 1..Len(resolved) : Made(a, resolved[k])
    /\ \A d \in toDelete : \/ d \in zone /\ Owned(req, d)
                           \/ \E k \in 1..Len(resolved) : MayDelete(resolved[k], d)

\* Nothing that stays is opposed or equal to what is added; nor will it be to the
\* records behind a redirect, or is left at the name of an alias.
ApartOK ==
    /\ \A a \in toAdd, r \in zone : Stays(r) => ~Opposed(a, r)
    /\ \A k \in 1..(next-1), r \in zone : Stays(r) => ~Sweeps(resolved[k], r)
    /\ \A a \in toAdd, r \in zone :
          Key(a) = Key(r) /\ Stays(r) => IsSPF(r) /\ TwoSPF(zone, r.name)

GoodOK == NoTwins(zone) /\ ~Overlap => \A k \in 1..(next-1) : Good(resolved[k])

RunOK == CallOK /\ WorkOK /\ ListsOK /\ ApartOK /\ GoodOK

\* The zone between the calls and during one.
ZoneOK ==
    /\ zone \subseteq Records
    /\ before.zone \subseteq Records
    /\ \A r, s \in zone :
          Aliasing(r, s) => /\ r.dc # Free /\ s.dc # Free
                            /\ r.dc.provider = s.dc.provider /\ r.dc.service # s.dc.service
    /\ \A r, s \in zone :
          Key(r) = Key(s) => r = s \/ (IsSPF(r) /\ TwoSPF(before.zone, r.name))

IInv ==
    /\ ZoneOK
    /\ plan \in Seq(Calls)
    /\ pc \in {"idle", "run"}
    /\ ResolvedOK(resolved)
    /\ next \in 1..(Len(resolved) + 1)
    /\ pc = "run" => RunOK
    /\ pc = "idle" => work = {} /\ toAdd = {} /\ toDelete = {} /\ essentialAlways = {}
    /\ Installed
    /\ Spared
    /\ ServiceReplaced
    /\ AliasReplaces

-----------------------------------------------------------------------------
(* Recursive functions.                                                     *)

\* Every set of naturals that has an element has a least one.
LEMMA LeastElement ==
    ASSUME NEW T, T \subseteq Nat, T # {}
    PROVE  \E x \in T : \A y \in T : x <= y
<1> DEFINE R == OpToRel(<, Nat)
<1>1. IsWellFoundedOn(R, Nat)
  BY NatLessThanWellFounded
<1> HIDE DEF R
<1>2. PICK x \in T : \A y \in T : ~(<<y, x>> \in R)
  BY <1>1, WFMin
<1>3. \A y \in T : y < x => <<y, x>> \in R
  BY DEF R, OpToRel
<1>4. \A y \in T : ~(y < x)
  BY <1>2, <1>3
<1> QED
  BY <1>4

\* What holds of 0 and is passed on up to m holds up to m.
LEMMA UpTo ==
    ASSUME NEW m \in Nat, NEW T, 0 \in T, \A k \in 1..m : k - 1 \in T => k \in T
    PROVE  \A k \in 0..m : k \in T
<1> DEFINE Bad == {k \in 0..m : k \notin T}
<1> SUFFICES ASSUME Bad # {} PROVE FALSE
  OBVIOUS
<1>1. Bad \subseteq Nat
  OBVIOUS
<1>2. PICK k \in Bad : \A j \in Bad : k <= j
  BY <1>1, LeastElement, Zenon
<1>3. k \in 1..m
  BY <1>2
<1>4. k - 1 \notin Bad /\ k - 1 \in 0..m
  BY <1>2, <1>3
<1> QED BY <1>2, <1>3, <1>4

\* A value and m steps from one value to the next make a function.
Iteration(f, m, S, init, step) ==
    f \in [0..m -> S] /\ f[0] = init /\ \A k \in 1..m : f[k] = step[k][f[k-1]]

LEMMA Iterates ==
    ASSUME NEW m \in Nat, NEW S, NEW init \in S, NEW step \in [1..m -> [S -> S]]
    PROVE  \E f : Iteration(f, m, S, init, step)
<1> DEFINE Solves(f, n) == Iteration(f, n, S, init, step)
           T == {n \in 0..m : \E f : Solves(f, n)}
<1>1. 0 \in T
  <2> DEFINE g == [k \in 0..0 |-> init]
  <2>1. g \in [0..0 -> S] /\ g[0] = init /\ 1..0 = {}
    OBVIOUS
  <2>2. Solves(g, 0)
    BY <2>1 DEF Iteration
  <2> HIDE DEF Solves
  <2> QED BY <2>2
<1>2. ASSUME NEW n \in 1..m, n - 1 \in T PROVE n \in T
  <2>0. PICK f : Solves(f, n - 1)
    BY <1>2
  <2>1. /\ f \in [0..(n-1) -> S] /\ f[0] = init
        /\ \A k \in 1..(n-1) : f[k] = step[k][f[k-1]]
    BY <2>0 DEF Iteration
  <2> DEFINE g == [k \in 0..n |-> IF k < n THEN f[k] ELSE step[n][f[n-1]]]
  <2>2. n - 1 \in 0..(n-1) /\ f[n-1] \in S /\ step[n] \in [S -> S]
    BY <2>1
  <2>3. \A k \in 0..(n-1) : g[k] = f[k] /\ f[k] \in S
    BY <2>1
  <2>4. g[n] = step[n][f[n-1]] /\ step[n][f[n-1]] \in S
    BY <2>2
  <2>5. \A k \in 0..n : k \in 0..(n-1) \/ k = n
    OBVIOUS
  <2>6. g \in [0..n -> S]
    <3>1. \A k \in 0..n : (IF k < n THEN f[k] ELSE step[n][f[n-1]]) \in S
      BY <2>3, <2>4, <2>5
    <3> QED BY <3>1
  <2> HIDE DEF g
  <2>7. ASSUME NEW k \in 1..n PROVE g[k] = step[k][g[k-1]]
    <3>1. k - 1 \in 0..(n-1) /\ g[k-1] = f[k-1]
      BY <2>3
    <3>2. CASE k = n
      BY <2>4, <3>1, <3>2
    <3>3. CASE k # n
      <4>1. k \in 0..(n-1) /\ k \in 1..(n-1)
        BY <3>3
      <4> QED BY <2>1, <2>3, <3>1, <4>1
    <3> QED BY <3>2, <3>3
  <2>8. Solves(g, n)
    BY <2>1, <2>3, <2>6, <2>7 DEF Iteration
  <2> QED BY <2>8
<1> HIDE DEF T
<1>3. \A k \in 1..m : k - 1 \in T => k \in T
  BY <1>2
<1>4. \A k \in 0..m : k \in T
  BY <1>1, <1>3, UpTo
<1>5. m \in T
  BY <1>4
<1> QED BY <1>5 DEF T

-----------------------------------------------------------------------------
(* Resolving.                                                               *)

LEMMA BackingOK == Backing \in Seq([type : Addresses, content : Seq(Texts), ttl : Int])
BY TemplateAssumption, Zenon

LEMMA TextsOK ==
    /\ Core \subseteq Texts /\ Addresses \subseteq Texts
    /\ {"", "fqdn", "Always", "v=spf1", "-all", "~all", "?all"} \subseteq Texts
<1>1. Core \cup {"", "fqdn", "Always", "v=spf1", "-all", "~all", "?all"} \subseteq Texts
  BY TemplateAssumption, Zenon
<1> QED BY <1>1 DEF Core

LEMMA ConcatShape ==
    ASSUME NEW V, NEW s \in Seq(V), NEW t \in Seq(V)
    PROVE  /\ s \o t \in Seq(V) /\ Len(s \o t) = Len(s) + Len(t)
           /\ \A k \in 1..Len(s) : (s \o t)[k] = s[k]
           /\ \A k \in 1..Len(t) : (s \o t)[Len(s) + k] = t[k]
           /\ \A k \in 1..Len(s \o t) : k \in 1..Len(s) \/ k - Len(s) \in 1..Len(t)
BY ConcatProperties

\* FlattenSeq joins the sequences from left to right.
LEMMA Flattening ==
    ASSUME NEW V, NEW s \in Seq(Seq(V)), Len(s) # 0
    PROVE  \E f : /\ FlattenSeq(s) = f[Len(s)]
                  /\ f[1] = s[1]
                  /\ \A k \in 2..Len(s) : f[k] = f[k-1] \o s[k]
<1> DEFINE m == Len(s) - 1
           join == [k \in 1..m |-> [x \in Seq(V) |-> x \o s[k+1]]]
           Solves(g) == g = [i \in 1..Len(s) |-> IF i = 1 THEN s[i] ELSE g[i-1] \o s[i]]
           out == CHOOSE g : Solves(g)
<1>0. Len(s) \in Nat /\ m \in Nat /\ \A k \in 1..Len(s) : s[k] \in Seq(V)
  OBVIOUS
<1>1. \E g : Solves(g)
  <2>1. join \in [1..m -> [Seq(V) -> Seq(V)]]
    <3>1. \A k \in 1..m : k + 1 \in 1..Len(s)
      BY <1>0
    <3>2. \A k \in 1..m, x \in Seq(V) : x \o s[k+1] \in Seq(V)
      BY <1>0, <3>1, ConcatShape
    <3> HIDE DEF m
    <3> QED BY <3>2
  <2>2. s[1] \in Seq(V)
    BY <1>0
  <2> HIDE DEF m, join
  <2>3. PICK h : Iteration(h, m, Seq(V), s[1], join)
    BY <1>0, <2>1, <2>2, Iterates
  <2> DEFINE g == [i \in 1..Len(s) |-> h[i-1]]
  <2>4. /\ h \in [0..m -> Seq(V)] /\ h[0] = s[1]
        /\ \A k \in 1..m : h[k] = join[k][h[k-1]]
    BY <2>3 DEF Iteration
  <2>5. ASSUME NEW i \in 1..Len(s)
        PROVE  h[i-1] = IF i = 1 THEN s[i] ELSE g[i-1] \o s[i]
    <3>1. CASE i = 1
      BY <2>4, <3>1
    <3>2. CASE i # 1
      <4>1. i - 1 \in 1..m /\ (i - 1) - 1 \in 0..m /\ i - 1 \in 1..Len(s) /\ (i - 1) + 1 = i
        BY <1>0, <3>2 DEF m
      <4>2. h[i-1] = join[i-1][h[(i-1)-1]] /\ h[(i-1)-1] \in Seq(V)
        BY <2>4, <4>1
      <4>3. join[i-1][h[(i-1)-1]] = h[(i-1)-1] \o s[i]
        BY <4>1, <4>2 DEF join
      <4>4. g[i-1] = h[(i-1)-1]
        BY <4>1
      <4> QED BY <3>2, <4>2, <4>3, <4>4
    <3> QED BY <3>1, <3>2
  <2>6. g = [i \in 1..Len(s) |-> IF i = 1 THEN s[i] ELSE g[i-1] \o s[i]]
    <3> DEFINE G(i) == IF i = 1 THEN s[i] ELSE g[i-1] \o s[i]
    <3>1. \A i \in 1..Len(s) : h[i-1] = G(i)
      BY <2>5, Zenon
    <3> HIDE DEF G
    <3>2. [i \in 1..Len(s) |-> h[i-1]] = [i \in 1..Len(s) |-> G(i)]
      BY <3>1
    <3> QED BY <3>2, Zenon DEF G
  <2> HIDE DEF g
  <2>7. Solves(g)
    BY <2>6, Zenon
  <2> QED BY <2>7
<1>2. Solves(out)
  BY <1>1, Zenon
<1>3. FlattenSeq(s) = out[Len(s)]
  BY Zenon DEF FlattenSeq
<1> HIDE DEF out
<1>4. \A i \in 1..Len(s) : out[i] = IF i = 1 THEN s[i] ELSE out[i-1] \o s[i]
  BY <1>2
<1>5. out[1] = s[1] /\ \A k \in 2..Len(s) : out[k] = out[k-1] \o s[k]
  <2>1. \A i \in 1..Len(s) : i # 1 => out[i] = out[i-1] \o s[i]
    BY <1>4
  <2>2. \A k \in 2..Len(s) : k \in 1..Len(s) /\ k # 1
    BY <1>0
  <2>3. 1 \in 1..Len(s)
    BY <1>0
  <2>4. out[1] = s[1]
    BY <1>4, <2>3
  <2> HIDE <1>4
  <2> QED BY <2>1, <2>2, <2>4, Zenon
<1> QED BY <1>3, <1>5

LEMMA JoinedOK ==
    ASSUME NEW s, NEW t, ResolvedOK(s), ResolvedOK(t)
    PROVE  ResolvedOK(s \o t)
<1> DEFINE u == s \o t
<1>1. s \in Seq(ResolvedEntry) /\ t \in Seq(ResolvedEntry) /\ Len(s) \in Nat /\ Len(t) \in Nat
  BY DEF ResolvedOK
<1>2. /\ u \in Seq(ResolvedEntry) /\ Len(u) = Len(s) + Len(t)
      /\ \A k \in 1..Len(s) : u[k] = s[k]
      /\ \A k \in 1..Len(t) : u[Len(s) + k] = t[k]
      /\ \A k \in 1..Len(u) : k \in 1..Len(s) \/ k - Len(s) \in 1..Len(t)
  BY <1>1, ConcatShape
<1> HIDE DEF u
<1>3. ASSUME NEW k \in 1..Len(u)
      PROVE  /\ u[k].backing => Backs(u, k)
             /\ ~u[k].backing /\ u[k].type = "APEXCNAME" => u[k].name = <<>>
  <2>1. CASE k \in 1..Len(s)
    <3>1. u[k] = s[k] /\ (s[k].backing => Backs(s, k))
          /\ (~s[k].backing /\ s[k].type = "APEXCNAME" => s[k].name = <<>>)
      BY <1>2, <2>1 DEF ResolvedOK
    <3>2. \A j \in 1..(k-1) : j \in 1..Len(s) /\ u[j] = s[j]
      BY <1>1, <1>2, <2>1
    <3> QED BY <3>1, <3>2 DEF Backs
  <2>2. CASE k - Len(s) \in 1..Len(t)
    <3> DEFINE l == k - Len(s)
    <3>1. u[k] = t[l] /\ (t[l].backing => Backs(t, l))
          /\ (~t[l].backing /\ t[l].type = "APEXCNAME" => t[l].name = <<>>)
      <4>1. Len(s) + l = k
        BY <1>1
      <4> QED BY <1>2, <2>2, <4>1 DEF ResolvedOK
    <3>2. ASSUME NEW j \in 1..(l-1)
          PROVE  Len(s) + j \in 1..(k-1) /\ u[Len(s) + j] = t[j]
      BY <1>1, <1>2, <2>2
    <3> HIDE DEF l
    <3> QED BY <3>1, <3>2 DEF Backs
  <2> QED BY <1>2, <2>1, <2>2
<1> QED BY <1>2, <1>3 DEF ResolvedOK, u

\* One template record that is not rejected.
LEMMA EntriesOK ==
    ASSUME NEW t \in TemplateRecords, NEW host \in Seq(Texts), ~Rejected(t, host)
    PROVE  ResolvedOK(Entries(t, host))
<1> DEFINE name == resolveHostName(t, host)
           ttl == IF t.type \in Redirects THEN 0 ELSE t.ttl
           entry == [type |-> t.type, name |-> name, content |-> resolvePointsTo(t, host),
                     ttl |-> ttl, mode |-> t.mode, prefix |-> t.prefix,
                     essential |-> t.essential, backing |-> FALSE]
           back(i) == [entry EXCEPT !.type = Backing[i].type, !.mode = "",
                                    !.content = Backing[i].content, !.ttl = Backing[i].ttl,
                                    !.essential = "", !.backing = TRUE]
           backs == [i \in DOMAIN Backing |-> back(i)]
<1>1. name \in Seq(Texts)
  <2>1. t.form \in {"at", "relative", "fqdn", "outside"} /\ t.labels \in Seq(Texts)
    BY DEF TemplateRecords
  <2>2. host \o t.labels \in Seq(Texts)
    BY <2>1, ConcatShape
  <2> QED BY <2>1, <2>2 DEF resolveHostName
<1>2. resolvePointsTo(t, host) \in Seq(Texts)
  <2>1. t.content \in Seq(Texts) /\ <<"fqdn">> \in Seq(Texts)
    <3>1. t.content \in Seq(Texts)
      BY DEF TemplateRecords
    <3>2. "fqdn" \in Texts
      BY TextsOK
    <3> QED BY <3>1, <3>2
  <2>2. <<"fqdn">> \o host \in Seq(Texts)
    BY <2>1, ConcatShape
  <2> QED BY <2>1, <2>2 DEF resolvePointsTo
<1>3. ttl \in Int
  BY DEF TemplateRecords
<1>4. t.type = "APEXCNAME" => name = <<>>
  BY DEF Rejected
<1>5. Entries(t, host) = <<entry>> \o (IF t.type \in Redirects THEN backs ELSE <<>>)
  BY Zenon DEF Entries
<1> HIDE DEF name, ttl
<1>6. entry \in ResolvedEntry /\ ~entry.backing /\ entry.type = t.type /\ entry.name = name
  BY <1>1, <1>2, <1>3 DEF ResolvedEntry, TemplateRecords
<1>7. <<entry>> \in Seq(ResolvedEntry) /\ Len(<<entry>>) = 1 /\ <<entry>>[1] = entry
  BY <1>6
<1>8. ResolvedOK(<<entry>>)
  <2> HIDE DEF entry
  <2>1. \A k \in 1..1 : k = 1
    OBVIOUS
  <2> QED BY <1>4, <1>6, <1>7, <2>1 DEF ResolvedOK
<1>9. ASSUME NEW i \in 1..Len(Backing)
      PROVE  /\ back(i) \in ResolvedEntry /\ back(i).backing
             /\ back(i).type \in Addresses /\ back(i).name = name
  <2>1. Backing[i] \in [type : Addresses, content : Seq(Texts), ttl : Int]
    <3>1. Backing \in Seq([type : Addresses, content : Seq(Texts), ttl : Int])
      BY BackingOK
    <3> QED BY <3>1, ElementOfSeq, Zenon
  <2>2. Addresses \subseteq Texts
    BY TextsOK
  <2>3. "" \in Texts
    BY TextsOK
  <2> QED BY <1>6, <2>1, <2>2, <2>3 DEF ResolvedEntry
<1> HIDE DEF entry, back
<1>10. /\ backs \in Seq(ResolvedEntry) /\ Len(backs) = Len(Backing)
       /\ \A i \in 1..Len(backs) : backs[i] = back(i)
  <2>1. DOMAIN Backing = 1..Len(Backing) /\ Len(Backing) \in Nat
    BY BackingOK
  <2>2. backs \in [1..Len(Backing) -> ResolvedEntry]
    BY <1>9, <2>1
  <2>3. backs \in Seq(ResolvedEntry) /\ Len(backs) = Len(Backing)
    BY <2>1, <2>2
  <2> QED BY <2>1, <2>3
<1> HIDE DEF backs
<1>11. CASE t.type \in Redirects
  <2> DEFINE all == <<entry>> \o backs
  <2>1. /\ all \in Seq(ResolvedEntry) /\ Len(all) = 1 + Len(backs)
        /\ all[1] = entry
        /\ \A k \in 1..Len(backs) : all[1 + k] = back(k)
        /\ \A k \in 1..Len(all) : k = 1 \/ k - 1 \in 1..Len(backs)
    BY <1>7, <1>10, ConcatShape
  <2>2. Entries(t, host) = all
    BY <1>5, <1>11
  <2> HIDE DEF all
  <2>3. ASSUME NEW k \in 1..Len(all), k # 1
        PROVE  all[k] = back(k-1) /\ k - 1 \in 1..Len(Backing)
    <3>1. k - 1 \in 1..Len(backs) /\ 1 + (k - 1) = k
      BY <2>1, <2>3
    <3> QED BY <1>10, <2>1, <3>1
  <2>4. ASSUME NEW k \in 1..Len(all)
        PROVE  /\ all[k].backing => Backs(all, k)
               /\ ~all[k].backing /\ all[k].type = "APEXCNAME" => all[k].name = <<>>
    <3>1. CASE k = 1
      BY <1>4, <1>6, <2>1, <3>1
    <3>2. CASE k # 1
      <4>1. /\ all[k].backing /\ all[k].type \in Addresses /\ all[k].name = name
        BY <1>9, <2>3, <3>2
      <4>2. 1 \in 1..(k-1)
        BY <3>2
      <4>3. Backs(all, k)
        BY <1>6, <1>11, <2>1, <4>1, <4>2 DEF Backs
      <4> QED BY <4>1, <4>3
    <3> QED BY <3>1, <3>2
  <2> QED BY <2>1, <2>2, <2>4 DEF ResolvedOK
<1>12. CASE t.type \notin Redirects
  <2>1. Entries(t, host) = <<entry>>
    BY <1>5, <1>7, <1>12
  <2> QED BY <1>8, <2>1
<1> QED BY <1>11, <1>12

LEMMA NothingOK == ResolvedOK(<<>>)
BY DEF ResolvedOK

\* A call that is accepted.
LEMMA ResolveOK ==
    ASSUME NEW q \in Calls, Accepted(q)
    PROVE  ResolvedOK(Resolve(q))
<1> DEFINE t == q.template
           part(i) == IF Selected(q, t[i]) THEN Entries(t[i], q.host) ELSE <<>>
           parts == [i \in DOMAIN t |-> part(i)]
<1>1. t \in Seq(TemplateRecords) /\ q.host \in Seq(Texts)
  BY DEF Calls
<1>2. DOMAIN t = 1..Len(t) /\ Len(t) \in Nat /\ \A i \in 1..Len(t) : t[i] \in TemplateRecords
  BY <1>1
<1>3. ASSUME NEW i \in 1..Len(t) PROVE ResolvedOK(part(i))
  <2>1. CASE Selected(q, t[i])
    <3>1. ~Rejected(t[i], q.host)
      BY <1>2, <2>1 DEF Accepted
    <3> QED BY <1>1, <1>2, <2>1, <3>1, EntriesOK
  <2>2. CASE ~Selected(q, t[i])
    BY <2>2, NothingOK
  <2> QED BY <2>1, <2>2
<1>4. Resolve(q) = FlattenSeq(parts)
  BY Zenon DEF Resolve
<1> HIDE DEF part
<1>5. \A i \in 1..Len(t) : part(i) \in Seq(ResolvedEntry)
  BY <1>3 DEF ResolvedOK
<1>6. parts \in Seq(Seq(ResolvedEntry)) /\ Len(parts) = Len(t) /\ \A i \in 1..Len(t) : parts[i] = part(i)
  <2>1. parts \in [1..Len(t) -> Seq(ResolvedEntry)]
    BY <1>2, <1>5
  <2> QED BY <1>2, <2>1
<1> HIDE DEF parts
<1>7. CASE Len(t) = 0
  <2>1. FlattenSeq(parts) = parts
    BY <1>6, <1>7, Zenon DEF FlattenSeq
  <2>2. parts = <<>>
    BY <1>6, <1>7
  <2> QED BY <1>4, <2>1, <2>2, NothingOK
<1>8. CASE Len(t) # 0
  <2>1. PICK f : /\ FlattenSeq(parts) = f[Len(parts)]
                 /\ f[1] = parts[1]
                 /\ \A k \in 2..Len(parts) : f[k] = f[k-1] \o parts[k]
    BY <1>6, <1>8, Flattening
  <2> DEFINE T == {n \in Nat : ResolvedOK(f[n+1])}
  <2>2. 0 \in T
    <3>1. 1 \in 1..Len(t) /\ f[0+1] = part(1)
      BY <1>2, <1>6, <1>8, <2>1
    <3>2. ResolvedOK(f[0+1])
      BY <1>3, <3>1
    <3> QED BY <3>2
  <2>3. ASSUME NEW k \in 1..(Len(t) - 1), k - 1 \in T PROVE k \in T
    <3>1. ResolvedOK(f[k])
      <4>1. ResolvedOK(f[(k-1)+1])
        BY <2>3, Zenon
      <4> QED BY <4>1
    <3>2. k + 1 \in 2..Len(parts) /\ k + 1 \in 1..Len(t)
      BY <1>2, <1>6
    <3>3. f[k+1] = f[k] \o part(k+1)
      <4>1. f[k+1] = f[(k+1)-1] \o parts[k+1]
        BY <2>1, <3>2, Zenon
      <4>2. (k + 1) - 1 = k
        OBVIOUS
      <4> QED BY <1>6, <3>2, <4>1, <4>2
    <3>4. ResolvedOK(f[k+1])
      BY <1>3, <3>1, <3>2, <3>3, JoinedOK
    <3> QED BY <3>4
  <2> HIDE DEF T
  <2>4. Len(t) - 1 \in Nat /\ Len(t) - 1 \in 0..(Len(t) - 1)
    BY <1>2, <1>8
  <2>5. Len(t) - 1 \in T
    <3>1. \A k \in 1..(Len(t) - 1) : k - 1 \in T => k \in T
      BY <2>3
    <3>2. \A k \in 0..(Len(t) - 1) : k \in T
      BY <2>2, <2>4, <3>1, UpTo
    <3> QED BY <2>4, <3>2
  <2>6. ResolvedOK(f[Len(t)])
    <3>1. ResolvedOK(f[(Len(t) - 1) + 1])
      BY <2>5 DEF T
    <3>2. (Len(t) - 1) + 1 = Len(t)
      BY <1>2
    <3> QED BY <3>1, <3>2
  <2> QED BY <1>4, <1>6, <2>1, <2>6
<1> QED BY <1>7, <1>8

-----------------------------------------------------------------------------
(* SPF records.                                                             *)

\* u is s followed by t.
Joint(V, u, s, t) ==
    /\ u \in Seq(V) /\ Len(u) = Len(s) + Len(t)
    /\ \A k \in 1..Len(s) : u[k] = s[k]
    /\ \A k \in 1..Len(t) : u[Len(s) + k] = t[k]

LEMMA JoinShape ==
    ASSUME NEW V, NEW s \in Seq(V), NEW t \in Seq(V)
    PROVE  Joint(V, s \o t, s, t)
BY ConcatProperties DEF Joint

\* Words that are at a place of s are in s.
LEMMA WordsAt ==
    ASSUME NEW s \in Seq(Texts), NEW w \in Seq(Texts), NEW i \in 0..(Len(s) - Len(w)),
           \A k \in 1..Len(w) : s[i + k] = w[k]
    PROVE  ContainsText(s, w)
<1>1. DOMAIN w = 1..Len(w)
  OBVIOUS
<1>2. \A k \in DOMAIN w : Fits(w[k], s[i + k], k, Len(w))
  BY <1>1, Zenon DEF Fits
<1> QED BY <1>2 DEF ContainsText

\* The rules come after the version, and all words but the version after them.
LEMMA MergedShape ==
    ASSUME NEW c \in Seq(Texts), Len(c) > 1, NEW rules \in Seq(Texts)
    PROVE  LET m == MergedSPF(c, rules) IN
           /\ m \in Seq(Texts) /\ Len(m) > 1 /\ Head(m) = "v=spf1"
           /\ ContainsText(m, rules)
           /\ \E shift \in Nat : /\ Len(c) + shift <= Len(m)
                                 /\ \A p \in 2..Len(c) : m[p + shift] = c[p]
<1> DEFINE closed == Last(c) \in {"-all", "~all", "?all"}
           body == IF closed THEN Front(c) ELSE c
           rest == IF Len(body) > 1 THEN Tail(body) ELSE body
           end == IF closed THEN Last(c) ELSE "~all"
           v == <<"v=spf1">>
           m == MergedSPF(c, rules)
<1>1. m = ((v \o rules) \o rest) \o <<end>>
  BY Zenon DEF MergedSPF
<1>2. Len(c) \in Nat /\ \A p \in 1..Len(c) : c[p] \in Texts
  OBVIOUS
<1>3. v \in Seq(Texts) /\ Len(v) = 1 /\ v[1] = "v=spf1"
  <2>1. "v=spf1" \in Texts
    BY TextsOK
  <2> QED BY <2>1
<1>4. Last(c) \in Texts /\ Last(c) = c[Len(c)]
  BY <1>2 DEF Last
<1>5. Front(c) \in Seq(Texts) /\ Len(Front(c)) = Len(c) - 1 /\ \A p \in 1..(Len(c)-1) : Front(c)[p] = c[p]
  BY <1>2 DEF Front
<1>6. end \in Texts
  BY <1>4, TextsOK
\* Where the words of c are in the rest, followed by the end.
<1> DEFINE upto == IF closed THEN Len(c) - 1 ELSE Len(c)
           Sited(d) == /\ closed => Len(rest) = Len(c) - 2 + d
                       /\ ~closed => Len(rest) = Len(c) - 1
                       /\ \A p \in 2..upto : rest[(p - 1) + d] = c[p]
<1>7. rest \in Seq(Texts) /\ (Sited(0) \/ (closed /\ Sited(1)))
  <2>4. Len(c) = 2 \/ Len(c) > 2
    <3>1. \A n \in Nat : n > 1 => n = 2 \/ n > 2
      OBVIOUS
    <3> QED BY <1>2, <3>1, Zenon
  <2>1. CASE ~closed
    <3>1. rest = Tail(c)
      BY <2>1
    <3>2. Tail(c) \in Seq(Texts) /\ Len(Tail(c)) = Len(c) - 1 /\ \A p \in 2..Len(c) : Tail(c)[p-1] = c[p]
      BY <1>2
    <3>3. upto = Len(c) /\ \A p \in 2..Len(c) : (p - 1) + 0 = p - 1
      BY <2>1
    <3> HIDE DEF rest, closed, upto
    <3> QED BY <1>2, <2>1, <3>1, <3>2, <3>3
  <2>2. CASE closed /\ Len(c) > 2
    <3>0. Len(Front(c)) > 1
      BY <1>2, <1>5, <2>2
    <3>1. rest = Tail(Front(c))
      BY <2>2, <3>0
    <3> DEFINE fr == Front(c)
    <3>2. fr \in Seq(Texts) /\ Len(fr) = Len(c) - 1 /\ Len(fr) > 1 /\ \A p \in 1..(Len(c)-1) : fr[p] = c[p]
      BY <1>5, <3>0
    <3> HIDE DEF fr
    <3>3. Tail(fr) \in Seq(Texts) /\ Len(Tail(fr)) = Len(c) - 2 /\ \A p \in 2..(Len(c)-1) : Tail(fr)[p-1] = c[p]
      BY <1>2, <3>2
    <3>4. rest = Tail(fr)
      BY <3>1 DEF fr
    <3>5. upto = Len(c) - 1 /\ \A p \in 2..(Len(c)-1) : (p - 1) + 0 = p - 1
      BY <1>2, <2>2
    <3> HIDE DEF rest, closed, upto
    <3> QED BY <1>2, <2>2, <3>3, <3>4, <3>5
  <2>3. CASE closed /\ Len(c) = 2
    <3>0. ~(Len(Front(c)) > 1)
      BY <1>5, <2>3
    <3>1. rest = Front(c)
      BY <2>3, <3>0
    <3>2. upto = 1 /\ 2..1 = {}
      BY <2>3
    <3> HIDE DEF rest, closed, upto
    <3>3. Len(rest) = 1 /\ rest \in Seq(Texts)
      BY <1>5, <2>3, <3>1
    <3> QED BY <2>3, <3>2, <3>3
  <2> HIDE DEF closed, rest, upto, Sited
  <2> QED BY <2>1, <2>2, <2>3, <2>4
<1>8. PICK d \in {0, 1} : Sited(d) /\ (d = 0 \/ closed)
  <2> HIDE DEF Sited, closed
  <2> QED BY <1>7
<1>9. closed => end = c[Len(c)]
  BY <1>4
<1> HIDE DEF closed, rest, end, v, body, upto, Sited
<1> DEFINE vr == v \o rules
           vrr == vr \o rest
<1>10. /\ vr \in Seq(Texts) /\ Len(vr) = 1 + Len(rules) /\ vr[1] = "v=spf1"
       /\ \A k \in 1..Len(rules) : vr[1 + k] = rules[k]
  <2>1. /\ vr \in Seq(Texts) /\ Len(vr) = Len(v) + Len(rules)
        /\ \A k \in 1..Len(v) : vr[k] = v[k]
        /\ \A k \in 1..Len(rules) : vr[Len(v) + k] = rules[k]
    <3>1. Joint(Texts, vr, v, rules)
      BY <1>3, JoinShape, Zenon
    <3> HIDE DEF vr
    <3> QED BY <3>1 DEF Joint
  <2> HIDE DEF vr
  <2>2. 1 \in 1..Len(v)
    BY <1>3
  <2> QED BY <1>3, <2>1, <2>2
<1> HIDE DEF vr
<1>11. /\ vrr \in Seq(Texts) /\ Len(vrr) = Len(vr) + Len(rest)
       /\ \A k \in 1..Len(vr) : vrr[k] = vr[k]
       /\ \A k \in 1..Len(rest) : vrr[Len(vr) + k] = rest[k]
  <2>1. Joint(Texts, vrr, vr, rest)
    BY <1>7, <1>10, JoinShape, Zenon
  <2> HIDE DEF vrr, Sited
  <2> QED BY <2>1 DEF Joint
<1> HIDE DEF vrr
<1>12. <<end>> \in Seq(Texts) /\ Len(<<end>>) = 1 /\ <<end>>[1] = end /\ 1 \in 1..1
  BY <1>6
<1>13. /\ m \in Seq(Texts) /\ Len(m) = Len(vrr) + 1
       /\ \A k \in 1..Len(vrr) : m[k] = vrr[k]
       /\ m[Len(vrr) + 1] = end
  <2>1. m = vrr \o <<end>>
    BY <1>1 DEF vrr, vr
  <2> HIDE DEF m
  <2> QED BY <1>11, <1>12, <2>1, ConcatShape
<1> HIDE DEF m
<1>14. Len(rules) \in Nat /\ Len(rest) \in Nat /\ Len(m) = Len(rules) + Len(rest) + 2
  <2>1. rest \in Seq(Texts)
    BY <1>7
  <2> HIDE DEF Sited
  <2> QED BY <1>10, <1>11, <1>13, <2>1
<1>15. Head(m) = "v=spf1"
  <2>1. 1 \in 1..Len(vr) /\ 1 \in 1..Len(vrr)
    BY <1>10, <1>11, <1>14
  <2>2. m[1] = "v=spf1"
    BY <1>10, <1>11, <1>13, <2>1
  <2> QED BY <1>13, <1>14, <2>2
<1>16. ContainsText(m, rules)
  <2>1. \A k \in 1..Len(rules) : 1 + k \in 1..Len(vr) /\ 1 + k \in 1..Len(vrr)
    BY <1>10, <1>11, <1>14
  <2>2. \A k \in 1..Len(rules) : m[1 + k] = rules[k]
    BY <1>10, <1>11, <1>13, <2>1
  <2>3. 1 \in 0..(Len(m) - Len(rules))
    BY <1>14
  <2> QED BY <1>13, <2>2, <2>3, WordsAt
<1>17. \E shift \in Nat : Len(c) + shift <= Len(m) /\ \A p \in 2..Len(c) : m[p + shift] = c[p]
  <2> DEFINE shift == Len(rules) + d
  <2>1. shift \in Nat
    BY <1>14
  <2>2. Len(c) + shift <= Len(m)
    BY <1>2, <1>8, <1>14 DEF Sited, upto
  <2>3. ASSUME NEW p \in 2..Len(c) PROVE m[p + shift] = c[p]
    <3>1. CASE closed /\ p = Len(c)
      <4>1. p + shift = Len(vrr) + 1
        <5>1. Len(rest) = Len(c) - 2 + d
          BY <1>8, <3>1 DEF Sited
        <5> HIDE DEF Sited
        <5> QED BY <1>2, <1>8, <1>10, <1>11, <1>14, <3>1, <5>1
      <4> QED BY <1>9, <1>13, <3>1, <4>1
    <3>2. CASE ~(closed /\ p = Len(c))
      <4>1. /\ p \in 2..upto
            /\ (p - 1) + d \in 1..Len(rest)
            /\ Len(vr) + ((p - 1) + d) = p + shift
        BY <1>2, <1>8, <1>10, <1>14, <3>2 DEF Sited, upto
      <4>2. p + shift \in 1..Len(vrr)
        BY <1>10, <1>11, <1>14, <4>1
      <4>3. rest[(p - 1) + d] = c[p]
        BY <1>8, <4>1 DEF Sited
      <4>4. vrr[Len(vr) + ((p - 1) + d)] = rest[(p - 1) + d]
        BY <1>11, <4>1
      <4> QED BY <1>13, <4>1, <4>2, <4>3, <4>4
    <3> QED BY <3>1, <3>2
  <2> HIDE DEF shift
  <2> QED BY <2>1, <2>2, <2>3, Zenon
<1>18. Len(m) > 1
  BY <1>14, <1>7
<1> QED BY <1>13, <1>15, <1>16, <1>17, <1>18, Zenon DEF m

\* A merge keeps what was there, but for words that span the version.
LEMMA MergeKeeps ==
    ASSUME NEW c \in Seq(Texts), Len(c) > 1, Head(c) = "v=spf1",
           NEW rules \in Seq(Texts), NEW w \in Seq(Texts),
           ContainsText(c, w), ~SpansVersion(w)
    PROVE  ContainsText(MergedSPF(c, rules), w)
<1> DEFINE m == MergedSPF(c, rules)
<1>1. /\ m \in Seq(Texts) /\ Len(m) > 1 /\ Head(m) = "v=spf1"
      /\ \E shift \in Nat : Len(c) + shift <= Len(m) /\ \A p \in 2..Len(c) : m[p + shift] = c[p]
  BY MergedShape
<1>2. PICK shift \in Nat : Len(c) + shift <= Len(m) /\ \A p \in 2..Len(c) : m[p + shift] = c[p]
  BY <1>1
<1>3. PICK i \in 0..(Len(c) - Len(w)) : \A k \in DOMAIN w : Fits(w[k], c[i + k], k, Len(w))
  BY DEF ContainsText
<1> HIDE DEF m
<1>4. Len(c) \in Nat /\ Len(w) \in Nat /\ Len(m) \in Nat /\ DOMAIN w = 1..Len(w)
  BY <1>1
<1>5. CASE w = <<>>
  <2>1. 0 \in 0..(Len(m) - Len(w)) /\ DOMAIN w = {}
    BY <1>4, <1>5
  <2> QED BY <2>1 DEF ContainsText, m
<1>6. CASE Len(w) = 1 /\ i = 0
  <2>1. 0 \in 0..(Len(m) - Len(w)) /\ DOMAIN w = {1}
    BY <1>1, <1>4, <1>6
  <2>2. c[0 + 1] = "v=spf1" /\ m[0 + 1] = "v=spf1"
    BY <1>1
  <2>3. Fits(w[1], m[0 + 1], 1, Len(w))
    BY <1>3, <1>6, <2>1, <2>2
  <2> QED BY <2>1, <2>3 DEF ContainsText, m
<1>7. CASE i # 0
  <2>1. i + shift \in 0..(Len(m) - Len(w))
    BY <1>2, <1>3, <1>4
  <2>2. ASSUME NEW k \in DOMAIN w PROVE Fits(w[k], m[(i + shift) + k], k, Len(w))
    <3>1. i + k \in 2..Len(c) /\ (i + k) + shift = (i + shift) + k
      BY <1>3, <1>4, <1>7
    <3>2. m[(i + shift) + k] = c[i + k]
      BY <1>2, <3>1
    <3> QED BY <1>3, <3>2
  <2> QED BY <2>1, <2>2 DEF ContainsText, m
<1>8. CASE Len(w) > 1 /\ i = 0
  <2>1. 1 \in DOMAIN w /\ Head(w) = w[1] /\ c[0 + 1] = "v=spf1"
    BY <1>4, <1>8
  <2>2. Fits(w[1], "v=spf1", 1, Len(w))
    BY <1>3, <1>8, <2>1
  <2>3. Len(w) # 1
    <3>1. \A n \in Nat : n > 1 => n # 1
      OBVIOUS
    <3> QED BY <1>4, <1>8, <3>1, Zenon
  <2>4. w[1] = "v=spf1" \/ <<w[1], "v=spf1">> \in Tails
    BY <1>8, <2>2, <2>3 DEF Fits
  <2> QED BY <1>8, <2>1, <2>4 DEF SpansVersion
<1>9. Len(w) = 0 => w = <<>>
  OBVIOUS
<1> QED BY <1>4, <1>5, <1>6, <1>7, <1>8, <1>9

-----------------------------------------------------------------------------
(* Records.                                                                 *)

LEMMA SameKey ==
    ASSUME NEW r, NEW s, Key(r) = Key(s)
    PROVE  r.type = s.type /\ r.name = s.name /\ r.content = s.content /\ r.ttl = s.ttl
BY DEF Key

LEMMA SameRecord ==
    ASSUME NEW r \in Records, NEW s \in Records, Key(r) = Key(s), r.dc = s.dc
    PROVE  r = s
BY SameKey DEF Records

LEMMA InKeys ==
    ASSUME NEW S, NEW k
    PROVE  k \in Keys(S) <=> \E s \in S : Key(s) = k
BY Zenon DEF Keys

\* What holds of a record holds of one with the same key.
LEMMA SameSPF ==
    ASSUME NEW r, NEW s, Key(r) = Key(s)
    PROVE  IsSPF(r) <=> IsSPF(s)
BY SameKey, Zenon DEF IsSPF

LEMMA SameServes ==
    ASSUME NEW r, NEW s, Key(r) = Key(s), NEW e
    PROVE  Serves(r, e) <=> Serves(s, e)
BY SameKey, SameSPF, Zenon DEF Serves

LEMMA SameDelete ==
    ASSUME NEW r, NEW s, Key(r) = Key(s), NEW e
    PROVE  MayDelete(e, r) <=> MayDelete(e, s)
BY SameKey, Zenon DEF MayDelete

LEMMA EntryFields ==
    ASSUME NEW e \in ResolvedEntry
    PROVE  /\ e.type \in Texts /\ e.name \in Seq(Texts) /\ e.content \in Seq(Texts)
           /\ e.ttl \in Int
BY DEF ResolvedEntry

\* The record of an entry.
LEMMA RecordMade ==
    ASSUME NEW e \in ResolvedEntry, e.type # "SPFM"
    PROVE  /\ Made(Record(e), e) /\ Serves(Record(e), e) /\ Record(e).type = e.type
           /\ Record(e).name = e.name /\ Record(e).content = e.content
<1>1. Record(e) \in Records
  BY EntryFields DEF Record, Records
<1>2. /\ Record(e).type = e.type /\ Record(e).name = e.name /\ Record(e).content = e.content
      /\ Record(e).dc = Free
  BY DEF Record
<1> QED BY <1>1, <1>2, Zenon DEF Made, Serves

LEMMA NewSPFMade ==
    ASSUME NEW e \in ResolvedEntry, e.type = "SPFM"
    PROVE  Made(NewSPF(e), e) /\ Serves(NewSPF(e), e)
<1> DEFINE v == <<"v=spf1">>
           ve == v \o e.content
           c == ve \o <<"~all">>
           n == NewSPF(e)
<1>1. v \in Seq(Texts) /\ Len(v) = 1 /\ v[1] = "v=spf1" /\ <<"~all">> \in Seq(Texts) /\ Len(<<"~all">>) = 1
  <2>1. "v=spf1" \in Texts /\ "~all" \in Texts
    BY TextsOK
  <2> QED BY <2>1
<1>2. e.content \in Seq(Texts) /\ Len(e.content) \in Nat
  BY EntryFields
<1>3. Joint(Texts, ve, v, e.content)
  BY <1>1, <1>2, JoinShape, Zenon
<1> HIDE DEF ve
<1>4. Joint(Texts, c, ve, <<"~all">>)
  <2>1. ve \in Seq(Texts)
    BY <1>3 DEF Joint
  <2> QED BY <1>1, <2>1, JoinShape, Zenon
<1>5. n = [Record(e) EXCEPT !.type = "TXT", !.content = c,
                           !.ttl = IF e.ttl = 0 THEN DefaultTTL ELSE e.ttl]
  BY Zenon DEF NewSPF, ve, v
<1> HIDE DEF c, n, v
<1>6. /\ c \in Seq(Texts) /\ Len(c) = 1 + Len(e.content) + 1
      /\ c[1] = "v=spf1" /\ \A k \in 1..Len(e.content) : c[1 + k] = e.content[k]
  <2>1. /\ ve \in Seq(Texts) /\ Len(ve) = 1 + Len(e.content)
        /\ ve[1] = "v=spf1" /\ \A k \in 1..Len(e.content) : ve[1 + k] = e.content[k]
    <3>1. 1 \in 1..Len(v)
      BY <1>1
    <3> QED BY <1>1, <1>3, <3>1 DEF Joint
  <2>2. /\ c \in Seq(Texts) /\ Len(c) = Len(ve) + 1 /\ \A k \in 1..Len(ve) : c[k] = ve[k]
    BY <1>1, <1>4 DEF Joint
  <2>3. 1 \in 1..Len(ve) /\ \A k \in 1..Len(e.content) : 1 + k \in 1..Len(ve)
    BY <1>2, <2>1
  <2> QED BY <2>1, <2>2, <2>3
<1>7. ContainsText(c, e.content)
  <2>1. 1 \in 0..(Len(c) - Len(e.content))
    BY <1>2, <1>6
  <2> QED BY <1>2, <1>6, <2>1, WordsAt
<1>8. n \in Records /\ n.type = "TXT" /\ n.name = e.name /\ n.content = c /\ n.dc = Free
  <2>1. Record(e) \in Records /\ Record(e).name = e.name /\ Record(e).dc = Free
    BY EntryFields DEF Record, Records
  <2>2. "TXT" \in Texts
    BY TextsOK DEF Core
  <2> DEFINE ttl == IF e.ttl = 0 THEN DefaultTTL ELSE e.ttl
  <2>3. ttl \in Int
    BY EntryFields DEF DefaultTTL
  <2>4. n = [Record(e) EXCEPT !.type = "TXT", !.content = c, !.ttl = ttl]
    BY <1>5
  <2> HIDE DEF ttl
  <2> QED BY <1>6, <2>1, <2>2, <2>3, <2>4 DEF Records
<1>9. IsSPF(n)
  <2>1. Len(c) > 1 /\ Head(c) = "v=spf1"
    BY <1>2, <1>6
  <2> QED BY <1>8, <2>1 DEF IsSPF, SpellsSPF
<1>10. Made(n, e) /\ Serves(n, e)
  BY <1>7, <1>8, <1>9, Zenon DEF Made, Serves
<1> QED BY <1>10 DEF n

\* A merged record serves the entry, and what the old one served.
LEMMA MergedMade ==
    ASSUME NEW e \in ResolvedEntry, e.type = "SPFM",
           NEW r \in Records, IsSPF(r), r.name = e.name
    PROVE  LET m == MergedRecord(r, e.content) IN
           /\ Made(m, e) /\ Serves(m, e)
           /\ \A f \in ResolvedEntry :
                 Serves(r, f) /\ MayFind(f) /\ ~Overlaps(e, f) => Serves(m, f)
<1> DEFINE m == MergedRecord(r, e.content)
           c == MergedSPF(r.content, e.content)
<1>1. r.content \in Seq(Texts) /\ Len(r.content) > 1 /\ r.type = "TXT" /\ Head(r.content) = "v=spf1"
  BY DEF Records, IsSPF, SpellsSPF
<1>2. e.content \in Seq(Texts)
  BY EntryFields
<1>3. c \in Seq(Texts) /\ Len(c) > 1 /\ Head(c) = "v=spf1" /\ ContainsText(c, e.content)
  BY <1>1, <1>2, MergedShape, Zenon
<1>4. \A w \in Seq(Texts) :
         ContainsText(r.content, w) /\ ~SpansVersion(w) => ContainsText(c, w)
  BY <1>1, <1>2, MergeKeeps, Zenon
<1>5. m = [r EXCEPT !.content = c, !.dc = Free]
  BY Zenon DEF MergedRecord
<1> HIDE DEF c, m
<1>6. m \in Records /\ m.type = "TXT" /\ m.name = e.name /\ m.content = c /\ m.dc = Free
  BY <1>1, <1>3, <1>5 DEF Records
<1>7. IsSPF(m)
  BY <1>3, <1>6 DEF IsSPF, SpellsSPF
<1>8. Made(m, e) /\ Serves(m, e)
  BY <1>3, <1>6, <1>7, Zenon DEF Made, Serves
<1>9. ASSUME NEW f \in ResolvedEntry, Serves(r, f), MayFind(f), ~Overlaps(e, f)
      PROVE  Serves(m, f)
  <2>1. r.name = f.name /\ f.content \in Seq(Texts)
    BY <1>9, EntryFields DEF Serves
  <2>2. CASE f.type = "SPFM"
    <3>1. ContainsText(r.content, f.content)
      BY <1>9, <2>2, Zenon DEF Serves
    <3>2. ~SpansVersion(f.content)
      BY <1>9, <2>1, <2>2, Zenon DEF Overlaps
    <3>3. ContainsText(c, f.content)
      BY <1>4, <2>1, <3>1, <3>2
    <3> QED BY <1>6, <1>7, <2>1, <2>2, <3>3, Zenon DEF Serves
  <2>3. CASE f.type # "SPFM"
    <3>1. f.type = "TXT" /\ f.content = r.content
      <4>1. r.type = f.type /\ r.content = f.content
        BY <1>9, <2>3, Zenon DEF Serves
      <4> QED BY <1>1, <1>9, <4>1 DEF MayFind, Core
    <3>2. SpansVersion(f.content)
      BY <1>1, <3>1 DEF SpansVersion
    <3>3. Overlaps(e, f)
      BY <2>1, <3>1, <3>2 DEF Overlaps
    <3> QED BY <1>9, <3>3
  <2> QED BY <2>2, <2>3
<1> QED BY <1>8, <1>9, Zenon DEF m

-----------------------------------------------------------------------------
(* The conflict loop.                                                       *)

\* What a step of the loop, at its entry, has to see to.
Handled(dels, adds) ==
    /\ dels \subseteq work
    /\ \A d \in dels : MayDelete(Entry, d)
    /\ \A a \in adds : Made(a, Entry)
    /\ \A r \in zone : Stays(r) /\ Key(r) \notin Keys(dels) =>
          /\ \A a \in adds : /\ ~Opposed(a, r)
                             /\ Key(a) = Key(r) => IsSPF(r) /\ TwoSPF(zone, r.name)
          /\ ~Sweeps(Entry, r)
    /\ \/ \E a \in adds : Serves(a, Entry)
       \/ MayFind(Entry) /\ \E r \in work : Key(r) \notin Keys(dels) /\ Serves(r, Entry)
    /\ \A k \in 1..(next-1), d \in dels :
          Serves(d, resolved[k]) /\ MayFind(resolved[k]) /\ ~Overlaps(Entry, resolved[k]) =>
             \E a \in adds : Serves(a, resolved[k])

\* The loop is at an entry.
AtEntry == IInv /\ pc = "run" /\ next <= Len(resolved)

LEMMA AtEntryFacts ==
    ASSUME AtEntry
    PROVE  /\ next \in 1..Len(resolved) /\ Entry = resolved[next]
           /\ Entry \in ResolvedEntry
           /\ Len(resolved) \in Nat /\ DOMAIN resolved = 1..Len(resolved)
           /\ \A k \in 1..Len(resolved) : resolved[k] \in ResolvedEntry
           /\ next \in Nat
<1>1. resolved \in Seq(ResolvedEntry) /\ next \in 1..(Len(resolved) + 1) /\ next <= Len(resolved)
  BY Zenon DEF AtEntry, IInv, ResolvedOK
<1>2. Len(resolved) \in Nat /\ DOMAIN resolved = 1..Len(resolved)
  BY <1>1
<1>3. next \in 1..Len(resolved)
  BY <1>1, <1>2
<1>4. \A k \in 1..Len(resolved) : resolved[k] \in ResolvedEntry
  BY <1>1, ElementOfSeq, Zenon
<1> QED BY <1>2, <1>3, <1>4 DEF Entry

LEMMA ChangeStep ==
    ASSUME AtEntry, NEW dels, NEW adds, Handled(dels, adds), Change(dels, adds)
    PROVE  IInv'
<1>1. /\ next \in 1..Len(resolved) /\ Entry = resolved[next] /\ Entry \in ResolvedEntry
      /\ Len(resolved) \in Nat /\ DOMAIN resolved = 1..Len(resolved)
      /\ \A k \in 1..Len(resolved) : resolved[k] \in ResolvedEntry
      /\ next \in Nat
  BY AtEntryFacts, Zenon
<1>2. /\ toDelete' = toDelete \cup dels /\ toAdd' = toAdd \cup adds
      /\ work' = {r \in work : Key(r) \notin Keys(dels)} \cup adds
      /\ next' = next + 1
      /\ zone' = zone /\ plan' = plan /\ pc' = pc /\ req' = req /\ resolved' = resolved
      /\ essentialAlways' = essentialAlways /\ before' = before
  BY Zenon DEF Change
<1>3. /\ ZoneOK /\ plan \in Seq(Calls) /\ ResolvedOK(resolved) /\ pc = "run"
      /\ CallOK /\ WorkOK /\ ListsOK /\ ApartOK /\ GoodOK
  BY Zenon DEF AtEntry, IInv, RunOK
<1>4. /\ dels \subseteq work
      /\ \A d \in dels : MayDelete(Entry, d)
      /\ \A a \in adds : Made(a, Entry)
  BY Zenon DEF Handled
<1>5. \A r \in zone : Stays(r) /\ Key(r) \notin Keys(dels) =>
          /\ \A a \in adds : /\ ~Opposed(a, r)
                             /\ Key(a) = Key(r) => IsSPF(r) /\ TwoSPF(zone, r.name)
          /\ ~Sweeps(Entry, r)
  BY Zenon DEF Handled
\* What still stays did before, and its key is not deleted.
<1>6. \A k : k \in Keys(toDelete') <=> k \in Keys(toDelete) \/ k \in Keys(dels)
  <2>1. \A k : k \in Keys(toDelete') <=> \E s \in toDelete \cup dels : Key(s) = k
    BY <1>2, InKeys, Zenon
  <2> QED BY <2>1, InKeys, Zenon
<1>7. \A r : Stays(r)' <=> Stays(r) /\ Key(r) \notin Keys(dels)
  BY <1>2, <1>6, Zenon DEF Stays
<1>8. ZoneOK'
  BY <1>2, <1>3, Zenon DEF ZoneOK
<1>9. CallOK'
  <2>1. /\ req' \in Calls /\ checkInternalConflicts(resolved')
        /\ essentialAlways' = Candidates(req)
    BY <1>2, <1>3, Zenon DEF CallOK
  <2>2. OwnedRecords(req)' = OwnedRecords(req) /\ Candidates(req)' = Candidates(req)
    BY <1>2, Zenon DEF OwnedRecords, Candidates
  <2>3. work \subseteq Records /\ toDelete \subseteq Records /\ OwnedRecords(req) \subseteq toDelete
    BY <1>3, Zenon DEF CallOK
  <2>4. adds \subseteq Records
    BY <1>4, Zenon DEF Made
  <2>5. work' \subseteq Records /\ toDelete' \subseteq Records /\ OwnedRecords(req) \subseteq toDelete'
    BY <1>2, <1>4, <2>3, <2>4
  <2>6. OwnedRecords(req)' \subseteq toDelete'
    BY <2>2, <2>5, Zenon
  <2>7. essentialAlways' = Candidates(req)'
    BY <2>1, <2>2, Zenon
  <2> QED BY <2>1, <2>5, <2>6, <2>7, <1>2, Zenon DEF CallOK
<1>10. WorkOK'
  <2>1. ASSUME NEW r \in zone', Stays(r)' PROVE r \in work'
    <3>1. r \in work /\ Key(r) \notin Keys(dels)
      BY <1>2, <1>3, <1>7, <2>1, Zenon DEF WorkOK
    <3> QED BY <1>2, <3>1
  <2>2. ASSUME NEW r \in work'
        PROVE  r \in toAdd' \/ (r \in zone' /\ (NoTwins(zone') => Stays(r)'))
    <3>1. CASE r \in adds
      BY <1>2, <3>1
    <3>2. CASE r \in work /\ Key(r) \notin Keys(dels)
      <4>1. r \in toAdd \/ (r \in zone /\ (NoTwins(zone) => Stays(r)))
        BY <1>3, <3>2, Zenon DEF WorkOK
      <4>2. toAdd \subseteq toAdd'
        BY <1>2
      <4> QED BY <1>2, <1>7, <3>2, <4>1, <4>2, Zenon
    <3> QED BY <1>2, <2>2, <3>1, <3>2
  <2> QED BY <2>1, <2>2, Zenon DEF WorkOK
<1>11. ListsOK'
  <2>1. ASSUME NEW a \in toAdd' PROVE \E k \in 1..Len(resolved') : Made(a, resolved'[k])
    <3>1. CASE a \in toAdd
      BY <1>2, <1>3, <3>1, Zenon DEF ListsOK
    <3>2. CASE a \in adds
      BY <1>1, <1>2, <1>4, <3>2, Zenon
    <3> QED BY <1>2, <3>1, <3>2
  <2>2. ASSUME NEW d \in toDelete'
        PROVE  \/ d \in zone' /\ Owned(req', d)
               \/ \E k \in 1..Len(resolved') : MayDelete(resolved'[k], d)
    <3>1. CASE d \in toDelete
      BY <1>2, <1>3, <3>1, Zenon DEF ListsOK
    <3>2. CASE d \in dels
      BY <1>1, <1>2, <1>4, <3>2, Zenon
    <3> QED BY <1>2, <3>1, <3>2
  <2> QED BY <2>1, <2>2, Zenon DEF ListsOK
<1>12. ApartOK'
  <2>1. ASSUME NEW a \in toAdd', NEW r \in zone', Stays(r)'
        PROVE  ~Opposed(a, r) /\ (Key(a) = Key(r) => IsSPF(r) /\ TwoSPF(zone', r.name))
    <3>1. r \in zone /\ Stays(r) /\ Key(r) \notin Keys(dels)
      BY <1>2, <1>7, <2>1, Zenon
    <3>2. CASE a \in toAdd
      BY <1>2, <1>3, <3>1, <3>2, Zenon DEF ApartOK
    <3>3. CASE a \in adds
      BY <1>2, <1>5, <3>1, <3>3, Zenon
    <3> QED BY <1>2, <3>2, <3>3
  <2>2. ASSUME NEW k \in 1..(next'-1), NEW r \in zone',
               Stays(r)', Sweeps(resolved[k], r)
        PROVE  FALSE
    <3>1. r \in zone /\ Stays(r) /\ Key(r) \notin Keys(dels)
      BY <1>2, <1>7, <2>2, Zenon
    <3>2. k \in 1..(next-1) \/ k = next
      BY <1>1, <1>2
    <3>3. CASE k \in 1..(next-1)
      BY <1>2, <1>3, <2>2, <3>1, <3>3, Zenon DEF ApartOK
    <3>4. CASE k = next
      BY <1>1, <1>2, <1>5, <2>2, <3>1, <3>4, Zenon
    <3> QED BY <3>2, <3>3, <3>4
  <2>3. \A k \in 1..(next'-1), r \in zone' : Stays(r)' => ~Sweeps(resolved[k], r)
    BY <2>2
  <2>4. \A k \in 1..(next'-1), r \in zone' : Stays(r)' => ~Sweeps(resolved'[k], r)
    BY <1>2, <2>3, Zenon
  <2> QED BY <2>1, <2>4, Zenon DEF ApartOK
<1>13. GoodOK'
  <2>1. NoTwins(zone') /\ ~Overlap' => NoTwins(zone) /\ ~Overlap
    BY <1>2, Zenon DEF Overlap
  <2>2. \A k \in 1..(next'-1) : k \in 1..(next-1) \/ k = next
    BY <1>1, <1>2
  <2>3. toAdd \subseteq toAdd' /\ adds \subseteq toAdd'
    BY <1>2
  <2>4. \A r \in work : Key(r) \notin Keys(dels) => r \in work'
    BY <1>2
  <2> DEFINE Still(f) == \/ \E a \in toAdd' : Serves(a, f)
                         \/ MayFind(f) /\ \E r \in work' : Serves(r, f)
  <2>5. Still(Entry)
    <3>1. \/ \E a \in adds : Serves(a, Entry)
          \/ MayFind(Entry) /\ \E r \in work : Key(r) \notin Keys(dels) /\ Serves(r, Entry)
      BY Zenon DEF Handled
    <3>2. CASE \E a \in adds : Serves(a, Entry)
      BY <2>3, <3>2, Zenon
    <3>3. CASE MayFind(Entry) /\ \E r \in work : Key(r) \notin Keys(dels) /\ Serves(r, Entry)
      BY <2>4, <3>3, Zenon
    <3> QED BY <3>1, <3>2, <3>3
  <2>6. ASSUME NoTwins(zone), ~Overlap, NEW k \in 1..(next-1)
        PROVE  Still(resolved[k])
    <3>1. Good(resolved[k])
      BY <1>3, <2>6, Zenon DEF GoodOK
    <3>2. CASE \E a \in toAdd : Serves(a, resolved[k])
      BY <2>3, <3>2, Zenon
    <3>3. ASSUME NEW r \in work, Serves(r, resolved[k]), MayFind(resolved[k])
          PROVE  Still(resolved[k])
      <4>1. CASE Key(r) \notin Keys(dels)
        BY <2>4, <3>3, <4>1, Zenon
      <4>2. CASE Key(r) \in Keys(dels)
        <5>1. PICK d \in dels : Key(d) = Key(r)
          BY <4>2, InKeys, Zenon
        <5>2. Serves(d, resolved[k])
          BY <3>3, <5>1, SameServes, Zenon
        <5>3. k \in DOMAIN resolved /\ next \in DOMAIN resolved /\ k < next
          BY <1>1, <2>6
        <5>4. ~Overlaps(Entry, resolved[k])
          BY <1>1, <2>6, <5>3, Zenon DEF Overlap
        <5>5. \E a \in adds : Serves(a, resolved[k])
          BY <2>6, <3>3, <5>2, <5>4, Zenon DEF Handled
        <5> QED BY <2>3, <5>5, Zenon
      <4> QED BY <4>1, <4>2
    <3> QED BY <3>1, <3>2, <3>3, Zenon DEF Good
  <2>7. NoTwins(zone') /\ ~Overlap' => \A k \in 1..(next'-1) : Still(resolved'[k])
    <3> HIDE DEF Still
    <3> QED BY <1>1, <1>2, <2>1, <2>2, <2>5, <2>6, Zenon
  <2> QED BY <2>7, Zenon DEF GoodOK, Good
<1>14. next' \in 1..(Len(resolved') + 1)
  BY <1>1, <1>2
<1>15. pc' = "run" /\ pc' # "idle" /\ ~Done'
  BY <1>2, <1>3 DEF Done
<1>16. Installed' /\ Spared' /\ ServiceReplaced' /\ AliasReplaces'
  BY <1>15, Zenon DEF Installed, Spared, ServiceReplaced, AliasReplaces
<1>17. RunOK'
  BY <1>9, <1>10, <1>11, <1>12, <1>13, Zenon DEF RunOK
<1>18. ResolvedOK(resolved') /\ plan' \in Seq(Calls) /\ pc' \in {"idle", "run"}
  BY <1>2, <1>3, <1>15
<1> QED BY <1>8, <1>14, <1>15, <1>16, <1>17, <1>18, Zenon DEF IInv

LEMMA StaysInWork ==
    ASSUME AtEntry, NEW dels, NEW r \in zone, Stays(r), Key(r) \notin Keys(dels)
    PROVE  r \in work /\ r \notin dels
<1>1. r \in work
  BY Zenon DEF AtEntry, IInv, RunOK, WorkOK
<1>2. r \notin dels
  BY InKeys, Zenon
<1> QED BY <1>1, <1>2

LEMMA NoClash ==
    ASSUME AtEntry, NEW k \in 1..(next-1)
    PROVE  ~Clash(Entry, resolved[k])
<1>1. /\ next \in 1..Len(resolved) /\ DOMAIN resolved = 1..Len(resolved)
      /\ Len(resolved) \in Nat /\ Entry = resolved[next]
  BY AtEntryFacts, Zenon
<1>2. k \in DOMAIN resolved /\ next \in DOMAIN resolved /\ k # next
  BY <1>1
<1>3. checkInternalConflicts(resolved)
  BY Zenon DEF AtEntry, IInv, RunOK, CallOK
<1> QED BY <1>1, <1>2, <1>3, Zenon DEF checkInternalConflicts

\* A record that an entry may have found is TXT, or of a custom type.
LEMMA FoundType ==
    ASSUME NEW d, NEW f, Serves(d, f), MayFind(f)
    PROVE  /\ d.name = f.name
           /\ \/ d.type = "TXT" /\ f.type \in {"TXT", "SPFM"}
              \/ d.type = f.type /\ f.type \notin Core
<1>1. d.name = f.name /\ (f.type = "SPFM" => d.type = "TXT") /\ (f.type # "SPFM" => d.type = f.type)
  BY Zenon DEF Serves, IsSPF
<1> QED BY <1>1 DEF MayFind

\* Steps that delete some records and add the entry's.
LEMMA PutRecord ==
    ASSUME AtEntry, Entry.type # "SPFM", NEW dels, dels \subseteq work,
           \A d \in dels : MayDelete(Entry, d),
           \A r \in zone : Stays(r) /\ r \in work /\ r \notin dels =>
              /\ ~Opposed(Record(Entry), r)
              /\ Key(r) # Key(Record(Entry))
              /\ ~Sweeps(Entry, r),
           \A k \in 1..(next-1), d \in dels :
              Serves(d, resolved[k]) /\ MayFind(resolved[k]) => Overlaps(Entry, resolved[k])
    PROVE  Handled(dels, {Record(Entry)})
<1> DEFINE a == Record(Entry)
           adds == {a}
<1>1. Made(a, Entry) /\ Serves(a, Entry)
  BY AtEntryFacts, RecordMade, Zenon
<1> HIDE DEF a
<1>2. \A b \in adds : b = a
  OBVIOUS
<1>3. a \in adds
  OBVIOUS
<1> HIDE DEF adds
<1>4. ASSUME NEW r \in zone, Stays(r), Key(r) \notin Keys(dels)
      PROVE  /\ \A b \in adds : /\ ~Opposed(b, r)
                                /\ Key(b) = Key(r) => IsSPF(r) /\ TwoSPF(zone, r.name)
             /\ ~Sweeps(Entry, r)
  <2>1. r \in work /\ r \notin dels
    BY <1>4, StaysInWork, Zenon
  <2>2. /\ ~Opposed(a, r) /\ Key(r) # Key(a)
        /\ ~Sweeps(Entry, r)
    BY <1>4, <2>1, Zenon DEF a
  <2> QED BY <1>2, <2>2, Zenon
<1>5. Handled(dels, adds)
  BY <1>1, <1>2, <1>3, <1>4, Zenon DEF Handled
<1> QED BY <1>5 DEF adds, a

\* Steps that add the entry's record unless they find it.
LEMMA PutMissing ==
    ASSUME AtEntry, Entry.type \notin Core \/ Entry.type = "TXT", NEW dels, dels \subseteq work,
           \A d \in dels : MayDelete(Entry, d),
           \A k \in 1..(next-1), d \in dels :
              Serves(d, resolved[k]) /\ MayFind(resolved[k]) => Overlaps(Entry, resolved[k])
    PROVE  Handled(dels, Missing(Entry, dels))
<1> DEFINE Found(r) == /\ r.type = Entry.type /\ r.name = Entry.name
                       /\ r.content = Entry.content
                       /\ Key(r) \notin Keys(dels)
           adds == Missing(Entry, dels)
<1>0. /\ Entry.type # "SPFM" /\ MayFind(Entry)
      /\ Entry.type \notin Addresses \cup Redirects \cup {"CNAME", "APEXCNAME"}
  BY DEF MayFind, Core, Addresses, Redirects
<1>1. CASE \E r \in work : Found(r)
  <2>1. adds = {}
    BY <1>1, Zenon DEF Missing
  <2> HIDE DEF adds
  <2>2. PICK r \in work : Found(r)
    BY <1>1, Zenon
  <2>3. Serves(r, Entry) /\ Key(r) \notin Keys(dels)
    BY <1>0, <2>2, Zenon DEF Serves
  <2>4. \A a \in adds : FALSE
    BY <2>1
  <2>5. \A s : ~Sweeps(Entry, s)
    BY <1>0 DEF Sweeps
  <2>6. Handled(dels, adds)
    BY <1>0, <2>2, <2>3, <2>4, <2>5, Zenon DEF Handled
  <2> QED BY <2>6 DEF adds
<1>2. CASE \A r \in work : ~Found(r)
  <2>1. adds = {Record(Entry)}
    BY <1>2, Zenon DEF Missing
  <2>2. /\ Record(Entry).type = Entry.type /\ Record(Entry).name = Entry.name
        /\ Record(Entry).content = Entry.content
    BY <1>0, AtEntryFacts, RecordMade, Zenon
  <2>3. ASSUME NEW r \in zone, Stays(r), r \in work, Key(r) \notin Keys(dels)
        PROVE  Key(r) # Key(Record(Entry))
    <3> SUFFICES ASSUME Key(r) = Key(Record(Entry)) PROVE FALSE
      OBVIOUS
    <3>1. r.type = Entry.type /\ r.name = Entry.name /\ r.content = Entry.content
      BY <2>2, SameKey, Zenon
    <3> QED BY <1>2, <2>3, <3>1, Zenon
  <2>4. \A r : ~Opposed(Record(Entry), r)
    BY <1>0, <2>2 DEF Opposed
  <2> QED
    <3> DEFINE a == Record(Entry)
               one == {a}
    <3>1. Made(a, Entry) /\ Serves(a, Entry)
      BY <1>0, AtEntryFacts, RecordMade, Zenon
    <3>2. \A b \in one : b = a
      OBVIOUS
    <3>3. a \in one
      OBVIOUS
    <3>4. \A r : ~Sweeps(Entry, r)
      BY <1>0 DEF Sweeps
    <3>5. adds = one
      BY <2>1
    <3> HIDE DEF one, adds
    <3>6. ASSUME NEW r \in zone, Stays(r), Key(r) \notin Keys(dels)
          PROVE  r \in work
      BY <3>6, StaysInWork, Zenon
    <3>7. Handled(dels, one)
      BY <2>3, <2>4, <3>1, <3>2, <3>3, <3>4, <3>6, Zenon DEF Handled
    <3> QED BY <3>5, <3>7 DEF adds
<1> QED BY <1>1, <1>2, Zenon

\* A record of the zone that stays was there before the loop added anything.
LEMMA OriginalStays ==
    ASSUME AtEntry, NEW r \in zone, Stays(r)
    PROVE  Original(r)
<1>1. OwnedRecords(req) \subseteq toDelete
  BY Zenon DEF AtEntry, IInv, RunOK, CallOK
<1>2. r \notin toDelete
  BY InKeys, Zenon DEF Stays
<1>3. ~Owned(req, r)
  BY <1>1, <1>2 DEF OwnedRecords
<1>4. r \in {o \in zone : ~Owned(req, o)}
  BY <1>3
<1> QED BY <1>4, InKeys, Zenon DEF Original

LEMMA AddressStep ==
    ASSUME IInv, PutAddress
    PROVE  IInv'
<1> DEFINE dels == At(Entry.name, Addresses \cup {"CNAME", "NS"})
           a == Record(Entry)
<1>1. Entry.type \in Addresses /\ Change(dels, {a})
  BY Zenon DEF PutAddress, Case
<1>2. AtEntry
  BY Zenon DEF PutAddress, Case, AtEntry
<1>3. \A d : d \in dels <=> d \in work /\ d.name = Entry.name /\ d.type \in Addresses \cup {"CNAME", "NS"}
  BY Zenon DEF At
<1>4. dels \subseteq work
  BY <1>3
<1> HIDE DEF dels
<1>5. Entry.type # "SPFM"
  BY <1>1 DEF Addresses, Redirects
<1>6. a.type = Entry.type /\ a.name = Entry.name
  BY <1>2, <1>5, AtEntryFacts, RecordMade, Zenon
<1> HIDE DEF a
<1>7. \A d \in dels : MayDelete(Entry, d)
  BY <1>1, <1>3 DEF MayDelete, Addresses, Redirects
<1>8. ASSUME NEW r \in zone, Stays(r), r \in work, r \notin dels
      PROVE  /\ ~Opposed(a, r)
             /\ Key(r) # Key(a)
             /\ ~Sweeps(Entry, r)
  <2>1. Key(r) = Key(a) => r.type = Entry.type /\ r.name = Entry.name
    BY <1>6, SameKey, Zenon
  <2> QED BY <1>1, <1>3, <1>6, <1>8, <2>1 DEF Opposed, Sweeps, Addresses, Redirects
<1>9. ASSUME NEW k \in 1..(next-1), NEW d \in dels, Serves(d, resolved[k]), MayFind(resolved[k])
      PROVE  Overlaps(Entry, resolved[k])
  <2>1. d.type = "TXT" \/ d.type \notin Core
    BY <1>9, FoundType, Zenon
  <2> QED BY <1>3, <2>1 DEF Core, Addresses, Redirects
<1>10. Handled(dels, {a})
  BY <1>2, <1>4, <1>5, <1>7, <1>8, <1>9, PutRecord, Zenon DEF a
<1> QED BY <1>1, <1>2, <1>10, ChangeStep

LEMMA MXStep ==
    ASSUME IInv, PutMX
    PROVE  IInv'
<1> DEFINE dels == At(Entry.name, {"MX"})
           a == Record(Entry)
<1>1. Entry.type \in {"MX"} /\ Change(dels, {a})
  BY Zenon DEF PutMX, Case
<1>2. AtEntry
  BY Zenon DEF PutMX, Case, AtEntry
<1>3. \A d : d \in dels <=> d \in work /\ d.name = Entry.name /\ d.type \in {"MX"}
  BY Zenon DEF At
<1>4. dels \subseteq work
  BY <1>3
<1> HIDE DEF dels
<1>5. Entry.type # "SPFM"
  BY <1>1 DEF Addresses, Redirects
<1>6. a.type = Entry.type /\ a.name = Entry.name
  BY <1>2, <1>5, AtEntryFacts, RecordMade, Zenon
<1> HIDE DEF a
<1>7. \A d \in dels : MayDelete(Entry, d)
  BY <1>1, <1>3 DEF MayDelete, Addresses, Redirects
<1>8. ASSUME NEW r \in zone, Stays(r), r \in work, r \notin dels
      PROVE  /\ ~Opposed(a, r)
             /\ Key(r) # Key(a)
             /\ ~Sweeps(Entry, r)
  <2>1. Key(r) = Key(a) => r.type = Entry.type /\ r.name = Entry.name
    BY <1>6, SameKey, Zenon
  <2> QED BY <1>1, <1>3, <1>6, <1>8, <2>1 DEF Opposed, Sweeps, Addresses, Redirects
<1>9. ASSUME NEW k \in 1..(next-1), NEW d \in dels, Serves(d, resolved[k]), MayFind(resolved[k])
      PROVE  Overlaps(Entry, resolved[k])
  <2>1. d.type = "TXT" \/ d.type \notin Core
    BY <1>9, FoundType, Zenon
  <2> QED BY <1>3, <2>1 DEF Core, Addresses, Redirects
<1>10. Handled(dels, {a})
  BY <1>2, <1>4, <1>5, <1>7, <1>8, <1>9, PutRecord, Zenon DEF a
<1> QED BY <1>1, <1>2, <1>10, ChangeStep

LEMMA RedirectStep ==
    ASSUME IInv, PutRedirect
    PROVE  IInv'
<1> DEFINE dels == At(Entry.name, Addresses \cup Redirects \cup {"CNAME"})
           a == Record(Entry)
<1>1. Entry.type \in Redirects /\ Change(dels, {a})
  BY Zenon DEF PutRedirect, Case
<1>2. AtEntry
  BY Zenon DEF PutRedirect, Case, AtEntry
<1>3. \A d : d \in dels <=> d \in work /\ d.name = Entry.name /\ d.type \in Addresses \cup Redirects \cup {"CNAME"}
  BY Zenon DEF At
<1>4. dels \subseteq work
  BY <1>3
<1> HIDE DEF dels
<1>5. Entry.type # "SPFM"
  BY <1>1 DEF Addresses, Redirects
<1>6. a.type = Entry.type /\ a.name = Entry.name
  BY <1>2, <1>5, AtEntryFacts, RecordMade, Zenon
<1> HIDE DEF a
<1>7. \A d \in dels : MayDelete(Entry, d)
  BY <1>1, <1>3 DEF MayDelete, Addresses, Redirects
<1>8. ASSUME NEW r \in zone, Stays(r), r \in work, r \notin dels
      PROVE  /\ ~Opposed(a, r)
             /\ Key(r) # Key(a)
             /\ ~Sweeps(Entry, r)
  <2>1. Key(r) = Key(a) => r.type = Entry.type /\ r.name = Entry.name
    BY <1>6, SameKey, Zenon
  <2> QED BY <1>1, <1>3, <1>6, <1>8, <2>1 DEF Opposed, Sweeps, Addresses, Redirects
<1>9. ASSUME NEW k \in 1..(next-1), NEW d \in dels, Serves(d, resolved[k]), MayFind(resolved[k])
      PROVE  Overlaps(Entry, resolved[k])
  <2>1. d.type = "TXT" \/ d.type \notin Core
    BY <1>9, FoundType, Zenon
  <2> QED BY <1>3, <2>1 DEF Core, Addresses, Redirects
<1>10. Handled(dels, {a})
  BY <1>2, <1>4, <1>5, <1>7, <1>8, <1>9, PutRecord, Zenon DEF a
<1> QED BY <1>1, <1>2, <1>10, ChangeStep

LEMMA CNAMEStep ==
    ASSUME IInv, PutCNAME
    PROVE  IInv'
<1> DEFINE dels == {r \in work : r.name = Entry.name /\ r.type # "NS"}
           a == Record(Entry)
<1>1. Entry.type \in {"CNAME"} /\ Change(dels, {a})
  BY Zenon DEF PutCNAME, Case
<1>2. AtEntry
  BY Zenon DEF PutCNAME, Case, AtEntry
<1>3. \A d : d \in dels <=> d \in work /\ d.name = Entry.name /\ d.type # "NS"
  BY Zenon DEF At
<1>4. dels \subseteq work
  BY <1>3
<1> HIDE DEF dels
<1>5. Entry.type # "SPFM"
  BY <1>1 DEF Addresses, Redirects
<1>6. a.type = Entry.type /\ a.name = Entry.name
  BY <1>2, <1>5, AtEntryFacts, RecordMade, Zenon
<1> HIDE DEF a
<1>7. \A d \in dels : MayDelete(Entry, d)
  BY <1>1, <1>3 DEF MayDelete, Addresses, Redirects
<1>8. ASSUME NEW r \in zone, Stays(r), r \in work, r \notin dels
      PROVE  /\ ~Opposed(a, r)
             /\ Key(r) # Key(a)
             /\ ~Sweeps(Entry, r)
  <2>1. Key(r) = Key(a) => r.type = Entry.type /\ r.name = Entry.name
    BY <1>6, SameKey, Zenon
  <2> QED BY <1>1, <1>3, <1>6, <1>8, <2>1 DEF Opposed, Sweeps, Addresses, Redirects
<1>9. ASSUME NEW k \in 1..(next-1), NEW d \in dels, Serves(d, resolved[k]), MayFind(resolved[k])
      PROVE  Overlaps(Entry, resolved[k])
  <2> DEFINE f == resolved[k]
  <2>1. /\ d.name = f.name
        /\ \/ d.type = "TXT" /\ f.type \in {"TXT", "SPFM"}
           \/ d.type = f.type /\ f.type \notin Core
    BY <1>9, FoundType, Zenon
  <2>2. ~Clash(Entry, f)
    BY <1>2, NoClash, Zenon
  <2> HIDE DEF f
  <2>3. Overlaps(Entry, f)
    <3>1. f.type \notin Core => Other(f.type)
      BY DEF Other, Core, Addresses, Redirects
    <3>2. f.type \in {"TXT", "SPFM"} \/ f.type \notin Core
      BY <2>1
    <3>3. f.type # "NS"
      BY <2>1 DEF Core
    <3> QED BY <1>1, <1>3, <2>1, <2>2, <3>1, <3>2, <3>3 DEF Clash, Overlaps
  <2> QED BY <2>3 DEF f
<1>10. Handled(dels, {a})
  BY <1>2, <1>4, <1>5, <1>7, <1>8, <1>9, PutRecord, Zenon DEF a
<1> QED BY <1>1, <1>2, <1>10, ChangeStep

LEMMA SRVStep ==
    ASSUME IInv, PutSRV
    PROVE  IInv'
<1> DEFINE dels == {r \in At(Entry.name, {"SRV"}) : Original(r)}
           a == Record(Entry)
<1>1. Entry.type \in {"SRV"} /\ Change(dels, {a})
  BY Zenon DEF PutSRV, Case
<1>2. AtEntry
  BY Zenon DEF PutSRV, Case, AtEntry
<1>3. \A d : d \in dels <=> d \in work /\ d.name = Entry.name /\ d.type = "SRV" /\ Original(d)
  BY Zenon DEF At
<1>4. dels \subseteq work
  BY <1>3
<1> HIDE DEF dels
<1>5. Entry.type # "SPFM"
  BY <1>1 DEF Addresses, Redirects
<1>6. a.type = Entry.type /\ a.name = Entry.name
  BY <1>2, <1>5, AtEntryFacts, RecordMade, Zenon
<1> HIDE DEF a
<1>7. \A d \in dels : MayDelete(Entry, d)
  BY <1>1, <1>3 DEF MayDelete, Addresses, Redirects
<1>8. ASSUME NEW r \in zone, Stays(r), r \in work, r \notin dels
      PROVE  /\ ~Opposed(a, r)
             /\ Key(r) # Key(a)
             /\ ~Sweeps(Entry, r)
  <2>1. Key(r) = Key(a) => r.type = Entry.type /\ r.name = Entry.name
    BY <1>6, SameKey, Zenon
  <2>2. Key(r) # Key(a)
    <3> SUFFICES ASSUME Key(r) = Key(a) PROVE FALSE
      OBVIOUS
    <3>1. Original(r)
      BY <1>2, <1>8, OriginalStays, Zenon
    <3> QED BY <1>1, <1>3, <1>8, <2>1, <3>1
  <2> QED BY <1>1, <1>6, <2>2 DEF Opposed, Sweeps, Addresses, Redirects
<1>9. ASSUME NEW k \in 1..(next-1), NEW d \in dels, Serves(d, resolved[k]), MayFind(resolved[k])
      PROVE  Overlaps(Entry, resolved[k])
  <2>1. d.type = "TXT" \/ d.type \notin Core
    BY <1>9, FoundType, Zenon
  <2> QED BY <1>3, <2>1 DEF Core, Addresses, Redirects
<1>10. Handled(dels, {a})
  BY <1>2, <1>4, <1>5, <1>7, <1>8, <1>9, PutRecord, Zenon DEF a
<1> QED BY <1>1, <1>2, <1>10, ChangeStep

LEMMA NSStep ==
    ASSUME IInv, PutNS
    PROVE  IInv'
<1> DEFINE dels == {r \in work :
                      IF r.type = "NS" THEN r.name = Entry.name /\ Original(r)
                      ELSE r.name = Entry.name \/ isChildOf(r.name, Entry.name)}
           a == Record(Entry)
<1>1. Entry.type \in {"NS"} /\ Change(dels, {a})
  BY Zenon DEF PutNS, Case
<1>2. AtEntry
  BY Zenon DEF PutNS, Case, AtEntry
<1>3. \A d : d \in dels <=> d \in work /\ (IF d.type = "NS" THEN d.name = Entry.name /\ Original(d)
                      ELSE d.name = Entry.name \/ isChildOf(d.name, Entry.name))
  BY Zenon DEF At
<1>4. dels \subseteq work
  BY <1>3
<1> HIDE DEF dels
<1>5. Entry.type # "SPFM"
  BY <1>1 DEF Addresses, Redirects
<1>6. a.type = Entry.type /\ a.name = Entry.name
  BY <1>2, <1>5, AtEntryFacts, RecordMade, Zenon
<1> HIDE DEF a
<1>7. \A d \in dels : MayDelete(Entry, d)
  BY <1>1, <1>3 DEF MayDelete, Addresses, Redirects
<1>8. ASSUME NEW r \in zone, Stays(r), r \in work, r \notin dels
      PROVE  /\ ~Opposed(a, r)
             /\ Key(r) # Key(a)
             /\ ~Sweeps(Entry, r)
  <2>1. Key(r) = Key(a) => r.type = Entry.type /\ r.name = Entry.name
    BY <1>6, SameKey, Zenon
  <2>2. Key(r) # Key(a)
    <3> SUFFICES ASSUME Key(r) = Key(a) PROVE FALSE
      OBVIOUS
    <3>1. Original(r)
      BY <1>2, <1>8, OriginalStays, Zenon
    <3> QED BY <1>1, <1>3, <1>8, <2>1, <3>1
  <2> QED BY <1>1, <1>6, <2>2 DEF Opposed, Sweeps, Addresses, Redirects
<1>9. ASSUME NEW k \in 1..(next-1), NEW d \in dels, Serves(d, resolved[k]), MayFind(resolved[k])
      PROVE  Overlaps(Entry, resolved[k])
  <2> DEFINE f == resolved[k]
  <2>1. /\ d.name = f.name
        /\ \/ d.type = "TXT" /\ f.type \in {"TXT", "SPFM"}
           \/ d.type = f.type /\ f.type \notin Core
    BY <1>9, FoundType, Zenon
  <2>2. ~Clash(Entry, f)
    BY <1>2, NoClash, Zenon
  <2> HIDE DEF f
  <2>3. Overlaps(Entry, f)
    <3>1. f.type \notin Core => Other(f.type)
      BY DEF Other, Core, Addresses, Redirects
    <3>2. f.type \in {"TXT", "SPFM"} \/ f.type \notin Core
      BY <2>1
    <3>3. f.type # "NS"
      BY <2>1 DEF Core
    <3> QED BY <1>1, <1>3, <2>1, <2>2, <3>1, <3>2, <3>3 DEF Clash, Overlaps
  <2> QED BY <2>3 DEF f
<1>10. Handled(dels, {a})
  BY <1>2, <1>4, <1>5, <1>7, <1>8, <1>9, PutRecord, Zenon DEF a
<1> QED BY <1>1, <1>2, <1>10, ChangeStep

LEMMA ApexCNAMEStep ==
    ASSUME IInv, PutApexCNAME
    PROVE  IInv'
<1> DEFINE dels == {r \in work : r.name = <<>> /\ r.type # "NS"}
           a == Record(Entry)
<1>1. Entry.type \in {"APEXCNAME"} /\ Change(dels, {a})
  BY Zenon DEF PutApexCNAME, Case
<1>2. AtEntry
  BY Zenon DEF PutApexCNAME, Case, AtEntry
<1>3. \A d : d \in dels <=> d \in work /\ d.name = <<>> /\ d.type # "NS"
  BY Zenon DEF At
<1>4. dels \subseteq work
  BY <1>3
<1> HIDE DEF dels
<1>5. Entry.type # "SPFM"
  BY <1>1 DEF Addresses, Redirects
<1>6. a.type = Entry.type /\ a.name = Entry.name
  BY <1>2, <1>5, AtEntryFacts, RecordMade, Zenon
<1> HIDE DEF a
<1>7. Entry.name = <<>>
  <2>1. ResolvedOK(resolved) /\ ~Entry.backing
    BY Zenon DEF IInv, PutApexCNAME, Case
  <2>2. next \in 1..Len(resolved) /\ Entry = resolved[next]
    BY <1>2, AtEntryFacts, Zenon
  <2>3. \A k \in 1..Len(resolved) :
           ~resolved[k].backing /\ resolved[k].type = "APEXCNAME" => resolved[k].name = <<>>
    BY <2>1, Zenon DEF ResolvedOK
  <2>4. Entry.type = "APEXCNAME"
    BY <1>1
  <2> QED BY <2>1, <2>2, <2>3, <2>4, Zenon
<1>8. \A d \in dels : MayDelete(Entry, d)
  BY <1>1, <1>3, <1>7 DEF MayDelete, Addresses, Redirects
<1>9. ASSUME NEW r \in zone, Stays(r), r \in work, r \notin dels
      PROVE  /\ ~Opposed(a, r)
             /\ Key(r) # Key(a)
             /\ ~Sweeps(Entry, r)
  <2>1. Key(r) = Key(a) => r.type = Entry.type /\ r.name = Entry.name
    BY <1>6, SameKey, Zenon
  <2> QED BY <1>1, <1>3, <1>6, <1>7, <1>9, <2>1 DEF Opposed, Sweeps, Addresses, Redirects
<1>10. ASSUME NEW k \in 1..(next-1), NEW d \in dels, Serves(d, resolved[k]), MayFind(resolved[k])
      PROVE  Overlaps(Entry, resolved[k])
  <2>1. d.name = resolved[k].name
    BY <1>10, FoundType, Zenon
  <2>2. MayFind(resolved[k])
    BY <1>10
  <2>3. Entry.type = "APEXCNAME" /\ d.name = <<>>
    BY <1>1, <1>3
  <2> QED BY <2>1, <2>2, <2>3, Zenon DEF Overlaps, MayFind
<1>11. Handled(dels, {a})
  BY <1>2, <1>4, <1>5, <1>8, <1>9, <1>10, PutRecord, Zenon DEF a
<1> QED BY <1>1, <1>2, <1>11, ChangeStep

LEMMA BackingStep ==
    ASSUME IInv, AddBacking
    PROVE  IInv'
<1> DEFINE a == Record(Entry)
<1>1. AtEntry /\ Change({}, {a}) /\ Entry.backing
  BY Zenon DEF AddBacking, AtEntry
<1>2. Backs(resolved, next)
  <2>1. ResolvedOK(resolved) /\ next \in 1..Len(resolved) /\ Entry = resolved[next]
    BY <1>1, AtEntryFacts, Zenon DEF AtEntry, IInv
  <2> QED BY <1>1, <2>1, Zenon DEF ResolvedOK
<1>3. Entry.type \in Addresses
  BY <1>1, <1>2, AtEntryFacts, Zenon DEF Backs
<1>4. PICK j \in 1..(next-1) : resolved[j].type \in Redirects /\ resolved[j].name = Entry.name
  BY <1>1, <1>2, AtEntryFacts, Zenon DEF Backs
<1>5. Entry.type \notin Redirects \cup {"SPFM", "CNAME", "APEXCNAME"}
  BY <1>3 DEF Addresses, Redirects
<1>6. a.type = Entry.type /\ a.name = Entry.name
  BY <1>1, <1>5, AtEntryFacts, RecordMade, Zenon
<1> HIDE DEF a
<1>7. ASSUME NEW r \in zone, Stays(r), r \in work, r \notin {}
      PROVE  /\ ~Opposed(a, r)
             /\ Key(r) # Key(a)
             /\ ~Sweeps(Entry, r)
  <2>1. ApartOK
    BY Zenon DEF IInv, RunOK, AddBacking
  <2>2. ~(r.name = Entry.name /\ r.type \in Addresses \cup {"CNAME"})
    BY <1>4, <1>7, <2>1, Zenon DEF ApartOK, Sweeps
  <2>3. Key(r) = Key(a) => r.type = Entry.type /\ r.name = Entry.name
    BY <1>6, SameKey, Zenon
  <2> QED BY <1>3, <1>5, <1>6, <2>2, <2>3 DEF Opposed, Sweeps
<1>8. Handled({}, {a})
  <2> DEFINE none == {}
  <2>1. none \subseteq work /\ \A d : d \notin none
    OBVIOUS
  <2>2. \A r \in zone : Stays(r) /\ r \in work /\ r \notin none =>
              /\ ~Opposed(a, r)
              /\ Key(r) # Key(a)
              /\ ~Sweeps(Entry, r)
    BY <1>7
  <2> HIDE DEF none
  <2>3. Handled(none, {a})
    BY <1>1, <1>5, <2>1, <2>2, PutRecord, Zenon DEF a
  <2> QED BY <2>3 DEF none
<1> QED BY <1>1, <1>8, ChangeStep

LEMMA TXTStep ==
    ASSUME IInv, PutTXT
    PROVE  IInv'
<1> DEFINE dels == TXTConflicts(Entry)
<1>1. AtEntry /\ Entry.type \in {"TXT"} /\ Change(dels, Missing(Entry, dels))
  BY Zenon DEF PutTXT, Case, AtEntry
<1>2. \A d \in dels : /\ d \in work /\ d.name = Entry.name
                     /\ \/ d.type = "CNAME"
                        \/ d.type = "TXT" /\ Entry.mode \in {"All", "Prefix"}
  BY DEF TXTConflicts, At
<1> HIDE DEF dels
<1>3. \A d \in dels : MayDelete(Entry, d)
  BY <1>1, <1>2 DEF MayDelete
<1>4. ASSUME NEW k \in 1..(next-1), NEW d \in dels, Serves(d, resolved[k]), MayFind(resolved[k])
      PROVE  Overlaps(Entry, resolved[k])
  <2> DEFINE f == resolved[k]
  <2>1. /\ d.name = f.name
        /\ \/ d.type = "TXT" /\ f.type \in {"TXT", "SPFM"}
           \/ d.type = f.type /\ f.type \notin Core
    BY <1>4, FoundType, Zenon
  <2> HIDE DEF f
  <2>2. Overlaps(Entry, f)
    BY <1>1, <1>2, <2>1 DEF Overlaps, Core
  <2> QED BY <2>2 DEF f
<1>5. Entry.type = "TXT" /\ dels \subseteq work
  BY <1>1, <1>2
<1>6. Handled(dels, Missing(Entry, dels))
  BY <1>1, <1>3, <1>4, <1>5, PutMissing, Zenon
<1> QED BY <1>1, <1>6, ChangeStep

LEMMA CustomStep ==
    ASSUME IInv, PutCustom
    PROVE  IInv'
<1> DEFINE none == {}
<1>1. AtEntry /\ Entry.type \notin Core /\ Change(none, Missing(Entry, none))
  BY Zenon DEF PutCustom, AtEntry
<1>2. none \subseteq work /\ \A d : d \notin none
  OBVIOUS
<1> HIDE DEF none
<1>3. Handled(none, Missing(Entry, none))
  BY <1>1, <1>2, PutMissing, Zenon
<1> QED BY <1>1, <1>3, ChangeStep

\* The record that processSPFM takes: of the zone, if it can be.
LEMMA ExistingFacts ==
    /\ \A r \in ExistingSPF : r \in work /\ r.name = Entry.name /\ IsSPF(r)
    /\ \A s \in work : s.name = Entry.name /\ IsSPF(s) =>
          /\ ExistingSPF # {}
          /\ s \in zone => ExistingSPF \subseteq zone
<1> DEFINE spf == {r \in work : r.name = Entry.name /\ IsSPF(r)}
<1>1. ExistingSPF = IF \E r \in spf : r \in zone THEN spf \cap zone ELSE spf
  BY Zenon DEF ExistingSPF
<1>2. \A r : r \in spf <=> r \in work /\ r.name = Entry.name /\ IsSPF(r)
  OBVIOUS
<1> HIDE DEF spf
<1>3. CASE \E r \in spf : r \in zone
  BY <1>1, <1>2, <1>3
<1>4. CASE ~(\E r \in spf : r \in zone)
  BY <1>1, <1>2, <1>4
<1> QED BY <1>3, <1>4

LEMMA SPFMStep ==
    ASSUME IInv, MergeSPFM
    PROVE  IInv'
<1>1. /\ AtEntry /\ Entry.type \in {"SPFM"}
      /\ IF ExistingSPF = {}
           THEN Change({}, {NewSPF(Entry)})
           ELSE \E r \in ExistingSPF :
                  IF ContainsText(r.content, Entry.content)
                    THEN Change({}, {})
                    ELSE Change({r}, {MergedRecord(r, Entry.content)})
  BY Zenon DEF MergeSPFM, Case, AtEntry
<1>2. /\ Entry \in ResolvedEntry /\ Entry.type = "SPFM" /\ MayFind(Entry)
      /\ \A r : ~Sweeps(Entry, r)
  BY <1>1, AtEntryFacts DEF Redirects, MayFind, Sweeps
<1>3. work \subseteq Records
  BY <1>1, Zenon DEF AtEntry, IInv, RunOK, CallOK
<1> DEFINE none == {}
<1>4. none \subseteq work /\ \A d : d \notin none
  OBVIOUS
<1>5. none = {}
  OBVIOUS
<1> HIDE DEF none
<1>6. CASE ExistingSPF = {}
  <2> DEFINE a == NewSPF(Entry)
             adds == {a}
  <2>1. Change(none, adds)
    BY <1>1, <1>5, <1>6, Zenon
  <2>2. Made(a, Entry) /\ Serves(a, Entry)
    BY <1>2, NewSPFMade, Zenon
  <2> HIDE DEF a
  <2>3. a \in adds /\ \A b \in adds : b = a
    OBVIOUS
  <2> HIDE DEF adds
  <2>4. IsSPF(a) /\ a.name = Entry.name /\ a.type = "TXT"
    BY <1>2, <2>2, Zenon DEF Made, Serves, IsSPF
  <2>5. ASSUME NEW r \in zone, Stays(r), Key(r) \notin Keys(none)
        PROVE  ~Opposed(a, r) /\ Key(a) # Key(r)
    <3>1. r \in work
      BY <1>1, <2>5, StaysInWork, Zenon
    <3>2. ~(r.name = Entry.name /\ IsSPF(r))
      BY <1>6, <3>1, ExistingFacts, Zenon
    <3>3. Key(a) # Key(r)
      <4> SUFFICES ASSUME Key(a) = Key(r) PROVE FALSE
        OBVIOUS
      <4>1. r.name = a.name /\ (IsSPF(a) <=> IsSPF(r))
        BY SameKey, SameSPF, Zenon
      <4> QED BY <2>4, <3>2, <4>1, Zenon
    <3> QED BY <2>4, <3>3 DEF Opposed, Addresses
  <2>6. Handled(none, adds)
    BY <1>2, <1>4, <2>2, <2>3, <2>5, Zenon DEF Handled
  <2> QED BY <1>1, <2>1, <2>6, ChangeStep, Zenon
<1>7. ASSUME NEW r \in ExistingSPF, ContainsText(r.content, Entry.content), Change({}, {})
      PROVE  IInv'
  <2>1. r \in work /\ Serves(r, Entry)
    BY <1>2, <1>7, ExistingFacts, Zenon DEF Serves
  <2>2. Key(r) \notin Keys(none)
    BY <1>4, InKeys, Zenon
  <2>3. Handled(none, none)
    BY <1>2, <1>4, <2>1, <2>2, Zenon DEF Handled
  <2> QED BY <1>1, <1>5, <1>7, <2>3, ChangeStep, Zenon
<1>8. ASSUME NEW r \in ExistingSPF, Change({r}, {MergedRecord(r, Entry.content)})
      PROVE  IInv'
  <2> DEFINE a == MergedRecord(r, Entry.content)
             dels == {r}
             adds == {a}
  <2>1. r \in work /\ r.name = Entry.name /\ IsSPF(r) /\ r \in Records
    BY <1>3, <1>8, ExistingFacts
  <2>2. /\ Made(a, Entry) /\ Serves(a, Entry)
        /\ \A f \in ResolvedEntry :
              Serves(r, f) /\ MayFind(f) /\ ~Overlaps(Entry, f) => Serves(a, f)
    BY <1>2, <2>1, MergedMade, Zenon
  <2> HIDE DEF a
  <2>3. /\ a \in adds /\ \A b \in adds : b = a
        /\ r \in dels /\ \A d \in dels : d = r
    OBVIOUS
  <2> HIDE DEF adds, dels
  <2>4. IsSPF(a) /\ a.name = Entry.name /\ a.type = "TXT"
    BY <1>2, <2>2, Zenon DEF Made, Serves, IsSPF
  <2>5. ASSUME NEW s \in zone, Stays(s), Key(s) \notin Keys(dels)
        PROVE  ~Opposed(a, s) /\ (Key(a) = Key(s) => IsSPF(s) /\ TwoSPF(zone, s.name))
    <3>1. s \in work /\ s \notin dels
      BY <1>1, <2>5, StaysInWork, Zenon
    <3>2. ~Opposed(a, s)
      BY <2>4 DEF Opposed, Addresses
    <3>3. ASSUME Key(a) = Key(s) PROVE IsSPF(s) /\ TwoSPF(zone, s.name)
      <4>1. s.name = Entry.name /\ IsSPF(s)
        BY <2>4, <3>3, SameKey, SameSPF, Zenon
      <4>2. r \in zone
        BY <1>8, <2>5, <3>1, <4>1, ExistingFacts
      <4>3. r # s
        BY <2>3, <3>1
      <4> QED BY <2>1, <2>5, <4>1, <4>2, <4>3, Zenon DEF TwoSPF
    <3> QED BY <3>2, <3>3
  <2>6. MayDelete(Entry, r)
    <3>1. r.type = "TXT"
      BY <2>1 DEF IsSPF, SpellsSPF
    <3> QED BY <1>2, <2>1, <3>1 DEF MayDelete
  <2>7. dels \subseteq work
    BY <2>1, <2>3
  <2>8. ASSUME NEW k \in 1..(next-1), NEW d \in dels,
               Serves(d, resolved[k]), MayFind(resolved[k]), ~Overlaps(Entry, resolved[k])
        PROVE  Serves(a, resolved[k])
    <3>1. k \in 1..Len(resolved)
      <4>1. next \in 1..Len(resolved) /\ Len(resolved) \in Nat
        BY <1>1, AtEntryFacts, Zenon
      <4> QED BY <4>1
    <3>2. resolved[k] \in ResolvedEntry
      BY <1>1, <3>1, AtEntryFacts, Zenon
    <3> QED BY <2>2, <2>3, <2>8, <3>2, Zenon
  <2>9. Handled(dels, adds)
    BY <1>2, <2>2, <2>3, <2>5, <2>6, <2>7, <2>8, Zenon DEF Handled
  <2>10. Change(dels, adds)
    BY <1>8 DEF dels, adds, a
  <2> QED BY <1>1, <2>9, <2>10, ChangeStep, Zenon
<1> QED BY <1>1, <1>6, <1>7, <1>8, Zenon

-----------------------------------------------------------------------------
(* The start and the end of a call.                                         *)

LEMMA InitOK == Init => IInv
<1> SUFFICES ASSUME Init PROVE IInv
  OBVIOUS
<1>1. /\ zone \in InitZones /\ plan \in Plans /\ pc = "idle" /\ resolved = <<>> /\ next = 1
      /\ work = {} /\ toAdd = {} /\ toDelete = {} /\ essentialAlways = {}
      /\ before.zone = zone /\ before.ok = FALSE
  BY DEF Init
<1>2. /\ zone \subseteq Records /\ NoTwins(zone) /\ plan \in Seq(Calls)
      /\ \A r, s \in zone : ~Aliasing(r, s)
  <2>1. \A z \in InitZones : z \subseteq Records /\ NoTwins(z) /\ \A r, s \in z : ~Aliasing(r, s)
    BY TemplateAssumption, Zenon
  <2>2. Plans \subseteq Seq(Calls)
    BY TemplateAssumption, Zenon
  <2>3. plan \in Seq(Calls)
    BY <1>1, <2>2
  <2> QED BY <1>1, <2>1, <2>3, Zenon
<1>3. ZoneOK
  BY <1>1, <1>2, Zenon DEF ZoneOK, NoTwins
<1>4. ~Done /\ pc # "run" /\ pc \in {"idle", "run"}
  BY <1>1 DEF Done
<1>5. Installed /\ Spared /\ ServiceReplaced /\ AliasReplaces
  BY <1>4, Zenon DEF Installed, Spared, ServiceReplaced, AliasReplaces
<1>6. ResolvedOK(resolved) /\ next \in 1..(Len(resolved) + 1)
  BY <1>1, NothingOK
<1> QED BY <1>1, <1>2, <1>3, <1>4, <1>5, <1>6, Zenon DEF IInv

\* A call with its id is a call.
LEMMA IdentifiedCalls ==
    ASSUME NEW p \in Calls, NEW q \in Identified(p)
    PROVE  q \in Calls
<1>1. PICK id \in Texts : q = [p EXCEPT !.id = id]
  <2>1. Drawn \subseteq Texts
    BY TemplateAssumption, Zenon
  <2>2. p.id \in Texts
    BY DEF Calls
  <2> QED BY <2>1, <2>2 DEF Identified
<1> QED BY <1>1 DEF Calls

LEMMA StartStep ==
    ASSUME IInv, Start
    PROVE  IInv'
<1>0. PICK q \in Identified(Head(plan)) :
         /\ Accepted(q) /\ req' = q /\ resolved' = Resolve(q)
         /\ toDelete' = OwnedRecords(q) /\ work' = zone \ OwnedRecords(q)
         /\ essentialAlways' = Candidates(q)
  BY Zenon DEF Start
<1>1. /\ plan # <<>> /\ Accepted(q)
      /\ pc' = "run" /\ req' = q /\ plan' = Tail(plan)
      /\ resolved' = Resolve(q) /\ next' = 1
      /\ toDelete' = OwnedRecords(q) /\ work' = zone \ OwnedRecords(q)
      /\ essentialAlways' = Candidates(q) /\ toAdd' = {}
      /\ zone' = zone /\ before' = before
  BY <1>0, Zenon DEF Start
<1>2. ZoneOK /\ plan \in Seq(Calls)
  BY Zenon DEF IInv
<1>3. q \in Calls /\ plan' \in Seq(Calls)
  <2>1. Head(plan) \in Calls /\ Tail(plan) \in Seq(Calls)
    BY <1>1, <1>2
  <2>2. q \in Calls
    BY <1>0, <2>1, IdentifiedCalls, Zenon
  <2> QED BY <1>1, <2>1, <2>2
<1>4. ResolvedOK(resolved') /\ checkInternalConflicts(resolved')
  BY <1>1, <1>3, ResolveOK, Zenon DEF Accepted
<1>5. next' \in 1..(Len(resolved') + 1) /\ 1..(next'-1) = {}
  <2>1. Len(resolved') \in Nat
    <3>1. resolved' \in Seq(ResolvedEntry)
      BY <1>4, Zenon DEF ResolvedOK
    <3> QED BY <3>1
  <2> QED BY <1>1, <2>1
<1>6. OwnedRecords(q) \subseteq zone /\ \A d \in OwnedRecords(q) : Owned(q, d)
  BY DEF OwnedRecords
<1>7. OwnedRecords(req)' = OwnedRecords(q) /\ Candidates(req)' = Candidates(q)
  BY <1>1, Zenon DEF OwnedRecords, Candidates
<1>8. CallOK'
  <2>1. zone \subseteq Records
    BY <1>2, Zenon DEF ZoneOK
  <2>2. work' \subseteq Records /\ toDelete' \subseteq Records
    BY <1>1, <1>6, <2>1
  <2>3. OwnedRecords(req)' \subseteq toDelete'
    BY <1>1, <1>7
  <2> QED BY <1>1, <1>3, <1>4, <1>7, <2>2, <2>3, Zenon DEF CallOK
<1>9. WorkOK'
  <2>1. ASSUME NEW r \in zone', Stays(r)' PROVE r \in work'
    <3>1. Key(r) \notin Keys(OwnedRecords(q))
      BY <1>1, <2>1, Zenon DEF Stays
    <3>2. r \notin OwnedRecords(q)
      BY <3>1, InKeys, Zenon
    <3> QED BY <1>1, <3>2
  <2>2. ASSUME NEW r \in work', NoTwins(zone') PROVE r \in zone' /\ Stays(r)'
    <3>1. r \in zone /\ r \notin OwnedRecords(q)
      BY <1>1, <2>2
    <3>2. Key(r) \notin Keys(OwnedRecords(q))
      BY <1>1, <1>6, <2>2, <3>1, InKeys DEF NoTwins
    <3> QED BY <1>1, <3>1, <3>2, Zenon DEF Stays
  <2>3. \A r \in work' : r \in zone'
    BY <1>1
  <2> QED BY <2>1, <2>2, <2>3, Zenon DEF WorkOK
<1>10. ListsOK'
  <2>1. \A a : a \notin toAdd'
    BY <1>1
  <2> QED BY <1>1, <1>6, <2>1 DEF ListsOK
<1>11. ApartOK' /\ GoodOK'
  <2>1. \A a : a \notin toAdd'
    BY <1>1
  <2>2. \A k : k \notin 1..(next'-1)
    BY <1>5
  <2> QED BY <2>1, <2>2, Zenon DEF ApartOK, GoodOK
<1>12. ZoneOK'
  BY <1>1, <1>2, Zenon DEF ZoneOK
<1>13. pc' # "idle" /\ pc' \in {"idle", "run"} /\ ~Done'
  BY <1>1 DEF Done
<1>14. Installed' /\ Spared' /\ ServiceReplaced' /\ AliasReplaces'
  BY <1>13, Zenon DEF Installed, Spared, ServiceReplaced, AliasReplaces
<1> QED BY <1>3, <1>4, <1>5, <1>8, <1>9, <1>10, <1>11, <1>12, <1>13, <1>14, Zenon DEF IInv, RunOK

\* Two records of a zone with the same key are SPF records.
LEMMA TwinsAreSPF ==
    ASSUME ZoneOK, NEW r \in zone, NEW s \in zone, Key(r) = Key(s), r # s
    PROVE  IsSPF(r) /\ IsSPF(s) /\ TwoSPF(zone, r.name)
<1>1. IsSPF(r) /\ IsSPF(s) /\ r.name = s.name
  BY SameSPF, SameKey, Zenon DEF ZoneOK
<1> QED BY <1>1, Zenon DEF TwoSPF

LEMMA RejectStep ==
    ASSUME IInv, Reject
    PROVE  IInv'
<1>1. /\ pc = "idle" /\ plan # <<>> /\ plan' = Tail(plan)
      /\ before' = [zone |-> zone, ok |-> FALSE, req |-> Head(plan)]
      /\ zone' = zone /\ pc' = pc /\ resolved' = resolved /\ next' = next /\ work' = work
      /\ toAdd' = toAdd /\ toDelete' = toDelete /\ essentialAlways' = essentialAlways
  BY Zenon DEF Reject
<1>2. before'.zone = zone /\ before'.ok = FALSE
  BY <1>1
<1>3. /\ ZoneOK /\ plan \in Seq(Calls) /\ ResolvedOK(resolved) /\ next \in 1..(Len(resolved) + 1)
      /\ work = {} /\ toAdd = {} /\ toDelete = {} /\ essentialAlways = {}
  BY <1>1, Zenon DEF IInv
<1>4. plan' \in Seq(Calls)
  BY <1>1, <1>3
<1>5. ZoneOK'
  <2>1. \A r, s \in zone : Key(r) = Key(s) => r = s \/ (IsSPF(r) /\ TwoSPF(zone, r.name))
    BY <1>3, TwinsAreSPF, Zenon
  <2> QED BY <1>1, <1>2, <1>3, <2>1, Zenon DEF ZoneOK
<1>6. pc' # "run" /\ pc' \in {"idle", "run"} /\ ~Done'
  BY <1>1, <1>2 DEF Done
<1>7. Installed' /\ Spared' /\ ServiceReplaced' /\ AliasReplaces'
  BY <1>6, Zenon DEF Installed, Spared, ServiceReplaced, AliasReplaces
<1> QED BY <1>1, <1>3, <1>4, <1>5, <1>6, <1>7, Zenon DEF IInv

LEMMA EssentialText ==
    ASSUME IInv, NEW a
    PROVE  EssentialOf(a) \in Texts
<1> DEFINE same == {i \in DOMAIN resolved : Key(resolved[i]) = Key(a)}
           Least(i) == \A j \in same : i <= j
           first == CHOOSE i \in same : Least(i)
<1>1. resolved \in Seq(ResolvedEntry)
  BY Zenon DEF IInv, ResolvedOK
<1>2. same \subseteq Nat /\ \A i \in same : resolved[i].essential \in Texts
  <2>1. \A i \in DOMAIN resolved : i \in Nat /\ resolved[i] \in ResolvedEntry
    BY <1>1
  <2>2. \A e \in ResolvedEntry : e.essential \in Texts
    BY DEF ResolvedEntry
  <2> QED BY <2>1, <2>2
<1>3. "Always" \in Texts
  BY TextsOK
<1>4. EssentialOf(a) = IF same = {} THEN "Always"
                       ELSE IF resolved[first].essential = "" THEN "Always"
                            ELSE resolved[first].essential
  BY Zenon DEF EssentialOf
<1> HIDE DEF same
<1>5. same # {} => first \in same
  <2>1. same # {} => \E i \in same : Least(i)
    BY <1>2, LeastElement, Zenon
  <2> QED BY <2>1, Zenon
<1> HIDE DEF first
<1>6. CASE same = {}
  BY <1>3, <1>4, <1>6, Zenon
<1>7. CASE same # {}
  <2>1. resolved[first].essential \in Texts
    BY <1>2, <1>5, <1>7, Zenon
  <2> QED BY <1>3, <1>4, <1>7, <2>1, Zenon
<1> QED BY <1>6, <1>7

LEMMA StampFacts ==
    ASSUME IInv, req \in Calls, NEW a \in Records, a.dc = Free
    PROVE  /\ Stamp(a) \in Records /\ Key(Stamp(a)) = Key(a)
           /\ req.multi = "none" => Stamp(a) = a
           /\ req.multi # "none" => /\ Stamp(a).dc # Free
                                    /\ Stamp(a).dc.provider = req.provider
                                    /\ Stamp(a).dc.service = req.service
                                    /\ Stamp(a).dc.id = req.id
<1> DEFINE o == [provider |-> req.provider, service |-> req.service,
                 id |-> req.id, essential |-> EssentialOf(a)]
           s == [a EXCEPT !.dc = o]
<1>1. Stamp(a) = IF req.multi = "none" THEN a ELSE s
  BY Zenon DEF Stamp
<1>2. CASE req.multi = "none"
  BY <1>1, <1>2, Zenon
<1>3. CASE req.multi # "none"
  <2>1. req.provider \in Texts /\ req.service \in Texts /\ req.id \in Texts
    BY DEF Calls
  <2>2. o \in Owners
    BY <2>1, EssentialText DEF Owners
  <2>3. Free \notin Owners
    BY TemplateAssumption, Zenon
  <2>4. o # Free
    BY <2>2, <2>3
  <2>5. o.provider = req.provider /\ o.service = req.service /\ o.id = req.id
    OBVIOUS
  <2> HIDE DEF o
  <2>6. /\ s \in Records /\ s.dc = o /\ s.type = a.type /\ s.name = a.name
        /\ s.content = a.content /\ s.ttl = a.ttl
    BY <2>2 DEF Records
  <2> HIDE DEF s
  <2>7. Key(s) = Key(a)
    BY <2>6 DEF Key
  <2>8. Stamp(a) = s
    BY <1>1, <1>3, Zenon
  <2> QED BY <1>3, <2>4, <2>5, <2>6, <2>7, <2>8, Zenon
<1> QED BY <1>2, <1>3

\* A record that a call adds asks for what an entry does.
LEMMA AddedFacts ==
    ASSUME IInv, pc = "run", NEW a \in toAdd
    PROVE  /\ a \in Records /\ a.dc = Free
           /\ \E k \in 1..Len(resolved) : Made(a, resolved[k])
<1>1. PICK k \in 1..Len(resolved) : Made(a, resolved[k])
  BY Zenon DEF IInv, RunOK, ListsOK
<1> QED BY <1>1, Zenon DEF Made

\* Two added records are not opposed.
LEMMA AddedApart ==
    ASSUME IInv, pc = "run", NEW a \in toAdd, NEW b \in toAdd, a # b, a.name = b.name,
           a.type = "CNAME", b.type \in Addresses \cup {"CNAME"}
    PROVE  FALSE
<1>1. PICK i \in 1..Len(resolved) : Made(a, resolved[i])
  BY AddedFacts, Zenon
<1>2. PICK j \in 1..Len(resolved) : Made(b, resolved[j])
  BY AddedFacts, Zenon
<1> DEFINE e == resolved[i]
           f == resolved[j]
<1>3. a.type # "TXT" /\ b.type # "TXT"
  BY DEF Addresses
<1>4. /\ e.type # "SPFM" /\ a = Record(e) /\ f.type # "SPFM" /\ b = Record(f)
      /\ a.name = e.name /\ b.name = f.name
  BY <1>1, <1>2, <1>3, Zenon DEF Made, Serves, IsSPF
<1>5. i # j
  BY <1>4, Zenon
<1>6. i \in DOMAIN resolved /\ j \in DOMAIN resolved
  <2>1. resolved \in Seq(ResolvedEntry)
    BY Zenon DEF IInv, ResolvedOK
  <2> QED BY <2>1
<1>7. ~Clash(e, f)
  <2>1. checkInternalConflicts(resolved)
    BY Zenon DEF IInv, RunOK, CallOK
  <2> QED BY <1>5, <1>6, <2>1, Zenon DEF checkInternalConflicts
<1> HIDE DEF e, f
<1>8. a.type = e.type /\ b.type = f.type
  BY <1>4 DEF Record
<1> QED BY <1>4, <1>7, <1>8 DEF Clash, Other, Addresses, Redirects

\* The zone after a call: what stayed of it, what was restored, what was added.
LEMMA RestoredFacts ==
    ASSUME IInv, pc = "run", NEW r \in zone, Key(r) \notin Keys(toDelete \ Restored),
           ~Stays(r)
    PROVE  \E d \in Restored :
              /\ Key(d) = Key(r) /\ d \in zone /\ Owned(req, d)
              /\ req.multi = "aware" /\ d.dc.service # req.service
              /\ d.dc.essential = "Always"
              /\ \A a \in toAdd : d.type # a.type \/ d.name # a.name
<1>1. Key(r) \in Keys(toDelete)
  BY Zenon DEF Stays
<1>2. PICK d \in toDelete : Key(d) = Key(r)
  BY <1>1, InKeys, Zenon
<1>3. d \in Restored
  <2>1. d \notin toDelete \ Restored
    BY <1>2, InKeys, Zenon
  <2> QED BY <2>1
<1>4. Restored = essentialAlways /\ \A c \in essentialAlways, a \in toAdd : ~(c.type = a.type /\ c.name = a.name)
  <2>1. CASE \E c \in essentialAlways, a \in toAdd : c.type = a.type /\ c.name = a.name
    <3>1. Restored = {}
      BY <2>1, Zenon DEF Restored
    <3> QED BY <1>3, <3>1
  <2>2. CASE ~ \E c \in essentialAlways, a \in toAdd : c.type = a.type /\ c.name = a.name
    BY <2>2, Zenon DEF Restored
  <2> QED BY <2>1, <2>2
<1>5. d \in Candidates(req)
  BY <1>3, <1>4, Zenon DEF IInv, RunOK, CallOK
<1>6. /\ d \in zone /\ Owned(req, d) /\ req.multi = "aware" /\ d.dc.service # req.service
      /\ d.dc.essential = "Always"
  BY <1>5 DEF Candidates, OwnedRecords
<1> QED BY <1>2, <1>3, <1>4, <1>6, Zenon

Kept(r) == r \in zone /\ Key(r) \notin Keys(toDelete \ Restored)

LEMMA ReturnFacts ==
    ASSUME IInv, Return
    PROVE  /\ pc = "run" /\ req \in Calls /\ next > Len(resolved)
           /\ before'.zone = zone /\ pc' = "idle"
           /\ req' = req /\ resolved' = resolved /\ plan' = plan /\ next' = next
           /\ work' = {} /\ toAdd' = {} /\ toDelete' = {} /\ essentialAlways' = {}
           /\ \A r : r \in zone' <=> Kept(r) \/ \E a \in toAdd : r = Stamp(a)
<1>1. /\ pc = "run" /\ next > Len(resolved)
      /\ before' = [zone |-> zone, ok |-> TRUE, req |-> req] /\ pc' = "idle"
      /\ req' = req /\ resolved' = resolved /\ plan' = plan /\ next' = next
      /\ work' = {} /\ toAdd' = {} /\ toDelete' = {} /\ essentialAlways' = {}
      /\ zone' = Applied(toDelete \ Restored, {Stamp(a) : a \in toAdd})
  BY Zenon DEF Return
<1>2. req \in Calls
  BY <1>1, Zenon DEF IInv, RunOK, CallOK
<1>3. before'.zone = zone
  BY <1>1
<1> DEFINE gone == Keys(toDelete \ Restored)
           new == {Stamp(a) : a \in toAdd}
<1>4. zone' = {r \in zone : Key(r) \notin gone} \cup new
  BY <1>1, Zenon DEF Applied
<1>5. \A r : r \in new <=> \E a \in toAdd : r = Stamp(a)
  BY Zenon
<1> HIDE DEF gone, new
<1>6. \A r : r \in zone' <=> (r \in zone /\ Key(r) \notin gone) \/ r \in new
  BY <1>4
<1>7. \A r : r \in zone' <=> Kept(r) \/ \E a \in toAdd : r = Stamp(a)
  BY <1>5, <1>6, Zenon DEF Kept, gone
<1> QED BY <1>1, <1>2, <1>3, <1>7, Zenon

LEMMA AddedStamp ==
    ASSUME IInv, pc = "run", req \in Calls, NEW a \in toAdd
    PROVE  /\ Stamp(a) \in Records /\ Key(Stamp(a)) = Key(a)
           /\ req.multi = "none" => Stamp(a).dc = Free
           /\ req.multi # "none" => /\ Stamp(a).dc # Free
                                    /\ Stamp(a).dc.provider = req.provider
                                    /\ Stamp(a).dc.service = req.service
                                    /\ Stamp(a).dc.id = req.id
           /\ Stamp(a).type = a.type /\ Stamp(a).name = a.name
           /\ (IsSPF(Stamp(a)) <=> IsSPF(a))
<1>1. a \in Records /\ a.dc = Free
  BY AddedFacts, Zenon
<1>2. /\ Stamp(a) \in Records /\ Key(Stamp(a)) = Key(a)
      /\ req.multi = "none" => Stamp(a) = a
      /\ req.multi # "none" => /\ Stamp(a).dc # Free
                               /\ Stamp(a).dc.provider = req.provider
                               /\ Stamp(a).dc.service = req.service
                               /\ Stamp(a).dc.id = req.id
  BY <1>1, StampFacts, Zenon
<1>3. Stamp(a).type = a.type /\ Stamp(a).name = a.name
  BY <1>2, SameKey, Zenon
<1>4. IsSPF(Stamp(a)) <=> IsSPF(a)
  BY <1>2, SameSPF, Zenon
<1> QED BY <1>1, <1>2, <1>3, <1>4, Zenon

\* An added record and an opposed one that was kept belong to different services.
LEMMA KeptApart ==
    ASSUME IInv, pc = "run", req \in Calls, NEW a \in toAdd, NEW r, Kept(r), Opposed(a, r)
    PROVE  /\ Stamp(a).dc # Free /\ r.dc # Free
           /\ r.dc.provider = req.provider /\ Stamp(a).dc.provider = req.provider
           /\ r.dc.service # req.service /\ Stamp(a).dc.service = req.service
<1>1. r \in zone /\ Key(r) \notin Keys(toDelete \ Restored)
  BY Zenon DEF Kept
<1>2. ~Stays(r)
  BY <1>1, Zenon DEF IInv, RunOK, ApartOK
<1>3. PICK d \in Restored :
         /\ Key(d) = Key(r) /\ d \in zone /\ Owned(req, d)
         /\ req.multi = "aware" /\ d.dc.service # req.service
  BY <1>1, <1>2, RestoredFacts, Zenon
<1>4. r.type # "TXT"
  BY DEF Opposed, Addresses
<1>5. r = d
  BY <1>1, <1>3, <1>4, TwinsAreSPF, Zenon DEF IInv, IsSPF
<1>6. r.dc # Free /\ r.dc.provider = req.provider /\ r.dc.service # req.service
  BY <1>3, <1>5, Zenon DEF Owned
<1>7. req.multi # "none"
  BY <1>3
<1> QED BY <1>6, <1>7, AddedStamp, Zenon

\* An added record and an equal one that was kept are SPF records.
LEMMA KeptTwin ==
    ASSUME IInv, pc = "run", req \in Calls, NEW a \in toAdd, NEW r, Kept(r), Key(a) = Key(r)
    PROVE  IsSPF(r) /\ TwoSPF(zone, r.name)
<1>1. r \in zone /\ Key(r) \notin Keys(toDelete \ Restored)
  BY Zenon DEF Kept
<1>2. CASE Stays(r)
  BY <1>1, <1>2, Zenon DEF IInv, RunOK, ApartOK
<1>3. CASE ~Stays(r)
  <2>1. PICK d \in Restored : /\ Key(d) = Key(r)
                              /\ \A b \in toAdd : d.type # b.type \/ d.name # b.name
    BY <1>1, <1>3, RestoredFacts, Zenon
  <2>2. d.type = a.type /\ d.name = a.name
    BY <2>1, SameKey, Zenon
  <2> QED BY <2>1, <2>2
<1> QED BY <1>2, <1>3

LEMMA ReturnZone ==
    ASSUME IInv, Return
    PROVE  ZoneOK'
<1>1. /\ pc = "run" /\ req \in Calls /\ before'.zone = zone
      /\ \A r : r \in zone' <=> Kept(r) \/ \E a \in toAdd : r = Stamp(a)
  BY ReturnFacts, Zenon
<1>2. ZoneOK
  BY Zenon DEF IInv
<1>3. \A r : Kept(r) => r \in zone
  BY Zenon DEF Kept
<1>4. zone \subseteq Records
  BY <1>2, Zenon DEF ZoneOK
<1>5. zone' \subseteq Records
  <2>1. ASSUME NEW r \in zone' PROVE r \in Records
    <3>1. CASE Kept(r)
      BY <1>3, <1>4, <3>1
    <3>2. CASE \E a \in toAdd : r = Stamp(a)
      BY <1>1, <3>2, AddedStamp, Zenon
    <3> QED BY <1>1, <3>1, <3>2
  <2> QED BY <2>1
<1>6. ASSUME NEW r \in zone', NEW s \in zone', Aliasing(r, s)
      PROVE  /\ r.dc # Free /\ s.dc # Free
             /\ r.dc.provider = s.dc.provider /\ r.dc.service # s.dc.service
  <2>1. /\ r # s /\ r.name = s.name /\ r.type = "CNAME" /\ s.type \in Addresses \cup {"CNAME"}
    BY <1>6, Zenon DEF Aliasing
  <2>2. CASE Kept(r) /\ Kept(s)
    BY <1>2, <1>3, <1>6, <2>2, Zenon DEF ZoneOK
  <2>3. ASSUME NEW a \in toAdd, r = Stamp(a), Kept(s)
        PROVE  /\ r.dc # Free /\ s.dc # Free
               /\ r.dc.provider = s.dc.provider /\ r.dc.service # s.dc.service
    <3>1. Opposed(a, s)
      BY <1>1, <2>1, <2>3, AddedStamp, Zenon DEF Opposed
    <3>2. /\ Stamp(a).dc # Free /\ s.dc # Free
          /\ s.dc.provider = req.provider /\ Stamp(a).dc.provider = req.provider
          /\ s.dc.service # req.service /\ Stamp(a).dc.service = req.service
      BY <1>1, <2>3, <3>1, KeptApart, Zenon
    <3> QED BY <2>3, <3>2, Zenon
  <2>4. ASSUME NEW a \in toAdd, s = Stamp(a), Kept(r)
        PROVE  /\ r.dc # Free /\ s.dc # Free
               /\ r.dc.provider = s.dc.provider /\ r.dc.service # s.dc.service
    <3>1. Opposed(a, r)
      BY <1>1, <2>1, <2>4, AddedStamp, Zenon DEF Opposed
    <3>2. /\ Stamp(a).dc # Free /\ r.dc # Free
          /\ r.dc.provider = req.provider /\ Stamp(a).dc.provider = req.provider
          /\ r.dc.service # req.service /\ Stamp(a).dc.service = req.service
      BY <1>1, <2>4, <3>1, KeptApart, Zenon
    <3> QED BY <2>4, <3>2, Zenon
  <2>5. ASSUME NEW a \in toAdd, NEW b \in toAdd, r = Stamp(a), s = Stamp(b)
        PROVE  FALSE
    <3>1. a # b /\ a.name = b.name /\ a.type = "CNAME" /\ b.type \in Addresses \cup {"CNAME"}
      BY <1>1, <2>1, <2>5, AddedStamp, Zenon
    <3> QED BY <1>1, <3>1, AddedApart, Zenon
  <2> QED BY <1>1, <2>2, <2>3, <2>4, <2>5, Zenon
<1>7. ASSUME NEW r \in zone', NEW s \in zone', Key(r) = Key(s), r # s
      PROVE  IsSPF(r) /\ TwoSPF(zone, r.name)
  <2>1. r.name = s.name /\ (IsSPF(r) <=> IsSPF(s))
    BY <1>7, SameKey, SameSPF, Zenon
  <2>2. CASE Kept(r) /\ Kept(s)
    BY <1>2, <1>3, <1>7, <2>2, TwinsAreSPF, Zenon
  <2>3. ASSUME NEW a \in toAdd, r = Stamp(a), Kept(s)
        PROVE  IsSPF(r) /\ TwoSPF(zone, r.name)
    <3>1. Key(a) = Key(s)
      BY <1>1, <1>7, <2>3, AddedStamp, Zenon
    <3> QED BY <1>1, <2>1, <2>3, <3>1, KeptTwin, Zenon
  <2>4. ASSUME NEW a \in toAdd, s = Stamp(a), Kept(r)
        PROVE  IsSPF(r) /\ TwoSPF(zone, r.name)
    <3>1. Key(a) = Key(r)
      BY <1>1, <1>7, <2>4, AddedStamp, Zenon
    <3> QED BY <1>1, <2>4, <3>1, KeptTwin, Zenon
  <2>5. ASSUME NEW a \in toAdd, NEW b \in toAdd, r = Stamp(a), s = Stamp(b)
        PROVE  FALSE
    <3>1. Key(a) = Key(b)
      BY <1>1, <1>7, <2>5, AddedStamp, Zenon
    <3>2. a = b
      BY <1>1, <3>1, AddedFacts, SameRecord, Zenon
    <3> QED BY <1>7, <2>5, <3>2
  <2> QED BY <1>1, <2>2, <2>3, <2>4, <2>5, Zenon
<1> QED BY <1>1, <1>4, <1>5, <1>6, <1>7, Zenon DEF ZoneOK

LEMMA ReturnInstalls ==
    ASSUME IInv, Return
    PROVE  Installed'
<1>1. /\ pc = "run" /\ req \in Calls /\ before'.zone = zone /\ resolved' = resolved
      /\ next > Len(resolved)
      /\ \A r : r \in zone' <=> Kept(r) \/ \E a \in toAdd : r = Stamp(a)
  BY ReturnFacts, Zenon
<1>2. /\ resolved \in Seq(ResolvedEntry) /\ next \in 1..(Len(resolved) + 1)
      /\ GoodOK /\ WorkOK
  BY <1>1, Zenon DEF IInv, RunOK, ResolvedOK
<1> SUFFICES ASSUME NoTwins(zone), ~Overlap, NEW e \in ResolvedEntries
             PROVE  \E r \in zone' : Serves(r, e)
  <2>1. Overlap' = Overlap /\ ResolvedEntries' = ResolvedEntries
    BY <1>1, Zenon DEF Overlap, ResolvedEntries
  <2> QED BY <1>1, <2>1, Zenon DEF Installed
<1>3. PICK k \in 1..Len(resolved) : e = resolved[k]
  BY <1>2 DEF ResolvedEntries, Range
<1>4. k \in 1..(next-1)
  BY <1>1, <1>2
<1>5. Good(e)
  BY <1>2, <1>3, <1>4, Zenon DEF GoodOK
<1>6. ASSUME NEW a \in toAdd, Serves(a, e) PROVE \E r \in zone' : Serves(r, e)
  <2>1. Stamp(a) \in zone' /\ Key(Stamp(a)) = Key(a)
    BY <1>1, AddedStamp, Zenon
  <2> QED BY <1>6, <2>1, SameServes, Zenon
<1>7. ASSUME NEW r \in work, Serves(r, e) PROVE \E s \in zone' : Serves(s, e)
  <2>1. CASE r \in toAdd
    BY <1>6, <1>7, <2>1
  <2>2. CASE Stays(r)
    <3>1. r \in zone /\ Key(r) \notin Keys(toDelete)
      BY <2>2, Zenon DEF Stays
    <3>2. \A d \in toDelete \ Restored : d \in toDelete
      OBVIOUS
    <3>3. Kept(r)
      BY <3>1, <3>2, InKeys, Zenon DEF Kept
    <3> QED BY <1>1, <1>7, <3>3, Zenon
  <2> QED BY <1>2, <1>7, <2>1, <2>2, Zenon DEF WorkOK
<1> QED BY <1>5, <1>6, <1>7, Zenon DEF Good

LEMMA ReturnSpares ==
    ASSUME IInv, Return
    PROVE  Spared'
<1>1. /\ pc = "run" /\ req \in Calls /\ before'.zone = zone /\ resolved' = resolved
      /\ req' = req
      /\ \A r : r \in zone' <=> Kept(r) \/ \E a \in toAdd : r = Stamp(a)
  BY ReturnFacts, Zenon
<1>2. resolved \in Seq(ResolvedEntry) /\ ListsOK
  BY <1>1, Zenon DEF IInv, RunOK, ResolvedOK
<1> SUFFICES ASSUME NEW r \in zone, r \notin zone'
             PROVE  \/ \E o \in zone : Owned(req, o) /\ Key(o) = Key(r)
                    \/ \E e \in ResolvedEntries : MayDelete(e, r)
  <2>1. ResolvedEntries' = ResolvedEntries
    BY <1>1, Zenon DEF ResolvedEntries
  <2> QED BY <1>1, <2>1, Zenon DEF Spared
<1>3. Key(r) \in Keys(toDelete \ Restored)
  BY <1>1, Zenon DEF Kept
<1>4. PICK d \in toDelete \ Restored : Key(d) = Key(r)
  BY <1>3, InKeys, Zenon
<1>5. d \in toDelete
  BY <1>4
<1>6. CASE d \in zone /\ Owned(req, d)
  BY <1>4, <1>6, Zenon
<1>7. ASSUME NEW k \in 1..Len(resolved), MayDelete(resolved[k], d)
      PROVE  \E e \in ResolvedEntries : MayDelete(e, r)
  <2>1. resolved[k] \in ResolvedEntries
    BY <1>2 DEF ResolvedEntries, Range
  <2>2. MayDelete(resolved[k], r)
    BY <1>4, <1>7, SameDelete, Zenon
  <2> QED BY <2>1, <2>2
<1> QED BY <1>2, <1>5, <1>6, <1>7, Zenon DEF ListsOK

LEMMA ReturnReplaces ==
    ASSUME IInv, Return
    PROVE  ServiceReplaced'
<1>1. /\ pc = "run" /\ req \in Calls /\ before'.zone = zone /\ resolved' = resolved
      /\ req' = req
      /\ \A r : r \in zone' <=> Kept(r) \/ \E a \in toAdd : r = Stamp(a)
  BY ReturnFacts, Zenon
<1>2. /\ resolved \in Seq(ResolvedEntry) /\ OwnedRecords(req) \subseteq toDelete
  BY <1>1, Zenon DEF IInv, RunOK, ResolvedOK, CallOK
<1> DEFINE Replaces(r) ==
        IF r.dc.service = req.service /\ (req.multi = "instance" => r.dc.id = req.id)
          THEN /\ r.dc.id = req.id
               /\ \E e \in ResolvedEntries :
                    /\ e.name = r.name
                    /\ r.type = (IF e.type = "SPFM" THEN "TXT" ELSE e.type)
          ELSE req.multi = "aware" =>
               /\ r.dc.essential = "Always"
               /\ r \in zone
               /\ \A a \in zone' \ zone : a.type # r.type \/ a.name # r.name
<1> SUFFICES ASSUME req.multi # "none", NEW r \in zone', r.dc # Free, r.dc.provider = req.provider
             PROVE  Replaces(r)
  <2>1. ResolvedEntries' = ResolvedEntries
    BY <1>1, Zenon DEF ResolvedEntries
  <2> QED BY <1>1, <2>1, Zenon DEF ServiceReplaced
<1>3. ASSUME NEW a \in toAdd, r = Stamp(a) PROVE Replaces(r)
  <2>1. r.dc.service = req.service /\ r.dc.id = req.id /\ r.type = a.type /\ r.name = a.name
    BY <1>1, <1>3, AddedStamp, Zenon
  <2>2. PICK k \in 1..Len(resolved) : Made(a, resolved[k])
    BY <1>1, AddedFacts, Zenon
  <2> DEFINE e == resolved[k]
  <2>3. e \in ResolvedEntries
    BY <1>2 DEF ResolvedEntries, Range
  <2>4. e.name = a.name /\ a.type = (IF e.type = "SPFM" THEN "TXT" ELSE e.type)
    <3>1. a.name = e.name /\ IF e.type = "SPFM" THEN IsSPF(a) ELSE a = Record(e)
      BY <2>2, Zenon DEF Made, Serves
    <3> HIDE DEF e
    <3> QED BY <3>1 DEF IsSPF, SpellsSPF, Record
  <2> HIDE DEF e
  <2> QED BY <2>1, <2>3, <2>4, Zenon
<1>4. ASSUME Kept(r) PROVE Replaces(r)
  <2>1. r \in zone /\ Key(r) \notin Keys(toDelete \ Restored)
    BY <1>4, Zenon DEF Kept
  <2>2. CASE Owned(req, r)
    <3>1. ~Stays(r)
      <4>1. r \in toDelete
        BY <1>2, <2>1, <2>2 DEF OwnedRecords
      <4> QED BY <4>1, InKeys, Zenon DEF Stays
    <3>2. r \in Restored
      <4>1. r \in toDelete
        BY <1>2, <2>1, <2>2 DEF OwnedRecords
      <4>2. r \notin toDelete \ Restored
        BY <2>1, InKeys, Zenon
      <4> QED BY <4>1, <4>2
    <3>3. /\ Restored \subseteq Candidates(req)
          /\ Restored # {} => \A c \in Restored, a \in toAdd : ~(c.type = a.type /\ c.name = a.name)
      <4>1. essentialAlways = Candidates(req)
        BY <1>1, Zenon DEF IInv, RunOK, CallOK
      <4>2. CASE \E c \in essentialAlways, a \in toAdd : c.type = a.type /\ c.name = a.name
        BY <4>2 DEF Restored
      <4>3. CASE ~ \E c \in essentialAlways, a \in toAdd : c.type = a.type /\ c.name = a.name
        <5>1. Restored = essentialAlways
          BY <4>3, Zenon DEF Restored
        <5> QED BY <4>1, <4>3, <5>1
      <4> QED BY <4>2, <4>3
    <3>4. r \in Candidates(req) /\ \A a \in toAdd : ~(r.type = a.type /\ r.name = a.name)
      BY <3>2, <3>3
    <3>5. r.dc.service # req.service /\ r.dc.essential = "Always"
      BY <3>4 DEF Candidates
    <3>6. ASSUME NEW b \in zone' \ zone PROVE b.type # r.type \/ b.name # r.name
      <4>1. b \in zone' /\ ~Kept(b)
        BY <3>6 DEF Kept
      <4>2. PICK a \in toAdd : b = Stamp(a)
        BY <1>1, <4>1, Zenon
      <4>3. b.type = a.type /\ b.name = a.name
        BY <1>1, <4>2, AddedStamp, Zenon
      <4> QED BY <3>4, <4>3
    <3> QED BY <2>1, <3>5, <3>6, Zenon
  <2>3. CASE ~Owned(req, r)
    <3>1. req.multi \in {"none", "aware", "instance"}
      BY <1>1 DEF Calls
    <3>2. req.multi = "instance" /\ ~(r.dc.service = req.service /\ r.dc.id = req.id)
      BY <2>3, Zenon DEF Owned
    <3>3. req.multi # "aware"
      BY <3>2
    <3> QED BY <3>2, <3>3, Zenon
  <2> QED BY <2>2, <2>3
<1> QED BY <1>1, <1>3, <1>4, Zenon

LEMMA ReturnAliases ==
    ASSUME IInv, Return
    PROVE  AliasReplaces'
<1>1. /\ pc = "run" /\ req \in Calls /\ before'.zone = zone /\ resolved' = resolved
      /\ req' = req /\ next > Len(resolved)
      /\ \A r : r \in zone' <=> Kept(r) \/ \E a \in toAdd : r = Stamp(a)
  BY ReturnFacts, Zenon
<1>2. resolved \in Seq(ResolvedEntry) /\ next \in 1..(Len(resolved) + 1) /\ ApartOK
  BY <1>1, Zenon DEF IInv, RunOK, ResolvedOK
<1> SUFFICES ASSUME NEW e \in ResolvedEntries, NEW r \in zone',
                    e.type \in {"CNAME", "APEXCNAME"}, r.name = e.name, r.type # "NS"
             PROVE  \/ \E f \in ResolvedEntries : Serves(r, f)
                    \/ \E o \in zone : Owned(req, o) /\ Key(o) = Key(r)
  <2>1. ResolvedEntries' = ResolvedEntries
    BY <1>1, Zenon DEF ResolvedEntries
  <2> QED BY <1>1, <2>1, Zenon DEF AliasReplaces
<1>3. ASSUME NEW a \in toAdd, r = Stamp(a) PROVE \E f \in ResolvedEntries : Serves(r, f)
  <2>1. Key(r) = Key(a) /\ r.type = a.type /\ r.name = a.name
    BY <1>1, <1>3, AddedStamp, Zenon
  <2>2. PICK k \in 1..Len(resolved) : Made(a, resolved[k])
    BY <1>1, AddedFacts, Zenon
  <2>3. resolved[k] \in ResolvedEntries /\ resolved[k] \in ResolvedEntry
    BY <1>2 DEF ResolvedEntries, Range
  <2>4. Serves(a, resolved[k])
    <3>1. CASE resolved[k].type = "SPFM"
      BY <2>2, <3>1, Zenon DEF Made
    <3>2. CASE resolved[k].type # "SPFM"
      BY <2>2, <2>3, <3>2, RecordMade, Zenon DEF Made
    <3> QED BY <3>1, <3>2
  <2> QED BY <2>1, <2>3, <2>4, SameServes, Zenon
<1>4. ASSUME Kept(r) PROVE \E o \in zone : Owned(req, o) /\ Key(o) = Key(r)
  <2>1. r \in zone /\ Key(r) \notin Keys(toDelete \ Restored)
    BY <1>4, Zenon DEF Kept
  <2>2. PICK k \in 1..Len(resolved) : e = resolved[k]
    BY <1>2 DEF ResolvedEntries, Range
  <2>3. k \in 1..(next-1)
    BY <1>1, <1>2
  <2>4. Sweeps(e, r)
    BY Zenon DEF Sweeps
  <2>5. ~Stays(r)
    BY <1>2, <2>1, <2>2, <2>3, <2>4, Zenon DEF ApartOK
  <2> QED BY <1>1, <2>1, <2>5, RestoredFacts, Zenon
<1> QED BY <1>1, <1>3, <1>4, Zenon

LEMMA ReturnStep ==
    ASSUME IInv, Return
    PROVE  IInv'
<1>1. /\ pc' = "idle" /\ resolved' = resolved /\ plan' = plan /\ next' = next
      /\ work' = {} /\ toAdd' = {} /\ toDelete' = {} /\ essentialAlways' = {}
  BY ReturnFacts, Zenon
<1>2. plan \in Seq(Calls) /\ ResolvedOK(resolved) /\ next \in 1..(Len(resolved) + 1)
  BY Zenon DEF IInv
<1>3. pc' # "run" /\ pc' \in {"idle", "run"}
  BY <1>1
<1> QED BY <1>1, <1>2, <1>3, ReturnZone, ReturnInstalls, ReturnSpares, ReturnReplaces,
            ReturnAliases, Zenon DEF IInv

-----------------------------------------------------------------------------
(* Theorems.                                                                *)

LEMMA StutterStep ==
    ASSUME IInv, UNCHANGED vars
    PROVE  IInv'
<1>1. /\ zone' = zone /\ plan' = plan /\ pc' = pc /\ req' = req /\ resolved' = resolved
      /\ next' = next /\ work' = work /\ toAdd' = toAdd /\ toDelete' = toDelete
      /\ essentialAlways' = essentialAlways /\ before' = before
  BY DEF vars
<1>2. ZoneOK' = ZoneOK
  BY <1>1, Zenon DEF ZoneOK
<1>3. CallOK' = CallOK
  BY <1>1, Zenon DEF CallOK, Candidates, OwnedRecords
<1>4. WorkOK' = WorkOK
  BY <1>1, Zenon DEF WorkOK, Stays
<1>5. ListsOK' = ListsOK
  BY <1>1, Zenon DEF ListsOK
<1>6. ApartOK' = ApartOK
  BY <1>1, Zenon DEF ApartOK, Stays
<1>7. GoodOK' = GoodOK
  BY <1>1, Zenon DEF GoodOK, Good, Overlap
<1>8. Installed' = Installed /\ Spared' = Spared
  BY <1>1, Zenon DEF Installed, Spared, Done, Overlap, ResolvedEntries
<1>9. ServiceReplaced' = ServiceReplaced /\ AliasReplaces' = AliasReplaces
  BY <1>1, Zenon DEF ServiceReplaced, AliasReplaces, Done, ResolvedEntries
<1> QED BY <1>1, <1>2, <1>3, <1>4, <1>5, <1>6, <1>7, <1>8, <1>9, Zenon DEF IInv, RunOK

\* Every step of a call keeps the invariant.
THEOREM Invariance == Spec => []IInv
<1>1. Init => IInv
  BY InitOK
<1>2. IInv /\ [Next]_vars => IInv'
  <2> SUFFICES ASSUME IInv, [Next]_vars PROVE IInv'
    OBVIOUS
  <2>1. CASE Start
    BY <2>1, StartStep
  <2>2. CASE Reject
    BY <2>2, RejectStep
  <2>3. CASE Return
    BY <2>3, ReturnStep
  <2>4. CASE AddBacking
    BY <2>4, BackingStep
  <2>5. CASE MergeSPFM
    BY <2>5, SPFMStep
  <2>6. CASE PutCNAME
    BY <2>6, CNAMEStep
  <2>7. CASE PutAddress
    BY <2>7, AddressStep
  <2>8. CASE PutTXT
    BY <2>8, TXTStep
  <2>9. CASE PutMX
    BY <2>9, MXStep
  <2>10. CASE PutNS
    BY <2>10, NSStep
  <2>11. CASE PutSRV
    BY <2>11, SRVStep
  <2>12. CASE PutRedirect
    BY <2>12, RedirectStep
  <2>13. CASE PutApexCNAME
    BY <2>13, ApexCNAMEStep
  <2>14. CASE PutCustom
    BY <2>14, CustomStep
  <2>15. CASE UNCHANGED vars
    BY <2>15, StutterStep
  <2> QED
    BY <2>1, <2>2, <2>3, <2>4, <2>5, <2>6, <2>7, <2>8, <2>9, <2>10, <2>11, <2>12,
       <2>13, <2>14, <2>15 DEF Next
<1> QED
  BY <1>1, <1>2, PTL DEF Spec

LEMMA InvariantZoneSafe == IInv => ZoneSafe
<1> SUFFICES ASSUME IInv PROVE ZoneSafe
  OBVIOUS
<1>1. ZoneOK /\ pc \in {"idle", "run"} /\ next \in 1..(Len(resolved) + 1)
  BY Zenon DEF IInv
<1>2. AliasAlone /\ AliasReplaces /\ Distinct
  <2>1. pc = "run" => ApartOK
    BY Zenon DEF IInv, RunOK
  <2>2. AliasReplaces
    BY Zenon DEF IInv
  <2> QED BY <1>1, <2>1, <2>2, Zenon DEF ZoneOK, ApartOK, Stays, AliasAlone, Distinct
<1>3. /\ work \subseteq Records /\ toDelete \subseteq Records /\ essentialAlways \subseteq zone
      /\ toAdd \subseteq {r \in Records : r.dc = Free}
  <2>1. CASE pc = "idle"
    <3>1. work = {} /\ toAdd = {} /\ toDelete = {} /\ essentialAlways = {}
      BY <2>1, Zenon DEF IInv
    <3> QED BY <3>1
  <2>2. CASE pc = "run"
    <3>1. work \subseteq Records /\ toDelete \subseteq Records /\ essentialAlways = Candidates(req)
      BY <2>2, Zenon DEF IInv, RunOK, CallOK
    <3>2. Candidates(req) \subseteq zone
      BY DEF Candidates, OwnedRecords
    <3>3. toAdd \subseteq {r \in Records : r.dc = Free}
      BY <2>2, AddedFacts
    <3> QED BY <3>1, <3>2, <3>3
  <2> QED BY <1>1, <2>1, <2>2
<1>4. next \in 1 .. Len(resolved) + 1
  BY <1>1
<1>5. zone \subseteq Records /\ before.zone \subseteq Records
  BY <1>1, Zenon DEF ZoneOK
<1>6. TypeOK
  BY <1>1, <1>3, <1>4, <1>5, Zenon DEF TypeOK
<1> QED BY <1>2, <1>6 DEF ZoneSafe

\* Whatever templates are applied to a zone one after another (process.go:494-790),
\* its records stay well formed, no alias is beside addresses or another alias but
\* for what is restored of the provider's other services, nothing is left over
\* where a call puts an alias, and no record is there twice.  Other types may be
\* put beside an alias that is there.
THEOREM ZonesAreSafe == Spec => []ZoneSafe
<1>1. IInv => ZoneSafe
  BY InvariantZoneSafe
<1> QED BY <1>1, Invariance, PTL

\* A call that succeeds leaves every record of its template in the zone, however
\* its entries delete from the working copy (process.go:555-749), unless one of
\* them deletes what another found.
THEOREM TemplatesAreInstalled == Spec => []Installed
<1>1. IInv => Installed
  BY Zenon DEF IInv
<1> QED BY <1>1, Invariance, PTL

\* A call deletes nothing but what an entry of its template may delete and what
\* the caller owns or equals it (process.go:510-543, 555-749).
THEOREM OthersAreSpared == Spec => []Spared
<1>1. IInv => Spared
  BY Zenon DEF IInv
<1> QED BY <1>1, Invariance, PTL

\* A multi-aware call leaves nothing of an older application of the service, and
\* of the provider's other services only what is marked Always and meets no added
\* record (process.go:510-543, 752-778).
THEOREM ServicesAreReplaced == Spec => []ServiceReplaced
<1>1. IInv => ServiceReplaced
  BY Zenon DEF IInv
<1> QED BY <1>1, Invariance, PTL

-----------------------------------------------------------------------------
(* The result of a call, as a function of its options q, its entries es and *)
(* the zone z: what the entries delete of each other's additions in the      *)
(* working copy leaves no trace in it.                                       *)

\* The records of the zone that the call starts its working copy with.
Foreign(q, z) == {r \in z : ~Owned(q, r)}

\* Entry e deletes record r of these.
Deletes(e, r) ==
    /\ ~e.backing
    /\ \/ /\ r.name = e.name
          /\ \/ e.type = "CNAME" /\ r.type # "NS"
             \/ e.type \in Addresses /\ r.type \in Addresses \cup {"CNAME", "NS"}
             \/ e.type = "TXT" /\ e.mode = "" /\ r.type = "CNAME"
             \/ e.type = "TXT" /\ e.mode = "All" /\ r.type = "TXT"
             \/ e.type = "TXT" /\ e.mode = "Prefix" /\ r.type = "TXT" /\ HasPrefix(r.content, e.prefix)
             \/ e.type \in {"MX", "SRV"} /\ r.type = e.type
             \/ e.type = "NS"
             \/ e.type \in Redirects /\ r.type \in Addresses \cup Redirects \cup {"CNAME"}
             \/ e.type = "SPFM" /\ IsSPF(r) /\ ~ContainsText(r.content, e.content)
       \/ e.type = "NS" /\ r.type # "NS" /\ isChildOf(r.name, e.name)
       \/ e.type = "APEXCNAME" /\ r.name = <<>> /\ r.type # "NS"

\* None of the first n entries deletes r.
Passes(es, n, r) == \A k \in 1..n : ~Deletes(es[k], r)

Left(q, es, z) == {r \in Foreign(q, z) : Passes(es, Len(es), r)}

\* The entry's record is not added if it is found.
Finds(e) == e.type = "TXT" \/ e.type \notin Core

Like(r, e) == r.type = e.type /\ r.name = e.name /\ r.content = e.content

\* The SPF records that SPFM entry k may merge with.
Mergeable(q, es, z, k) ==
    {r \in Foreign(q, z) :
        /\ r.name = es[k].name /\ IsSPF(r)
        /\ \A j \in 1..Len(es) : es[j].type # "SPFM" => ~Deletes(es[j], r)}

\* Entry k finds its record: an earlier entry asked for it, or it is left.
Present(q, es, z, k) ==
    \/ \E j \in 1..(k-1) : Like(es[j], es[k])
    \/ \E r \in Left(q, es, z) : Like(r, es[k])

\* What entry k adds.
Puts(q, es, z, k) ==
    IF es[k].type = "SPFM"
      THEN IF Mergeable(q, es, z, k) = {} THEN {NewSPF(es[k])}
           ELSE {MergedRecord(r, es[k].content) :
                    r \in {s \in Mergeable(q, es, z, k) : ~ContainsText(s.content, es[k].content)}}
      ELSE IF Finds(es[k]) /\ Present(q, es, z, k) THEN {} ELSE {Record(es[k])}

Put(q, es, z) == UNION {Puts(q, es, z, k) : k \in 1..Len(es)}

\* The records of other services that are restored if nothing conflicts.
Restorable(q, z) ==
    {r \in z : /\ Owned(q, r) /\ q.multi = "aware"
               /\ r.dc.service # q.service /\ r.dc.essential = "Always"}

Back(q, es, z) ==
    IF \E c \in Restorable(q, z), a \in Put(q, es, z) : c.type = a.type /\ c.name = a.name
      THEN {} ELSE Restorable(q, z)

\* EssentialOf and Stamp.
EssentialIn(es, a) ==
    LET same == {i \in DOMAIN es : Key(es[i]) = Key(a)}
    IN IF same = {} THEN "Always"
       ELSE LET e == es[CHOOSE i \in same : \A j \in same : i <= j].essential
            IN IF e = "" THEN "Always" ELSE e

Stamped(q, es, a) ==
    IF q.multi = "none" THEN a
    ELSE [a EXCEPT !.dc = [provider |-> q.provider, service |-> q.service,
                           id |-> q.id, essential |-> EssentialIn(es, a)]]

Result(q, es, z) ==
    Left(q, es, z) \cup Back(q, es, z) \cup {Stamped(q, es, a) : a \in Put(q, es, z)}

\* Repeatable, and what resolving and its checks give.
Regular(q, es, z) ==
    /\ ResolvedOK(es) /\ checkInternalConflicts(es)
    /\ z \subseteq Records
    /\ \A i, j \in 1..Len(es) : i < j => ~Overlaps(es[j], es[i])
    /\ \A i \in 1..Len(es) : es[i].type = "SPFM" => q.multi = "none" /\ ~TwoSPF(z, es[i].name)
    /\ \A i, j \in 1..Len(es) :
          es[i].type = "SPFM" /\ es[i].name = es[j].name =>
             /\ es[j].type = "SPFM" => i = j
             /\ es[j].type = "TXT" =>
                   /\ ~SpellsSPF(es[j].content)
                   /\ es[j].mode = "Prefix" => ~SpellsSPF(es[j].prefix)
    /\ q.multi # "none" => NoTwins(z)

-----------------------------------------------------------------------------
(* Which record an entry deletes, and which overlap that makes.             *)

LEMMA SameDeletes ==
    ASSUME NEW r, NEW s, Key(r) = Key(s), NEW e
    PROVE  Deletes(e, r) <=> Deletes(e, s)
<1>1. r.type = s.type /\ r.name = s.name /\ r.content = s.content
  BY SameKey, Zenon
<1>2. IsSPF(r) <=> IsSPF(s)
  BY SameSPF, Zenon
<1> QED BY <1>1, <1>2, Zenon DEF Deletes

LEMMA SamePasses ==
    ASSUME NEW r, NEW s, Key(r) = Key(s), NEW es, NEW n
    PROVE  Passes(es, n, r) <=> Passes(es, n, s)
BY SameDeletes, Zenon DEF Passes

LEMMA RegularEntries ==
    ASSUME NEW q, NEW es, NEW z, Regular(q, es, z)
    PROVE  /\ Len(es) \in Nat /\ DOMAIN es = 1..Len(es)
           /\ \A k \in 1..Len(es) : es[k] \in ResolvedEntry
           /\ \A i, j \in 1..Len(es) : i # j => ~Clash(es[i], es[j])
<1>1. es \in Seq(ResolvedEntry) /\ checkInternalConflicts(es)
  BY Zenon DEF Regular, ResolvedOK
<1>2. Len(es) \in Nat /\ DOMAIN es = 1..Len(es)
  BY <1>1
<1>3. \A k \in 1..Len(es) : es[k] \in ResolvedEntry
  BY <1>1, ElementOfSeq, Zenon
<1> QED BY <1>1, <1>2, <1>3, Zenon DEF checkInternalConflicts

\* An entry that deletes what another found overlaps it.
LEMMA FoundOverlap ==
    ASSUME NEW e, NEW f, NEW r, Finds(f), Like(r, f), Deletes(e, r), ~Clash(e, f)
    PROVE  Overlaps(e, f)
<1>1. r.type = f.type /\ r.name = f.name /\ r.content = f.content
  BY Zenon DEF Like
<1>2. f.type = "TXT" \/ f.type \notin Core
  BY Zenon DEF Finds
<1>3. IsSPF(r) => f.type = "TXT" /\ SpansVersion(f.content)
  BY <1>1 DEF IsSPF, SpellsSPF, SpansVersion
<1>4. CASE f.type = "TXT"
  <2>1. f.type # "NS" /\ f.type \notin Addresses \cup Redirects \cup {"CNAME", "MX", "SRV", "APEXCNAME"}
    BY <1>4 DEF Addresses, Redirects
  <2> QED BY <1>1, <1>3, <1>4, <2>1, Zenon DEF Deletes, Overlaps, Clash
<1>5. CASE f.type \notin Core
  <2>1. /\ f.type # "NS" /\ f.type # "TXT" /\ Other(f.type)
        /\ f.type \notin Addresses \cup Redirects \cup {"CNAME", "MX", "SRV", "APEXCNAME"}
    BY <1>5 DEF Core, Addresses, Redirects, Other
  <2> QED BY <1>1, <1>3, <1>5, <2>1 DEF Deletes, Overlaps, Clash
<1> QED BY <1>2, <1>4, <1>5

LEMMA MergeOverlap ==
    ASSUME NEW e, NEW f, NEW r, f.type = "SPFM", e.type # "SPFM", r.name = f.name, IsSPF(r),
           Deletes(e, r), ~Clash(e, f)
    PROVE  Overlaps(e, f)
<1>1. r.type = "TXT"
  BY Zenon DEF IsSPF
<1>2. r.type \notin Addresses \cup Redirects \cup {"CNAME", "NS", "MX", "SRV"}
  BY <1>1 DEF Addresses, Redirects
<1>3. f.type # "NS"
  OBVIOUS
<1> QED BY <1>1, <1>2, <1>3 DEF Deletes, Overlaps, Clash

\* An entry whose record is always added deletes others of its type and name.
LEMMA OwnDelete ==
    ASSUME NEW es, ResolvedOK(es), NEW k \in 1..Len(es), ~Finds(es[k]), es[k].type # "SPFM",
           NEW r, r.type = es[k].type, r.name = es[k].name
    PROVE  \E j \in 1..Len(es) : Deletes(es[j], r)
<1> DEFINE e == es[k]
<1>0. es \in Seq(ResolvedEntry) /\ Len(es) \in Nat
  BY DEF ResolvedOK
<1>1. e.type \in Addresses \cup Redirects \cup {"CNAME", "MX", "SRV", "NS", "APEXCNAME"}
  BY DEF Finds, Core
<1>2. CASE e.backing
  <2>1. e.type \in Addresses
    BY <1>2, Zenon DEF ResolvedOK, Backs
  <2>2. PICK j \in 1..(k-1) : ~es[j].backing /\ es[j].type \in Redirects /\ es[j].name = es[k].name
    BY <1>2, Zenon DEF ResolvedOK, Backs
  <2>3. j \in 1..Len(es)
    BY <1>0
  <2>4. Deletes(es[j], r)
    BY <2>1, <2>2, Zenon DEF Deletes
  <2> QED BY <2>3, <2>4
<1>3. CASE ~e.backing
  <2>1. e.type = "APEXCNAME" => e.name = <<>>
    BY <1>3, Zenon DEF ResolvedOK
  <2>2. e.type = "APEXCNAME" \/ e.type = "CNAME" => r.type # "NS"
    OBVIOUS
  <2>3. Deletes(e, r)
    BY <1>1, <1>3, <2>1, <2>2, Zenon DEF Deletes
  <2> QED BY <2>3
<1> QED BY <1>2, <1>3

LEMMA PrefixOfSPF ==
    ASSUME NEW p \in Seq(Texts), ~SpellsSPF(p), NEW c \in Seq(Texts), NEW d \in Seq(Texts),
           SpellsSPF(c), SpellsSPF(d), HasPrefix(c, p)
    PROVE  HasPrefix(d, p)
<1>1. /\ Len(c) > 1 /\ c[1] = "v=spf1" /\ Len(d) > 1 /\ d[1] = "v=spf1"
      /\ Len(p) \in Nat /\ Len(c) \in Nat /\ Len(d) \in Nat /\ DOMAIN p = 1..Len(p)
  BY DEF SpellsSPF
<1>2. Len(p) <= 1
  <2> SUFFICES ASSUME Len(p) > 1 PROVE FALSE
    BY <1>1
  <2>1. 1 \in DOMAIN p /\ 1 # Len(p)
    <3>1. \A n \in Nat : n > 1 => 1 \in 1..n /\ 1 # n
      OBVIOUS
    <3> QED BY <1>1, <3>1, Zenon
  <2>2. \A k \in DOMAIN p : p[k] = c[k] \/ k = Len(p)
    BY Zenon DEF HasPrefix
  <2>3. p[1] = "v=spf1"
    BY <1>1, <2>1, <2>2
  <2> QED BY <2>3 DEF SpellsSPF
<1>3. Len(p) <= Len(d)
  BY <1>1, <1>2
<1>4. \A k \in DOMAIN p : c[k] = d[k]
  BY <1>1, <1>2
<1> QED BY <1>3, <1>4 DEF HasPrefix

\* What is not an SPFM entry deletes any SPF record of the name, or none.
LEMMA SPFDeletes ==
    ASSUME NEW q, NEW es, NEW z, Regular(q, es, z), NEW i \in 1..Len(es), es[i].type = "SPFM",
           NEW j \in 1..Len(es), es[j].type # "SPFM", NEW r \in Records, NEW s \in Records,
           IsSPF(r), IsSPF(s), r.name = es[i].name, s.name = es[i].name, Deletes(es[j], r)
    PROVE  Deletes(es[j], s)
<1> DEFINE e == es[j]
<1>1. /\ r.type = "TXT" /\ s.type = "TXT" /\ r.name = s.name
      /\ SpellsSPF(r.content) /\ SpellsSPF(s.content)
      /\ r.content \in Seq(Texts) /\ s.content \in Seq(Texts)
  BY DEF IsSPF, Records
<1>2. e.prefix \in Seq(Texts)
  BY RegularEntries DEF ResolvedEntry
<1>3. e.type = "TXT" /\ e.mode = "Prefix" /\ e.name = r.name => ~SpellsSPF(e.prefix)
  BY Zenon DEF Regular
<1>4. e.type = "TXT" /\ e.mode = "Prefix" /\ e.name = r.name /\ HasPrefix(r.content, e.prefix) =>
          HasPrefix(s.content, e.prefix)
  BY <1>1, <1>2, <1>3, PrefixOfSPF, Zenon
<1> HIDE DEF e
<1>5. Deletes(e, r) => Deletes(e, s)
  <2>1. e.type # "SPFM"
    BY DEF e
  <2> QED BY <1>1, <1>4, <2>1, Zenon DEF Deletes
<1> QED BY <1>5 DEF e

\* What entries add, SPFM or not.
LEMMA PlainPuts ==
    ASSUME NEW q, NEW es, NEW z, NEW k, es[k].type # "SPFM", NEW a
    PROVE  a \in Puts(q, es, z, k) <=>
              a = Record(es[k]) /\ ~(Finds(es[k]) /\ Present(q, es, z, k))
BY DEF Puts

LEMMA MergePuts ==
    ASSUME NEW q, NEW es, NEW z, NEW k, es[k].type = "SPFM", NEW a
    PROVE  a \in Puts(q, es, z, k) <=>
              \/ Mergeable(q, es, z, k) = {} /\ a = NewSPF(es[k])
              \/ \E r \in Mergeable(q, es, z, k) :
                    ~ContainsText(r.content, es[k].content) /\ a = MergedRecord(r, es[k].content)
BY DEF Puts

LEMMA MergeableFacts ==
    ASSUME NEW q, NEW es, NEW z, Regular(q, es, z), NEW k, NEW r \in Mergeable(q, es, z, k)
    PROVE  /\ r \in z /\ r \in Records /\ r \in Foreign(q, z)
           /\ r.name = es[k].name /\ IsSPF(r)
           /\ \A j \in 1..Len(es) : es[j].type # "SPFM" => ~Deletes(es[j], r)
<1>1. z \subseteq Records
  BY Zenon DEF Regular
<1>2. /\ r \in Foreign(q, z) /\ r.name = es[k].name /\ IsSPF(r)
      /\ \A j \in 1..Len(es) : es[j].type # "SPFM" => ~Deletes(es[j], r)
  BY Zenon DEF Mergeable
<1>3. r \in z
  BY <1>2, Zenon DEF Foreign
<1> QED BY <1>1, <1>2, <1>3

LEMMA PutsMade ==
    ASSUME NEW q, NEW es, NEW z, Regular(q, es, z), NEW k \in 1..Len(es),
           NEW a \in Puts(q, es, z, k)
    PROVE  /\ Made(a, es[k]) /\ Serves(a, es[k])
           /\ a \in Records /\ a.dc = Free /\ a.name = es[k].name
<1>1. es[k] \in ResolvedEntry
  BY RegularEntries, Zenon
<1>2. Made(a, es[k]) /\ Serves(a, es[k])
  <2>1. CASE es[k].type # "SPFM"
    <3>1. a = Record(es[k])
      BY <2>1, PlainPuts
    <3> QED BY <1>1, <2>1, <3>1, RecordMade, Zenon
  <2>2. CASE es[k].type = "SPFM"
    <3>1. CASE a = NewSPF(es[k])
      BY <1>1, <2>2, <3>1, NewSPFMade, Zenon
    <3>2. CASE \E r \in Mergeable(q, es, z, k) : a = MergedRecord(r, es[k].content)
      <4>1. PICK r \in Mergeable(q, es, z, k) : a = MergedRecord(r, es[k].content)
        BY <3>2
      <4>2. r \in Records /\ IsSPF(r) /\ r.name = es[k].name
        BY MergeableFacts
      <4> QED BY <1>1, <2>2, <4>1, <4>2, MergedMade, Zenon
    <3> QED BY <2>2, <3>1, <3>2, MergePuts
  <2> QED BY <2>1, <2>2
<1> QED BY <1>2, Zenon DEF Made

\* An SPF record at the name of an SPFM entry is added by that entry only.
LEMMA SPFPuts ==
    ASSUME NEW q, NEW es, NEW z, Regular(q, es, z), NEW i \in 1..Len(es), es[i].type = "SPFM",
           NEW k \in 1..Len(es), NEW a \in Puts(q, es, z, k), IsSPF(a), a.name = es[i].name
    PROVE  k = i
<1>1. a.name = es[k].name
  BY PutsMade
<1>2. CASE es[k].type = "SPFM"
  BY <1>1, <1>2, Zenon DEF Regular
<1>3. CASE es[k].type # "SPFM"
  <2>1. a = Record(es[k])
    BY <1>3, PlainPuts
  <2>2. es[k] \in ResolvedEntry
    BY RegularEntries, Zenon
  <2>3. a.type = es[k].type /\ a.content = es[k].content
    BY <1>3, <2>1, <2>2, RecordMade, Zenon
  <2>4. es[k].type = "TXT" /\ SpellsSPF(es[k].content)
    BY <2>3, Zenon DEF IsSPF
  <2> QED BY <1>1, <2>4, Zenon DEF Regular
<1> QED BY <1>2, <1>3

\* What is left of the SPF records has the rules.
LEMMA LeftSPF ==
    ASSUME NEW q, NEW es, NEW z, Regular(q, es, z), NEW i \in 1..Len(es), es[i].type = "SPFM",
           NEW r \in Left(q, es, z), IsSPF(r), r.name = es[i].name
    PROVE  r \in Mergeable(q, es, z, i) /\ ContainsText(r.content, es[i].content)
<1>1. r \in Foreign(q, z) /\ \A k \in 1..Len(es) : ~Deletes(es[k], r)
  BY Zenon DEF Left, Passes
<1>2. r \in Mergeable(q, es, z, i)
  BY <1>1, Zenon DEF Mergeable
<1>3. ~es[i].backing
  <2>1. es[i].backing => es[i].type \in Addresses
    BY Zenon DEF Regular, ResolvedOK, Backs
  <2> QED BY <2>1 DEF Addresses
<1>4. ContainsText(r.content, es[i].content)
  BY <1>1, <1>3, Zenon DEF Deletes
<1> QED BY <1>2, <1>4

\* An SPF record with the rules that no other entry deletes is left.
LEMMA MergedLeft ==
    ASSUME NEW q, NEW es, NEW z, Regular(q, es, z), NEW i \in 1..Len(es), es[i].type = "SPFM",
           NEW r, IsSPF(r), r.name = es[i].name, ContainsText(r.content, es[i].content),
           \A j \in 1..Len(es) : es[j].type # "SPFM" => ~Deletes(es[j], r)
    PROVE  Passes(es, Len(es), r)
<1> SUFFICES ASSUME NEW j \in 1..Len(es), Deletes(es[j], r) PROVE FALSE
  BY Zenon DEF Passes
<1>1. es[j].type = "SPFM"
  BY Zenon
<1>2. es[j].name = r.name /\ ~ContainsText(r.content, es[j].content)
  BY <1>1 DEF Deletes, Addresses, Redirects
<1>3. i = j
  BY <1>1, <1>2, Zenon DEF Regular
<1> QED BY <1>2, <1>3

-----------------------------------------------------------------------------
(* A call that is not multi-aware.                                          *)

LEMMA PlainForeign ==
    ASSUME NEW q, q.multi = "none", NEW z
    PROVE  Foreign(q, z) = z
BY DEF Foreign, Owned

LEMMA PlainResult ==
    ASSUME NEW q, NEW es, NEW z, q.multi = "none", NEW r
    PROVE  r \in Result(q, es, z) <=>
              r \in Left(q, es, z) \/ \E k \in 1..Len(es) : r \in Puts(q, es, z, k)
<1>1. Restorable(q, z) = {}
  BY DEF Restorable, Owned
<1>2. \A a : Stamped(q, es, a) = a
  BY Zenon DEF Stamped
<1>3. Back(q, es, z) = {}
  BY <1>1, Zenon DEF Back
<1>4. r \in Put(q, es, z) <=> \E k \in 1..Len(es) : r \in Puts(q, es, z, k)
  BY DEF Put
<1>5. r \in {Stamped(q, es, a) : a \in Put(q, es, z)} <=> r \in Put(q, es, z)
  BY <1>2, Zenon
<1>6. r \in Result(q, es, z) <=>
         r \in Left(q, es, z) \/ r \in {Stamped(q, es, a) : a \in Put(q, es, z)}
  BY <1>3 DEF Result
<1> QED BY <1>4, <1>5, <1>6, Zenon

\* The one SPF record of the name after the call.
LEMMA ResultSPF ==
    ASSUME NEW q, NEW es, NEW z, Regular(q, es, z), q.multi = "none",
           NEW i \in 1..Len(es), es[i].type = "SPFM",
           NEW r \in Result(q, es, z), IsSPF(r), r.name = es[i].name
    PROVE  /\ ContainsText(r.content, es[i].content)
           /\ \/ r \in Left(q, es, z) /\ r \in Mergeable(q, es, z, i)
              \/ r \in Puts(q, es, z, i)
<1>1. CASE r \in Left(q, es, z)
  BY <1>1, LeftSPF, Zenon
<1>2. ASSUME NEW k \in 1..Len(es), r \in Puts(q, es, z, k)
      PROVE  r \in Puts(q, es, z, i) /\ ContainsText(r.content, es[i].content)
  <2>1. k = i
    BY <1>2, SPFPuts, Zenon
  <2>2. Serves(r, es[k])
    BY <1>2, PutsMade, Zenon
  <2> QED BY <1>2, <2>1, <2>2, Zenon DEF Serves
<1> QED BY <1>1, <1>2, PlainResult, Zenon

LEMMA OneMergeable ==
    ASSUME NEW q, NEW es, NEW z, Regular(q, es, z), NEW i \in 1..Len(es), es[i].type = "SPFM",
           NEW r \in Mergeable(q, es, z, i), NEW s \in Mergeable(q, es, z, i)
    PROVE  r = s
<1>1. ~TwoSPF(z, es[i].name)
  BY Zenon DEF Regular
<1>2. /\ r \in z /\ r.name = es[i].name /\ IsSPF(r)
      /\ s \in z /\ s.name = es[i].name /\ IsSPF(s)
  BY MergeableFacts
<1> QED BY <1>1, <1>2, Zenon DEF TwoSPF

LEMMA ResultOneSPF ==
    ASSUME NEW q, NEW es, NEW z, Regular(q, es, z), q.multi = "none",
           NEW i \in 1..Len(es), es[i].type = "SPFM"
    PROVE  ~TwoSPF(Result(q, es, z), es[i].name)
<1> DEFINE M == Mergeable(q, es, z, i)
           P == Puts(q, es, z, i)
           Lacks(r) == ~ContainsText(r.content, es[i].content)
<1>1. ASSUME NEW r \in Result(q, es, z), NEW s \in Result(q, es, z), r # s,
             r.name = es[i].name, s.name = es[i].name, IsSPF(r), IsSPF(s)
      PROVE  FALSE
  <2>1. /\ r \in M \/ r \in P
        /\ s \in M \/ s \in P
        /\ ~Lacks(r) /\ ~Lacks(s)
    BY <1>1, ResultSPF, Zenon
  <2>2. \A a : a \in P <=> \/ M = {} /\ a = NewSPF(es[i])
                           \/ \E x \in M : Lacks(x) /\ a = MergedRecord(x, es[i].content)
    BY MergePuts
  <2>3. \A x, y \in M : x = y
    BY OneMergeable, Zenon
  <2> HIDE DEF M, P, Lacks
  <2>4. CASE M = {}
    BY <1>1, <2>1, <2>2, <2>4
  <2>5. CASE r \in M \/ s \in M
    <3>1. \A x \in M : ~Lacks(x)
      BY <2>1, <2>3, <2>5
    <3>2. P = {}
      BY <2>2, <2>5, <3>1
    <3> QED BY <1>1, <2>1, <2>3, <3>2
  <2>6. CASE M # {} /\ r \in P /\ s \in P
    BY <1>1, <2>2, <2>3, <2>6
  <2> QED BY <2>1, <2>4, <2>5, <2>6
<1> QED BY <1>1, Zenon DEF TwoSPF

LEMMA LeftAgain ==
    ASSUME NEW q, NEW es, NEW z, NEW r \in Left(q, es, z)
    PROVE  r \in Left(q, es, Result(q, es, z))
<1>1. r \in z /\ ~Owned(q, r) /\ Passes(es, Len(es), r)
  BY DEF Left, Foreign
<1>2. r \in Result(q, es, z)
  BY DEF Result
<1>3. r \in Foreign(q, Result(q, es, z))
  BY <1>1, <1>2 DEF Foreign
<1> QED BY <1>1, <1>3 DEF Left

\* An SPFM entry of the repeated call adds nothing new, and what it added before
\* is added again or left.
LEMMA MergeRepeats ==
    ASSUME NEW q, NEW es, NEW z, Regular(q, es, z), q.multi = "none",
           NEW i \in 1..Len(es), es[i].type = "SPFM", NEW a
    PROVE  /\ a \in Puts(q, es, Result(q, es, z), i) => a \in Puts(q, es, z, i)
           /\ a \in Puts(q, es, z, i) => \/ a \in Puts(q, es, Result(q, es, z), i)
                                         \/ a \in Left(q, es, Result(q, es, z))
<1> DEFINE y == Result(q, es, z)
           M == Mergeable(q, es, z, i)
           N == Mergeable(q, es, y, i)
           Lacks(r) == ~ContainsText(r.content, es[i].content)
           Deleted(r) == \E j \in 1..Len(es) : es[j].type # "SPFM" /\ Deletes(es[j], r)
           New == NewSPF(es[i])
           Merge(r) == MergedRecord(r, es[i].content)
<1>1. \A b : b \in Puts(q, es, z, i) <=> \/ M = {} /\ b = New
                                         \/ \E r \in M : Lacks(r) /\ b = Merge(r)
  BY MergePuts
<1>2. \A b : b \in Puts(q, es, y, i) <=> \/ N = {} /\ b = New
                                         \/ \E r \in N : Lacks(r) /\ b = Merge(r)
  BY MergePuts
\* Every SPF record at the name has the rules now.
<1>3. \A r : r \in N <=> r \in y /\ r.name = es[i].name /\ IsSPF(r) /\ ~Deleted(r)
  BY PlainForeign, Zenon DEF Mergeable
<1>4. \A r \in y : r.name = es[i].name /\ IsSPF(r) =>
         ~Lacks(r) /\ (r \in M \/ r \in Puts(q, es, z, i))
  BY ResultSPF, Zenon
<1>5. \A b \in Puts(q, es, z, i) : /\ b \in y /\ b.name = es[i].name /\ IsSPF(b)
                                   /\ ~Lacks(b) /\ b \in Records
  <2> TAKE b \in Puts(q, es, z, i)
  <2>1. b \in y
    BY PlainResult
  <2>2. Made(b, es[i]) /\ Serves(b, es[i]) /\ b \in Records /\ b.name = es[i].name
    BY PutsMade
  <2> QED BY <2>1, <2>2, Zenon DEF Serves
\* A merged record is deleted by an entry only if the record before it is.
<1>6. \A r \in M : Merge(r) \in Puts(q, es, z, i) => ~Deleted(Merge(r))
  <2> SUFFICES ASSUME NEW r \in M, Merge(r) \in Puts(q, es, z, i), Deleted(Merge(r))
               PROVE  FALSE
    OBVIOUS
  <2>1. PICK j \in 1..Len(es) : es[j].type # "SPFM" /\ Deletes(es[j], Merge(r))
    OBVIOUS
  <2>2. /\ Merge(r).name = es[i].name /\ IsSPF(Merge(r)) /\ Merge(r) \in Records
    BY <1>5
  <2>3. /\ r \in Records /\ r.name = es[i].name /\ IsSPF(r) /\ ~Deletes(es[j], r)
    BY <2>1, MergeableFacts
  <2> HIDE DEF Merge, M
  <2>4. Deletes(es[j], r)
    BY <2>1, <2>2, <2>3, SPFDeletes, Zenon
  <2> QED BY <2>3, <2>4
\* What the call left of those before is there to merge with again.
<1>7. \A r \in M : ~Lacks(r) => r \in N
  <2> SUFFICES ASSUME NEW r \in M, ~Lacks(r) PROVE r \in N
    OBVIOUS
  <2>1. /\ r \in z /\ r \in Foreign(q, z) /\ r.name = es[i].name /\ IsSPF(r) /\ ~Deleted(r)
    BY MergeableFacts
  <2>2. Passes(es, Len(es), r)
    BY <2>1, MergedLeft, Zenon
  <2>3. r \in Left(q, es, z)
    BY <2>1, <2>2 DEF Left
  <2>4. r \in y
    BY <2>3 DEF Result
  <2> QED BY <1>3, <2>1, <2>4
<1>8. \A b \in Puts(q, es, z, i) : ~Deleted(b) => b \in Left(q, es, y)
  <2> SUFFICES ASSUME NEW b \in Puts(q, es, z, i), ~Deleted(b) PROVE b \in Left(q, es, y)
    OBVIOUS
  <2>1. b \in y /\ b.name = es[i].name /\ IsSPF(b) /\ ~Lacks(b)
    BY <1>5
  <2>2. Passes(es, Len(es), b)
    BY <2>1, MergedLeft, Zenon
  <2>3. b \in Foreign(q, y)
    BY <2>1, PlainForeign
  <2> QED BY <2>2, <2>3 DEF Left
<1>9. \A r \in N : ~Lacks(r)
  BY <1>3, <1>4
<1>10. M # {} => N # {}
  <2> SUFFICES ASSUME NEW r \in M PROVE N # {}
    OBVIOUS
  <2>1. CASE ~Lacks(r)
    BY <1>7, <2>1
  <2>2. CASE Lacks(r)
    <3>1. Merge(r) \in Puts(q, es, z, i)
      BY <1>1, <2>2
    <3>2. Merge(r) \in N
      BY <1>3, <1>5, <1>6, <3>1
    <3> QED BY <3>2
  <2> QED BY <2>1, <2>2
<1> HIDE DEF M, N, Lacks, Deleted, New, Merge, y
<1>11. a \in Puts(q, es, y, i) => a \in Puts(q, es, z, i)
  BY <1>1, <1>2, <1>9, <1>10
<1>12. ASSUME a \in Puts(q, es, z, i), Deleted(a) PROVE a \in Puts(q, es, y, i)
  <2>1. M = {} /\ a = New
    BY <1>1, <1>6, <1>12
  <2>2. N = {}
    <3> SUFFICES ASSUME NEW r \in N PROVE FALSE
      OBVIOUS
    <3>1. r \in y /\ r.name = es[i].name /\ IsSPF(r) /\ ~Deleted(r)
      BY <1>3
    <3>2. r \in Puts(q, es, z, i)
      BY <1>4, <2>1, <3>1
    <3>3. r = New
      BY <1>1, <2>1, <3>2
    <3> QED BY <1>12, <2>1, <3>1, <3>3
  <2> QED BY <1>2, <2>1, <2>2
<1>13. a \in Puts(q, es, z, i) => a \in Puts(q, es, y, i) \/ a \in Left(q, es, y)
  BY <1>8, <1>12
<1> QED BY <1>11, <1>13 DEF y

LEMMA PlainRepeats ==
    ASSUME NEW q, NEW es, NEW z, Regular(q, es, z), q.multi = "none",
           NEW k \in 1..Len(es), es[k].type # "SPFM", NEW a
    PROVE  /\ a \in Puts(q, es, Result(q, es, z), k) => a \in Puts(q, es, z, k)
           /\ a \in Puts(q, es, z, k) => \/ a \in Puts(q, es, Result(q, es, z), k)
                                         \/ a \in Left(q, es, Result(q, es, z))
<1> DEFINE y == Result(q, es, z)
           f == es[k]
           Sooner == \E j \in 1..(k-1) : Like(es[j], f)
<1>1. a \in Puts(q, es, z, k) <=>
         a = Record(f) /\ ~(Finds(f) /\ (Sooner \/ \E r \in Left(q, es, z) : Like(r, f)))
  BY PlainPuts DEF Present
<1>2. a \in Puts(q, es, y, k) <=>
         a = Record(f) /\ ~(Finds(f) /\ (Sooner \/ \E r \in Left(q, es, y) : Like(r, f)))
  BY PlainPuts DEF Present
<1>3. \A r \in Left(q, es, z) : r \in Left(q, es, y)
  BY LeftAgain
<1>4. a \in Puts(q, es, y, k) => a \in Puts(q, es, z, k)
  BY <1>1, <1>2, <1>3, Zenon
\* Only the entry's own record is like it among those that were added.
<1>5. ASSUME a \in Puts(q, es, z, k), Finds(f), NEW r \in Left(q, es, y), Like(r, f)
      PROVE  a \in Left(q, es, y)
  <2>1. r \in y
    BY <1>5, PlainForeign DEF Left
  <2>2. r \notin Left(q, es, z)
    BY <1>1, <1>5
  <2>3. PICK j \in 1..Len(es) : r \in Puts(q, es, z, j)
    BY <2>1, <2>2, PlainResult
  <2>4. r.name = es[j].name
    BY <2>3, PutsMade
  <2>5. es[j] \in ResolvedEntry /\ Len(es) \in Nat
    BY RegularEntries, Zenon
  <2>6. CASE es[j].type = "SPFM"
    <3>1. IsSPF(r)
      <4>1. Serves(r, es[j])
        BY <2>3, PutsMade
      <4> QED BY <2>6, <4>1, Zenon DEF Serves
    <3>2. f.type = "TXT" /\ f.name = es[j].name /\ SpellsSPF(f.content)
      BY <1>5, <2>4, <3>1 DEF Like, IsSPF
    <3>3. ~SpellsSPF(f.content)
      BY <2>6, <3>2, Zenon DEF Regular
    <3> QED BY <3>2, <3>3
  <2>7. CASE es[j].type # "SPFM"
    <3>1. r = Record(es[j]) /\ ~(Finds(es[j]) /\ Present(q, es, z, j))
      BY <2>3, <2>7, PlainPuts
    <3>2. r.type = es[j].type /\ r.name = es[j].name /\ r.content = es[j].content
      BY <2>5, <2>7, <3>1, RecordMade, Zenon
    <3>3. Like(es[j], f) /\ Like(f, es[j]) /\ Finds(es[j])
      BY <1>5, <3>2 DEF Like, Finds
    <3>4. ~(j < k)
      <4> SUFFICES ASSUME j < k PROVE FALSE
        OBVIOUS
      <4>1. j \in 1..(k-1)
        BY <2>5
      <4>2. Sooner
        BY <3>3, <4>1
      <4> QED BY <1>1, <1>5, <4>2
    <3>5. ~(k < j)
      <4> SUFFICES ASSUME k < j PROVE FALSE
        OBVIOUS
      <4>1. k \in 1..(j-1)
        BY <2>5
      <4>2. Present(q, es, z, j)
        BY <3>3, <4>1 DEF Present
      <4> QED BY <3>1, <3>3, <4>2
    <3>6. j = k
      BY <2>5, <3>4, <3>5
    <3>7. a = Record(es[k])
      BY <1>1, <1>5
    <3>8. a = r
      BY <3>1, <3>6, <3>7
    <3> QED BY <1>5, <3>8
  <2> QED BY <2>6, <2>7
<1>6. a \in Puts(q, es, z, k) => a \in Puts(q, es, y, k) \/ a \in Left(q, es, y)
  <2> SUFFICES ASSUME a \in Puts(q, es, z, k), a \notin Puts(q, es, y, k)
               PROVE  a \in Left(q, es, y)
    OBVIOUS
  <2>1. Finds(f) /\ \E r \in Left(q, es, y) : Like(r, f)
    BY <1>1, <1>2
  <2> QED BY <1>5, <2>1
<1> QED BY <1>4, <1>6

LEMMA CallRepeats ==
    ASSUME NEW q, NEW es, NEW z, Regular(q, es, z), q.multi = "none"
    PROVE  Result(q, es, Result(q, es, z)) = Result(q, es, z)
<1> DEFINE y == Result(q, es, z)
<1>1. ASSUME NEW k \in 1..Len(es), NEW a
      PROVE  /\ a \in Puts(q, es, y, k) => a \in Puts(q, es, z, k)
             /\ a \in Puts(q, es, z, k) => a \in Puts(q, es, y, k) \/ a \in Left(q, es, y)
  BY MergeRepeats, PlainRepeats, Zenon
<1>2. \A r : r \in y <=> r \in Left(q, es, z) \/ \E k \in 1..Len(es) : r \in Puts(q, es, z, k)
  BY PlainResult
<1>3. \A r : r \in Result(q, es, y) <=>
                r \in Left(q, es, y) \/ \E k \in 1..Len(es) : r \in Puts(q, es, y, k)
  BY PlainResult
<1>4. \A r \in Left(q, es, z) : r \in Left(q, es, y)
  BY LeftAgain
<1>5. \A r \in Left(q, es, y) : r \in y
  BY PlainForeign DEF Left
<1> HIDE DEF y
<1>6. \A r : r \in Result(q, es, y) <=> r \in y
  BY <1>1, <1>2, <1>3, <1>4, <1>5
<1>7. Result(q, es, y) = y
  BY <1>6
<1> QED BY <1>7 DEF y

-----------------------------------------------------------------------------
(* A multi-aware call.                                                      *)

\* What the _dc metadata of the added records are.
StampsOK(q, es) ==
    \A a \in Records : a.dc = Free =>
        /\ Stamped(q, es, a) \in Records /\ Key(Stamped(q, es, a)) = Key(a)
        /\ q.multi = "none" => Stamped(q, es, a) = a
        /\ q.multi # "none" => /\ Stamped(q, es, a).dc # Free
                               /\ Stamped(q, es, a).dc.provider = q.provider
                               /\ Stamped(q, es, a).dc.service = q.service
                               /\ Stamped(q, es, a).dc.id = q.id

LEMMA ResultParts ==
    ASSUME NEW q, NEW es, NEW z, NEW r
    PROVE  r \in Result(q, es, z) <=>
              \/ r \in Left(q, es, z)
              \/ r \in Back(q, es, z)
              \/ \E a \in Put(q, es, z) : r = Stamped(q, es, a)
BY DEF Result

LEMMA PutFacts ==
    ASSUME NEW q, NEW es, NEW z, Regular(q, es, z), NEW a \in Put(q, es, z)
    PROVE  /\ a \in Records /\ a.dc = Free
           /\ \E k \in 1..Len(es) : a \in Puts(q, es, z, k)
<1>1. PICK k \in 1..Len(es) : a \in Puts(q, es, z, k)
  BY DEF Put
<1> QED BY <1>1, PutsMade

LEMMA BackFacts ==
    ASSUME NEW q, NEW es, NEW z, NEW r \in Back(q, es, z)
    PROVE  /\ r \in z /\ Owned(q, r)
           /\ r \in Restorable(q, z) /\ Back(q, es, z) = Restorable(q, z)
           /\ \A a \in Put(q, es, z) : r.type # a.type \/ r.name # a.name
<1>1. /\ ~\E c \in Restorable(q, z), a \in Put(q, es, z) : c.type = a.type /\ c.name = a.name
      /\ Back(q, es, z) = Restorable(q, z)
  BY DEF Back
<1>2. r \in Restorable(q, z)
  BY <1>1
<1>3. r \in z /\ Owned(q, r)
  BY <1>2 DEF Restorable
<1> QED BY <1>1, <1>2, <1>3

LEMMA StampOwned ==
    ASSUME NEW q, NEW es, NEW z, Regular(q, es, z), StampsOK(q, es), q.multi # "none",
           NEW a \in Put(q, es, z)
    PROVE  Owned(q, Stamped(q, es, a)) /\ Stamped(q, es, a).dc.service = q.service
<1>1. a \in Records /\ a.dc = Free
  BY PutFacts, Zenon
<1>2. /\ Stamped(q, es, a).dc # Free
      /\ Stamped(q, es, a).dc.provider = q.provider
      /\ Stamped(q, es, a).dc.service = q.service
      /\ Stamped(q, es, a).dc.id = q.id
  BY <1>1, Zenon DEF StampsOK
<1> QED BY <1>2, Zenon DEF Owned

LEMMA ServiceRepeats ==
    ASSUME NEW q, NEW es, NEW z, Regular(q, es, z), StampsOK(q, es), q.multi # "none"
    PROVE  Result(q, es, Result(q, es, z)) = Result(q, es, z)
<1> DEFINE y == Result(q, es, z)
\* What the call leaves and is not its own was left before.
<1>1. ASSUME NEW r \in Left(q, es, y) PROVE r \in Left(q, es, z)
  <2>1. r \in y /\ ~Owned(q, r)
    BY DEF Left, Foreign
  <2>2. r \notin Back(q, es, z)
    BY <2>1, BackFacts
  <2>3. \A a \in Put(q, es, z) : r # Stamped(q, es, a)
    BY <2>1, StampOwned
  <2> QED BY <2>1, <2>2, <2>3, ResultParts
<1>2. Left(q, es, y) = Left(q, es, z)
  BY <1>1, LeftAgain
<1>3. \A k \in 1..Len(es) : es[k].type # "SPFM"
  BY Zenon DEF Regular
<1>4. \A k : Present(q, es, y, k) <=> Present(q, es, z, k)
  BY <1>2, Zenon DEF Present
<1>5. ASSUME NEW k \in 1..Len(es), NEW a
      PROVE  a \in Puts(q, es, y, k) <=> a \in Puts(q, es, z, k)
  BY <1>3, <1>4, PlainPuts
<1>6. Put(q, es, y) = Put(q, es, z)
  <2>1. \A a : a \in Put(q, es, y) <=> \E k \in 1..Len(es) : a \in Puts(q, es, y, k)
    BY DEF Put
  <2>2. \A a : a \in Put(q, es, z) <=> \E k \in 1..Len(es) : a \in Puts(q, es, z, k)
    BY DEF Put
  <2> HIDE DEF y
  <2> QED BY <1>5, <2>1, <2>2
\* The restored records are the ones that may be restored.
<1>7. Restorable(q, y) = Back(q, es, z)
  <2>1. ASSUME NEW r \in Restorable(q, y) PROVE r \in Back(q, es, z)
    <3>1. r \in y /\ Owned(q, r) /\ r.dc.service # q.service
      BY DEF Restorable
    <3>2. r \notin Left(q, es, z)
      BY <3>1 DEF Left, Foreign
    <3>3. \A a \in Put(q, es, z) : r # Stamped(q, es, a)
      BY <3>1, StampOwned
    <3> QED BY <3>1, <3>2, <3>3, ResultParts
  <2>2. ASSUME NEW r \in Back(q, es, z) PROVE r \in Restorable(q, y)
    <3>1. r \in Restorable(q, z)
      BY BackFacts
    <3>2. r \in y
      BY ResultParts
    <3> QED BY <3>1, <3>2 DEF Restorable
  <2> QED BY <2>1, <2>2
<1>8. Back(q, es, y) = Back(q, es, z)
  <2>1. ~\E c \in Back(q, es, z), a \in Put(q, es, z) : c.type = a.type /\ c.name = a.name
    BY BackFacts
  <2>2. ~\E c \in Restorable(q, y), a \in Put(q, es, y) : c.type = a.type /\ c.name = a.name
    BY <1>6, <1>7, <2>1
  <2>3. Back(q, es, y) = Restorable(q, y)
    BY <2>2 DEF Back
  <2> QED BY <1>7, <2>3
<1> HIDE DEF y
<1>9. \A r : r \in Result(q, es, y) <=>
                \/ r \in Left(q, es, z)
                \/ r \in Back(q, es, z)
                \/ \E a \in Put(q, es, z) : r = Stamped(q, es, a)
  BY <1>2, <1>6, <1>8, ResultParts
<1>10. \A r : r \in Result(q, es, y) <=> r \in Result(q, es, z)
  BY <1>9, ResultParts
<1>11. Result(q, es, y) = Result(q, es, z)
  BY <1>10
<1> QED BY <1>11 DEF y

\* No record is left beside an equal one that is added.
LEMMA LeftApart ==
    ASSUME NEW q, NEW es, NEW z, Regular(q, es, z), q.multi # "none",
           NEW r \in Left(q, es, z), NEW a \in Put(q, es, z)
    PROVE  Key(r) # Key(a)
<1> SUFFICES ASSUME Key(r) = Key(a) PROVE FALSE
  OBVIOUS
<1>1. PICK k \in 1..Len(es) : a \in Puts(q, es, z, k)
  BY PutFacts
<1>2. es[k].type # "SPFM" /\ es[k] \in ResolvedEntry /\ ResolvedOK(es)
  BY RegularEntries, Zenon DEF Regular
<1>3. a = Record(es[k]) /\ ~(Finds(es[k]) /\ Present(q, es, z, k))
  BY <1>1, <1>2, PlainPuts
<1>4. a.type = es[k].type /\ a.name = es[k].name /\ a.content = es[k].content
  BY <1>2, <1>3, RecordMade, Zenon
<1>5. r.type = es[k].type /\ r.name = es[k].name /\ r.content = es[k].content
  BY <1>4, SameKey
<1>6. CASE Finds(es[k])
  BY <1>3, <1>5, <1>6, Zenon DEF Present, Like
<1>7. CASE ~Finds(es[k])
  <2>1. \E j \in 1..Len(es) : Deletes(es[j], r)
    BY <1>2, <1>5, <1>7, OwnDelete
  <2> QED BY <2>1, Zenon DEF Left, Passes
<1> QED BY <1>6, <1>7

LEMMA ServiceNoTwins ==
    ASSUME NEW q, NEW es, NEW z, Regular(q, es, z), StampsOK(q, es), q.multi # "none"
    PROVE  NoTwins(Result(q, es, z))
<1> DEFINE Remains(r) == r \in Left(q, es, z) \/ r \in Back(q, es, z)
<1>1. \A r : Remains(r) => r \in z
  BY BackFacts DEF Left, Foreign
<1>2. \A a \in Put(q, es, z) : /\ a \in Records /\ a.dc = Free
                               /\ Key(Stamped(q, es, a)) = Key(a)
  BY PutFacts, Zenon DEF StampsOK
<1>3. ASSUME NEW r, Remains(r), NEW a \in Put(q, es, z), Key(r) = Key(Stamped(q, es, a)) PROVE FALSE
  <2>1. Key(r) = Key(a)
    BY <1>2, <1>3
  <2>2. CASE r \in Left(q, es, z)
    BY <2>1, <2>2, LeftApart
  <2>3. CASE r \in Back(q, es, z)
    BY <2>1, <2>3, BackFacts, SameKey
  <2> QED BY <1>3, <2>2, <2>3
<1>4. \A r \in Result(q, es, z) :
         Remains(r) \/ \E a \in Put(q, es, z) : r = Stamped(q, es, a)
  BY ResultParts
<1>5. \A r, s \in z : Key(r) = Key(s) => r = s
  BY Zenon DEF Regular, NoTwins
<1> HIDE DEF Remains
<1>6. ASSUME NEW r \in Result(q, es, z), NEW s \in Result(q, es, z), Key(r) = Key(s)
      PROVE  r = s
  <2>1. CASE Remains(r) /\ Remains(s)
    BY <1>1, <1>5, <1>6, <2>1
  <2>2. CASE \E a \in Put(q, es, z) : r = Stamped(q, es, a)
    <3>1. PICK a \in Put(q, es, z) : r = Stamped(q, es, a)
      BY <2>2
    <3>2. PICK b \in Put(q, es, z) : s = Stamped(q, es, b)
      BY <1>3, <1>4, <1>6, <3>1
    <3>3. Key(a) = Key(b)
      BY <1>2, <1>6, <3>1, <3>2
    <3>4. a = b
      BY <1>2, <3>3, SameRecord
    <3> QED BY <3>1, <3>2, <3>4
  <2>3. CASE \E a \in Put(q, es, z) : s = Stamped(q, es, a)
    BY <1>3, <1>4, <1>6, <2>2, <2>3
  <2> QED BY <1>4, <2>1, <2>2, <2>3
<1> QED BY <1>6 DEF NoTwins

\* The zone that a call leaves is one that a call may be repeated on.
LEMMA RegularAgain ==
    ASSUME NEW q, NEW es, NEW z, Regular(q, es, z), StampsOK(q, es),
           Result(q, es, z) \subseteq Records
    PROVE  /\ Regular(q, es, Result(q, es, z))
           /\ Result(q, es, Result(q, es, z)) = Result(q, es, z)
<1> DEFINE y == Result(q, es, z)
<1>1. y \subseteq Records
  OBVIOUS
<1>2. \A i \in 1..Len(es) : es[i].type = "SPFM" => q.multi = "none"
  BY Zenon DEF Regular
<1>3. \A i \in 1..Len(es) : es[i].type = "SPFM" => ~TwoSPF(y, es[i].name)
  BY <1>2, ResultOneSPF
<1>4. q.multi # "none" => NoTwins(y)
  BY ServiceNoTwins
<1>5. y = Result(q, es, z)
  OBVIOUS
<1> HIDE DEF y
<1>6. Regular(q, es, y)
  BY <1>1, <1>2, <1>3, <1>4, Zenon DEF Regular
<1>7. Result(q, es, Result(q, es, z)) = Result(q, es, z)
  <2>1. CASE q.multi = "none"
    BY <2>1, CallRepeats
  <2>2. CASE q.multi # "none"
    BY <2>2, ServiceRepeats
  <2> QED BY <2>1, <2>2
<1> QED BY <1>5, <1>6, <1>7

-----------------------------------------------------------------------------
(* A run adds and deletes what the result says.                             *)

\* The call that is under way, after next - 1 entries.
RunExact ==
    Regular(req, resolved, zone) =>
    /\ \A a : a \in toAdd <=> \E k \in 1..(next-1) : a \in Puts(req, resolved, zone, k)
    /\ \A r \in Foreign(req, zone) : Passes(resolved, next - 1, r) => r \in work
    /\ \A r \in work : \/ r \in toAdd
                       \/ r \in Foreign(req, zone) /\ Passes(resolved, next - 1, r)
    /\ \A k \in 1..(next-1) :
          Finds(resolved[k]) /\ Record(resolved[k]) \in Puts(req, resolved, zone, k) =>
              Record(resolved[k]) \in work
    /\ \A r \in Foreign(req, zone) : ~Passes(resolved, next - 1, r) => Key(r) \in Keys(toDelete)
    /\ \A d \in toDelete :
          \/ d \in OwnedRecords(req)
          \/ /\ d \in Foreign(req, zone) \/ d \in toAdd
             /\ ~Passes(resolved, next - 1, d)

\* The step deletes and adds what the result says.
Exact(dels, adds) ==
    /\ dels \subseteq work
    /\ \A d \in dels : Deletes(Entry, d)
    /\ \A r \in work : r \in Foreign(req, zone) /\ Deletes(Entry, r) => r \in dels
    /\ \A a : a \in adds <=> a \in Puts(req, resolved, zone, next)

\* The loop is at an entry of a call that may be repeated.
AtExact == AtEntry /\ RunExact /\ Regular(req, resolved, zone)

LEMMA ExactFacts ==
    ASSUME AtExact
    PROVE  /\ \A a : a \in toAdd <=> \E k \in 1..(next-1) : a \in Puts(req, resolved, zone, k)
           /\ \A r \in Foreign(req, zone) : Passes(resolved, next - 1, r) => r \in work
           /\ \A r \in work : \/ r \in toAdd
                              \/ r \in Foreign(req, zone) /\ Passes(resolved, next - 1, r)
           /\ \A k \in 1..(next-1) :
                 Finds(resolved[k]) /\ Record(resolved[k]) \in Puts(req, resolved, zone, k) =>
                     Record(resolved[k]) \in work
           /\ \A r \in Foreign(req, zone) :
                 ~Passes(resolved, next - 1, r) => Key(r) \in Keys(toDelete)
           /\ \A d \in toDelete :
                 \/ d \in OwnedRecords(req)
                 \/ /\ d \in Foreign(req, zone) \/ d \in toAdd
                    /\ ~Passes(resolved, next - 1, d)
BY Zenon DEF AtExact, RunExact

LEMMA PassesNext ==
    ASSUME NEW es, NEW n \in Nat, n > 0, NEW r
    PROVE  Passes(es, n, r) <=> Passes(es, n - 1, r) /\ ~Deletes(es[n], r)
<1>1. \A k : k \in 1..n <=> k \in 1..(n-1) \/ k = n
  OBVIOUS
<1> QED BY <1>1, Zenon DEF Passes

LEMMA ExactStep ==
    ASSUME AtExact, NEW dels, NEW adds, Exact(dels, adds), Change(dels, adds)
    PROVE  RunExact'
<1>1. /\ next \in 1..Len(resolved) /\ Entry = resolved[next] /\ Len(resolved) \in Nat
      /\ DOMAIN resolved = 1..Len(resolved)
      /\ \A k \in 1..Len(resolved) : resolved[k] \in ResolvedEntry
      /\ next \in Nat
  BY AtEntryFacts, Zenon DEF AtExact
<1>2. /\ toDelete' = toDelete \cup dels /\ toAdd' = toAdd \cup adds
      /\ work' = {r \in work : Key(r) \notin Keys(dels)} \cup adds
      /\ next' = next + 1
      /\ zone' = zone /\ req' = req /\ resolved' = resolved
  BY Zenon DEF Change
<1>3. /\ dels \subseteq work
      /\ \A d \in dels : Deletes(resolved[next], d)
      /\ \A r \in work : r \in Foreign(req, zone) /\ Deletes(resolved[next], r) => r \in dels
      /\ \A a : a \in adds <=> a \in Puts(req, resolved, zone, next)
  BY <1>1, Zenon DEF Exact
<1>4. next' - 1 = next /\ next > 0
  BY <1>1, <1>2
<1>5. \A r : Passes(resolved, next, r) <=>
                Passes(resolved, next - 1, r) /\ ~Deletes(resolved[next], r)
  BY <1>1, <1>4, PassesNext
<1>6. \A k : k \in 1..next <=> k \in 1..(next-1) \/ k = next
  BY <1>1, <1>4
<1>7. OwnedRecords(req)' = OwnedRecords(req)
  BY <1>2, Zenon DEF OwnedRecords
\* A record that the entry does not delete keeps its place.
<1>8. \A r \in work : ~Deletes(resolved[next], r) => Key(r) \notin Keys(dels)
  <2> SUFFICES ASSUME NEW r \in work, Key(r) \in Keys(dels) PROVE Deletes(resolved[next], r)
    OBVIOUS
  <2>1. PICK d \in dels : Key(d) = Key(r)
    BY InKeys, Zenon
  <2> QED BY <1>3, <2>1, SameDeletes, Zenon
<1>9. \A a : a \in toAdd' <=> \E k \in 1..next : a \in Puts(req, resolved, zone, k)
  <2>1. \A a : a \in toAdd' <=> a \in toAdd \/ a \in adds
    BY <1>2
  <2> QED BY <1>3, <1>6, <2>1, ExactFacts, Zenon
<1>10. ASSUME NEW r \in Foreign(req, zone), Passes(resolved, next, r) PROVE r \in work'
  <2>1. r \in work /\ ~Deletes(resolved[next], r)
    BY <1>5, <1>10, ExactFacts, Zenon
  <2>2. Key(r) \notin Keys(dels)
    BY <1>8, <2>1, Zenon
  <2> QED BY <1>2, <2>1, <2>2
<1>11. ASSUME NEW r \in work'
       PROVE  r \in toAdd' \/ (r \in Foreign(req, zone) /\ Passes(resolved, next, r))
  <2>1. CASE r \in adds
    BY <1>2, <2>1
  <2>2. CASE r \in work /\ Key(r) \notin Keys(dels)
    <3>1. r \notin dels
      BY <2>2, InKeys, Zenon
    <3>2. r \in toAdd \/ (r \in Foreign(req, zone) /\ Passes(resolved, next - 1, r))
      BY <2>2, ExactFacts, Zenon
    <3>3. r \in toAdd => r \in toAdd'
      BY <1>2
    <3> QED BY <1>3, <1>5, <2>2, <3>1, <3>2, <3>3, Zenon
  <2> QED BY <1>2, <1>11, <2>1, <2>2
<1>12. ASSUME NEW k \in 1..next, Finds(resolved[k]),
              Record(resolved[k]) \in Puts(req, resolved, zone, k)
       PROVE  Record(resolved[k]) \in work'
  <2>1. CASE k = next
    BY <1>2, <1>3, <1>12, <2>1
  <2>2. CASE k \in 1..(next-1)
    <3> DEFINE a == Record(resolved[k])
    <3>1. a \in work
      BY <1>12, <2>2, ExactFacts, Zenon
    <3>2. k \in 1..Len(resolved) /\ k < next /\ k # next
      BY <1>1, <2>2
    <3>3. resolved[k].type # "SPFM"
      BY <1>12 DEF Finds, Core
    <3>4. Like(a, resolved[k])
      BY <1>1, <3>2, <3>3, RecordMade, Zenon DEF Like
    <3>5. ~Overlaps(resolved[next], resolved[k]) /\ ~Clash(resolved[next], resolved[k])
      <4>1. Regular(req, resolved, zone)
        BY Zenon DEF AtExact
      <4>2. ~Overlaps(resolved[next], resolved[k])
        BY <1>1, <3>2, <4>1, Zenon DEF Regular
      <4>3. ~Clash(resolved[next], resolved[k])
        BY <1>1, <3>2, <4>1, RegularEntries
      <4> QED BY <4>2, <4>3
    <3> HIDE DEF a
    <3>6. ~Deletes(resolved[next], a)
      BY <1>12, <3>4, <3>5, FoundOverlap, Zenon
    <3>7. Key(a) \notin Keys(dels)
      BY <1>8, <3>1, <3>6, Zenon
    <3>8. a \in work'
      BY <1>2, <3>1, <3>7
    <3> QED BY <3>8 DEF a
  <2> QED BY <1>6, <2>1, <2>2
<1>13. \A k : k \in Keys(toDelete') <=> k \in Keys(toDelete) \/ k \in Keys(dels)
  <2>1. \A k : k \in Keys(toDelete') <=> \E s \in toDelete \cup dels : Key(s) = k
    BY <1>2, InKeys, Zenon
  <2> QED BY <2>1, InKeys, Zenon
<1>14. ASSUME NEW r \in Foreign(req, zone), ~Passes(resolved, next, r)
       PROVE  Key(r) \in Keys(toDelete')
  <2>1. CASE ~Passes(resolved, next - 1, r)
    BY <1>13, <2>1, ExactFacts, Zenon
  <2>2. CASE Passes(resolved, next - 1, r)
    <3>1. r \in work /\ Deletes(resolved[next], r)
      BY <1>5, <1>14, <2>2, ExactFacts, Zenon
    <3>2. r \in dels
      BY <1>3, <3>1, Zenon
    <3> QED BY <1>13, <3>2, InKeys, Zenon
  <2> QED BY <2>1, <2>2
<1>15. ASSUME NEW d \in toDelete'
       PROVE  \/ d \in OwnedRecords(req)
              \/ /\ d \in Foreign(req, zone) \/ d \in toAdd'
                 /\ ~Passes(resolved, next, d)
  <2>1. d \in toAdd => d \in toAdd'
    BY <1>2
  <2>2. CASE d \in toDelete
    BY <1>5, <2>1, <2>2, ExactFacts, Zenon
  <2>3. CASE d \in dels
    <3>1. d \in work /\ Deletes(resolved[next], d)
      BY <1>3, <2>3
    <3> QED BY <1>5, <2>1, <3>1, ExactFacts, Zenon
  <2> QED BY <1>2, <1>15, <2>2, <2>3
<1> QED
  BY <1>2, <1>4, <1>7, <1>9, <1>10, <1>11, <1>12, <1>14, <1>15 DEF RunExact

Deleting(dels) ==
    /\ dels \subseteq work
    /\ \A d \in dels : Deletes(Entry, d)
    /\ \A r \in work : r \in Foreign(req, zone) /\ Deletes(Entry, r) => r \in dels

LEMMA ForeignOriginal ==
    ASSUME NEW r \in Foreign(req, zone)
    PROVE  Original(r)
<1>1. r \in {o \in zone : ~Owned(req, o)}
  BY DEF Foreign
<1> QED BY <1>1, InKeys, Zenon DEF Original

\* An entry that adds its record whatever is there.
LEMMA PutExact ==
    ASSUME AtExact, Entry.type # "SPFM", ~Finds(Entry), NEW dels, Deleting(dels)
    PROVE  Exact(dels, {Record(Entry)})
<1>1. Entry = resolved[next]
  BY DEF Entry
<1>2. \A a : a \in Puts(req, resolved, zone, next) <=> a = Record(Entry)
  BY <1>1, PlainPuts
<1> QED BY <1>2 DEF Exact, Deleting

\* The first entry with the type, name and content of entry k.
LEMMA FirstLike ==
    ASSUME NEW es, NEW k \in Nat, NEW j \in 1..(k-1), Like(es[j], es[k])
    PROVE  \E i \in 1..(k-1) : Like(es[i], es[k]) /\ \A h \in 1..(i-1) : ~Like(es[h], es[i])
<1> DEFINE T == {i \in 1..(k-1) : Like(es[i], es[k])}
<1>1. T \subseteq Nat /\ T # {}
  OBVIOUS
<1>2. PICK i \in T : \A h \in T : i <= h
  BY <1>1, LeastElement
<1>3. i \in 1..(k-1) /\ Like(es[i], es[k])
  OBVIOUS
<1>4. ASSUME NEW h \in 1..(i-1), Like(es[h], es[i]) PROVE FALSE
  <2>1. Like(es[h], es[k])
    BY <1>3, <1>4 DEF Like
  <2>2. h \in T /\ ~(i <= h)
    BY <1>3, <2>1
  <2> QED BY <1>2, <2>2
<1> QED BY <1>3, <1>4

\* An entry that adds its record unless it finds it.
LEMMA FindExact ==
    ASSUME AtExact, Finds(Entry), NEW dels, Deleting(dels)
    PROVE  Exact(dels, Missing(Entry, dels))
<1> DEFINE Found(r) == /\ r.type = Entry.type /\ r.name = Entry.name
                       /\ r.content = Entry.content
                       /\ Key(r) \notin Keys(dels)
<1>1. /\ next \in 1..Len(resolved) /\ Entry = resolved[next] /\ Len(resolved) \in Nat
      /\ \A k \in 1..Len(resolved) : resolved[k] \in ResolvedEntry
      /\ next \in Nat
  BY AtEntryFacts, Zenon DEF AtExact
<1>2. Regular(req, resolved, zone)
  BY Zenon DEF AtExact
<1>3. Entry.type # "SPFM"
  BY DEF Finds, Core
<1>4. \A a : a \in Puts(req, resolved, zone, next) <=>
                a = Record(Entry) /\ ~Present(req, resolved, zone, next)
  BY <1>1, <1>3, PlainPuts
<1>5. \A k \in 1..Len(resolved) : \A r :
         k # next /\ Finds(resolved[k]) /\ Like(r, resolved[k]) /\ Deletes(resolved[next], r) =>
            ~(k < next)
  <2> SUFFICES ASSUME NEW k \in 1..Len(resolved), NEW r, k # next, Finds(resolved[k]),
                      Like(r, resolved[k]), Deletes(resolved[next], r), k < next
               PROVE  FALSE
    OBVIOUS
  <2>1. ~Clash(resolved[next], resolved[k])
    BY <1>1, <1>2, RegularEntries
  <2>2. Overlaps(resolved[next], resolved[k])
    BY <2>1, FoundOverlap, Zenon
  <2> QED BY <1>1, <1>2, <2>2, Zenon DEF Regular
\* What is present of the entry is found in the working copy.
<1>6. ASSUME Present(req, resolved, zone, next) PROVE \E r \in work : Found(r)
  <2>1. ASSUME NEW r \in Left(req, resolved, zone), Like(r, Entry) PROVE \E s \in work : Found(s)
    <3>1. r \in Foreign(req, zone) /\ \A k \in 1..Len(resolved) : ~Deletes(resolved[k], r)
      BY DEF Left, Passes
    <3>2. Passes(resolved, next - 1, r)
      BY <1>1, <3>1 DEF Passes
    <3>3. r \in work
      BY <3>1, <3>2, ExactFacts, Zenon
    <3>4. Key(r) \notin Keys(dels)
      <4> SUFFICES ASSUME Key(r) \in Keys(dels) PROVE FALSE
        OBVIOUS
      <4>1. PICK d \in dels : Key(d) = Key(r)
        BY InKeys, Zenon
      <4>2. Deletes(resolved[next], r)
        BY <1>1, <4>1, SameDeletes, Zenon DEF Deleting
      <4> QED BY <1>1, <3>1, <4>2
    <3> QED BY <2>1, <3>3, <3>4, Zenon DEF Like
  <2>2. ASSUME NEW j \in 1..(next-1), Like(resolved[j], resolved[next])
        PROVE  \E s \in work : Found(s)
    <3>1. PICK i \in 1..(next-1) : /\ Like(resolved[i], resolved[next])
                                   /\ \A h \in 1..(i-1) : ~Like(resolved[h], resolved[i])
      BY <1>1, <2>2, FirstLike
    <3>2. i \in 1..Len(resolved) /\ i # next /\ i < next
      BY <1>1
    <3>3. /\ resolved[i].type = Entry.type /\ resolved[i].name = Entry.name
          /\ resolved[i].content = Entry.content
      BY <1>1, <3>1, Zenon DEF Like
    <3>4. Finds(resolved[i]) /\ resolved[i].type # "SPFM"
      BY <1>3, <3>3, Zenon DEF Finds
    <3>5. CASE \E r \in Left(req, resolved, zone) : Like(r, resolved[i])
      BY <2>1, <3>3, <3>5, Zenon DEF Like
    <3>6. CASE ~\E r \in Left(req, resolved, zone) : Like(r, resolved[i])
      <4> DEFINE a == Record(resolved[i])
      <4>1. ~Present(req, resolved, zone, i)
        BY <3>1, <3>6, Zenon DEF Present
      <4>2. a \in Puts(req, resolved, zone, i)
        BY <3>4, <4>1, PlainPuts
      <4>3. a \in work
        BY <3>4, <4>2, ExactFacts, Zenon
      <4>4. a.type = resolved[i].type /\ a.name = resolved[i].name /\ a.content = resolved[i].content
        BY <1>1, <3>2, <3>4, RecordMade, Zenon
      <4> HIDE DEF a
      <4>5. Key(a) \notin Keys(dels)
        <5> SUFFICES ASSUME Key(a) \in Keys(dels) PROVE FALSE
          OBVIOUS
        <5>1. PICK d \in dels : Key(d) = Key(a)
          BY InKeys, Zenon
        <5>2. Deletes(resolved[next], a)
          BY <1>1, <5>1, SameDeletes, Zenon DEF Deleting
        <5>3. Like(a, resolved[i])
          BY <4>4, Zenon DEF Like
        <5> QED BY <1>5, <3>2, <3>4, <5>2, <5>3, Zenon
      <4>6. Found(a)
        BY <3>3, <4>4, <4>5
      <4> QED BY <4>3, <4>6
    <3> QED BY <3>5, <3>6
  <2> QED BY <1>1, <1>6, <2>1, <2>2, Zenon DEF Present
\* What is found is an earlier entry's, or will be left.
<1>7. ASSUME NEW r \in work, Found(r) PROVE Present(req, resolved, zone, next)
  <2>1. Like(r, resolved[next])
    BY <1>1, <1>7, Zenon DEF Like
  <2>2. CASE r \in toAdd
    <3>1. PICK j \in 1..(next-1) : r \in Puts(req, resolved, zone, j)
      BY <2>2, ExactFacts, Zenon
    <3>2. j \in 1..Len(resolved)
      BY <1>1
    <3>3. r.name = resolved[j].name /\ Made(r, resolved[j])
      BY <1>2, <3>1, <3>2, PutsMade
    <3>4. CASE resolved[j].type = "SPFM"
      <4>1. IsSPF(r)
        BY <3>3, <3>4, Zenon DEF Made, Serves
      <4>2. /\ resolved[next].type = "TXT" /\ resolved[next].name = resolved[j].name
            /\ SpellsSPF(resolved[next].content)
        BY <2>1, <3>3, <4>1, Zenon DEF Like, IsSPF
      <4>3. ~SpellsSPF(resolved[next].content)
        BY <1>1, <1>2, <3>2, <3>4, <4>2, Zenon DEF Regular
      <4> QED BY <4>2, <4>3
    <3>5. CASE resolved[j].type # "SPFM"
      <4>1. r = Record(resolved[j])
        BY <3>3, <3>5, Zenon DEF Made
      <4>2. /\ r.type = resolved[j].type /\ r.name = resolved[j].name
            /\ r.content = resolved[j].content
        BY <1>1, <3>2, <3>5, <4>1, RecordMade, Zenon
      <4>3. Like(resolved[j], resolved[next])
        BY <2>1, <4>2, Zenon DEF Like
      <4> QED BY <4>3, Zenon DEF Present
    <3> QED BY <3>4, <3>5
  <2>3. CASE r \in Foreign(req, zone) /\ Passes(resolved, next - 1, r)
    <3>1. ASSUME NEW j \in 1..Len(resolved), Deletes(resolved[j], r) PROVE FALSE
      <4>1. CASE j \in 1..(next-1)
        BY <2>3, <3>1, <4>1, Zenon DEF Passes
      <4>2. CASE j = next
        <5>1. r \in dels
          BY <1>1, <2>3, <3>1, <4>2, Zenon DEF Deleting
        <5> QED BY <1>7, <5>1, InKeys, Zenon
      <4>3. CASE next < j
        <5>1. ~Clash(resolved[j], resolved[next])
          BY <1>1, <1>2, <4>3, RegularEntries
        <5>2. Overlaps(resolved[j], resolved[next])
          BY <1>1, <2>1, <3>1, <5>1, FoundOverlap, Zenon
        <5> QED BY <1>1, <1>2, <4>3, <5>2, Zenon DEF Regular
      <4> QED BY <1>1, <4>1, <4>2, <4>3
    <3>2. r \in Left(req, resolved, zone)
      BY <2>3, <3>1 DEF Left, Passes
    <3> QED BY <2>1, <3>2, Zenon DEF Present
  <2> QED BY <2>2, <2>3, ExactFacts, Zenon
<1>8. \A a : a \in Missing(Entry, dels) <=> a \in Puts(req, resolved, zone, next)
  <2>1. CASE \E r \in work : Found(r)
    <3>1. Missing(Entry, dels) = {}
      BY <2>1, Zenon DEF Missing
    <3>2. Present(req, resolved, zone, next)
      BY <1>7, <2>1
    <3> QED BY <1>4, <3>1, <3>2
  <2>2. CASE ~\E r \in work : Found(r)
    <3>1. Missing(Entry, dels) = {Record(Entry)}
      BY <2>2, Zenon DEF Missing
    <3>2. ~Present(req, resolved, zone, next)
      BY <1>6, <2>2
    <3> QED BY <1>4, <3>1, <3>2
  <2> QED BY <2>1, <2>2
<1> QED BY <1>8, Zenon DEF Exact, Deleting

\* The cases of the switch that add their record whatever is there.
LEMMA PlainActions ==
    ASSUME AtExact,
           \/ AddBacking \/ PutCNAME \/ PutAddress \/ PutMX \/ PutNS \/ PutSRV
           \/ PutRedirect \/ PutApexCNAME
    PROVE  RunExact'
<1> DEFINE Plainly == \E dels : Deleting(dels) /\ Change(dels, {Record(Entry)})
           Always == Entry.type \in Addresses \cup Redirects
                                      \cup {"CNAME", "MX", "NS", "SRV", "APEXCNAME"}
<1>1. ASSUME AddBacking PROVE Plainly /\ Always
  <2>1. Entry.backing /\ Change({}, {Record(Entry)})
    BY <1>1, Zenon DEF AddBacking
  <2>2. ~\E r : Deletes(Entry, r)
    BY <2>1, Zenon DEF Deletes
  <2>3. Deleting({})
    BY <2>2 DEF Deleting
  <2>4. Entry.type \in Addresses
    <3>1. /\ next \in 1..Len(resolved) /\ Entry = resolved[next]
      BY AtEntryFacts, Zenon DEF AtExact
    <3>2. ResolvedOK(resolved)
      BY Zenon DEF AtExact, Regular
    <3> QED BY <2>1, <3>1, <3>2, Zenon DEF ResolvedOK, Backs
  <2>5. Plainly
    BY <2>1, <2>3, Zenon
  <2> QED BY <2>4, <2>5
<1>2. ASSUME PutCNAME PROVE Plainly /\ Always
  <2> DEFINE dels == {r \in work : r.name = Entry.name /\ r.type # "NS"}
  <2>1. ~Entry.backing /\ Entry.type = "CNAME" /\ Change(dels, {Record(Entry)})
    BY <1>2 DEF PutCNAME, Case
  <2>2. \A r : Deletes(Entry, r) <=> r.name = Entry.name /\ r.type # "NS"
    BY <2>1 DEF Deletes, Addresses, Redirects
  <2>3. Deleting(dels)
    BY <2>2 DEF Deleting
  <2> HIDE DEF dels
  <2>4. Plainly
    BY <2>1, <2>3, Zenon
  <2> QED BY <2>1, <2>4
<1>3. ASSUME PutAddress PROVE Plainly /\ Always
  <2> DEFINE dels == At(Entry.name, Addresses \cup {"CNAME", "NS"})
  <2>1. ~Entry.backing /\ Entry.type \in Addresses /\ Change(dels, {Record(Entry)})
    BY <1>3 DEF PutAddress, Case
  <2>2. \A r : Deletes(Entry, r) <=>
                  r.name = Entry.name /\ r.type \in Addresses \cup {"CNAME", "NS"}
    BY <2>1 DEF Deletes, Addresses, Redirects
  <2>3. Deleting(dels)
    BY <2>2 DEF Deleting, At
  <2> HIDE DEF dels
  <2>4. Plainly
    BY <2>1, <2>3, Zenon
  <2> QED BY <2>1, <2>4
<1>4. ASSUME PutMX PROVE Plainly /\ Always
  <2> DEFINE dels == At(Entry.name, {"MX"})
  <2>1. ~Entry.backing /\ Entry.type = "MX" /\ Change(dels, {Record(Entry)})
    BY <1>4 DEF PutMX, Case
  <2>2. \A r : Deletes(Entry, r) <=> r.name = Entry.name /\ r.type = "MX"
    BY <2>1 DEF Deletes, Addresses, Redirects
  <2>3. Deleting(dels)
    BY <2>2 DEF Deleting, At
  <2> HIDE DEF dels
  <2>4. Plainly
    BY <2>1, <2>3, Zenon
  <2> QED BY <2>1, <2>4
<1>5. ASSUME PutNS PROVE Plainly /\ Always
  <2> DEFINE dels == {r \in work :
                IF r.type = "NS" THEN r.name = Entry.name /\ Original(r)
                                 ELSE r.name = Entry.name \/ isChildOf(r.name, Entry.name)}
  <2>1. ~Entry.backing /\ Entry.type = "NS" /\ Change(dels, {Record(Entry)})
    BY <1>5 DEF PutNS, Case
  <2>2. \A r : Deletes(Entry, r) <=>
                  r.name = Entry.name \/ (r.type # "NS" /\ isChildOf(r.name, Entry.name))
    BY <2>1, Zenon DEF Deletes, Addresses, Redirects
  <2>3. Deleting(dels)
    BY <2>2, ForeignOriginal DEF Deleting
  <2> HIDE DEF dels
  <2>4. Plainly
    BY <2>1, <2>3, Zenon
  <2> QED BY <2>1, <2>4
<1>6. ASSUME PutSRV PROVE Plainly /\ Always
  <2> DEFINE dels == {r \in At(Entry.name, {"SRV"}) : Original(r)}
  <2>1. ~Entry.backing /\ Entry.type = "SRV" /\ Change(dels, {Record(Entry)})
    BY <1>6 DEF PutSRV, Case
  <2>2. \A r : Deletes(Entry, r) <=> r.name = Entry.name /\ r.type = "SRV"
    BY <2>1 DEF Deletes, Addresses, Redirects
  <2>3. Deleting(dels)
    BY <2>2, ForeignOriginal DEF Deleting, At
  <2> HIDE DEF dels
  <2>4. Plainly
    BY <2>1, <2>3, Zenon
  <2> QED BY <2>1, <2>4
<1>7. ASSUME PutRedirect PROVE Plainly /\ Always
  <2> DEFINE dels == At(Entry.name, Addresses \cup Redirects \cup {"CNAME"})
  <2>1. ~Entry.backing /\ Entry.type \in Redirects /\ Change(dels, {Record(Entry)})
    BY <1>7 DEF PutRedirect, Case
  <2>2. \A r : Deletes(Entry, r) <=>
                  r.name = Entry.name /\ r.type \in Addresses \cup Redirects \cup {"CNAME"}
    BY <2>1 DEF Deletes, Addresses, Redirects
  <2>3. Deleting(dels)
    BY <2>2 DEF Deleting, At
  <2> HIDE DEF dels
  <2>4. Plainly
    BY <2>1, <2>3, Zenon
  <2> QED BY <2>1, <2>4
<1>8. ASSUME PutApexCNAME PROVE Plainly /\ Always
  <2> DEFINE dels == {r \in work : r.name = <<>> /\ r.type # "NS"}
  <2>1. ~Entry.backing /\ Entry.type = "APEXCNAME" /\ Change(dels, {Record(Entry)})
    BY <1>8 DEF PutApexCNAME, Case
  <2>2. \A r : Deletes(Entry, r) <=> r.name = <<>> /\ r.type # "NS"
    BY <2>1 DEF Deletes, Addresses, Redirects
  <2>3. Deleting(dels)
    BY <2>2 DEF Deleting
  <2> HIDE DEF dels
  <2>4. Plainly
    BY <2>1, <2>3, Zenon
  <2> QED BY <2>1, <2>4
<1> HIDE DEF Plainly
<1>9. Plainly /\ Always
  BY <1>1, <1>2, <1>3, <1>4, <1>5, <1>6, <1>7, <1>8
<1>10. Entry.type # "SPFM" /\ ~Finds(Entry)
  BY <1>9 DEF Finds, Core, Addresses, Redirects
<1>11. PICK dels : Deleting(dels) /\ Change(dels, {Record(Entry)})
  BY <1>9 DEF Plainly
<1>12. Exact(dels, {Record(Entry)})
  BY <1>10, <1>11, PutExact, Zenon
<1> QED BY <1>11, <1>12, ExactStep, Zenon

\* The cases that add their record unless it is there.
LEMMA FindActions ==
    ASSUME AtExact, PutTXT \/ PutCustom
    PROVE  RunExact'
<1>1. CASE PutTXT
  <2> DEFINE dels == TXTConflicts(Entry)
  <2>1. ~Entry.backing /\ Entry.type = "TXT" /\ Change(dels, Missing(Entry, dels))
    BY <1>1 DEF PutTXT, Case
  <2>2. \A r : Deletes(Entry, r) <=>
                  /\ r.name = Entry.name
                  /\ \/ Entry.mode = "" /\ r.type = "CNAME"
                     \/ Entry.mode = "All" /\ r.type = "TXT"
                     \/ Entry.mode = "Prefix" /\ r.type = "TXT" /\ HasPrefix(r.content, Entry.prefix)
    BY <2>1 DEF Deletes, Addresses, Redirects
  <2>3. \A r : r \in dels <=> r \in work /\ Deletes(Entry, r)
    BY <2>2 DEF TXTConflicts, At
  <2>4. Deleting(dels)
    BY <2>3 DEF Deleting
  <2>5. Finds(Entry)
    BY <2>1 DEF Finds
  <2> HIDE DEF dels
  <2>6. Exact(dels, Missing(Entry, dels))
    BY <2>4, <2>5, FindExact, Zenon
  <2> QED BY <2>1, <2>6, ExactStep, Zenon
<1>2. CASE PutCustom
  <2>1. Entry.type \notin Core /\ Change({}, Missing(Entry, {}))
    BY <1>2, Zenon DEF PutCustom
  <2>2. ~\E r : Deletes(Entry, r)
    BY <2>1 DEF Deletes, Core, Addresses, Redirects
  <2>3. Deleting({})
    BY <2>2 DEF Deleting
  <2>4. Finds(Entry)
    BY <2>1 DEF Finds
  <2>5. Exact({}, Missing(Entry, {}))
    BY <2>3, <2>4, FindExact, Zenon
  <2> QED BY <2>1, <2>5, ExactStep, Zenon
<1> QED BY <1>1, <1>2

\* An SPFM entry meets exactly the records that the result says it may merge with.
LEMMA ExistingMergeable ==
    ASSUME AtExact, Entry.type = "SPFM"
    PROVE  /\ ExistingSPF = Mergeable(req, resolved, zone, next)
           /\ \A r \in work : r.name = Entry.name /\ IsSPF(r) => r \in ExistingSPF
<1> DEFINE M == Mergeable(req, resolved, zone, next)
<1>1. /\ next \in 1..Len(resolved) /\ Entry = resolved[next] /\ Len(resolved) \in Nat
      /\ next \in Nat
  BY AtEntryFacts, Zenon DEF AtExact
<1>2. Regular(req, resolved, zone)
  BY Zenon DEF AtExact
<1>3. ASSUME NEW r \in work, r.name = Entry.name, IsSPF(r) PROVE r \in M
  <2>1. r \notin toAdd
    <3> SUFFICES ASSUME r \in toAdd PROVE FALSE
      OBVIOUS
    <3>1. PICK k \in 1..(next-1) : r \in Puts(req, resolved, zone, k)
      BY ExactFacts, Zenon
    <3>2. k \in 1..Len(resolved) /\ k # next
      BY <1>1
    <3>3. k = next
      BY <1>1, <1>2, <1>3, <3>1, <3>2, SPFPuts
    <3> QED BY <3>2, <3>3
  <2>2. r \in Foreign(req, zone) /\ Passes(resolved, next - 1, r)
    BY <2>1, ExactFacts, Zenon
  <2>3. ASSUME NEW j \in 1..Len(resolved), resolved[j].type # "SPFM", Deletes(resolved[j], r)
        PROVE  FALSE
    <3>1. CASE j \in 1..(next-1)
      BY <2>2, <2>3, <3>1, Zenon DEF Passes
    <3>2. CASE next < j
      <4>1. ~Clash(resolved[j], resolved[next])
        BY <1>1, <1>2, <3>2, RegularEntries
      <4>2. Overlaps(resolved[j], resolved[next])
        BY <1>1, <1>3, <2>3, <4>1, MergeOverlap, Zenon
      <4> QED BY <1>1, <1>2, <3>2, <4>2, Zenon DEF Regular
    <3>3. j # next
      BY <1>1, <2>3
    <3> QED BY <1>1, <3>1, <3>2, <3>3
  <2> QED BY <1>1, <1>3, <2>2, <2>3, Zenon DEF Mergeable
<1>4. ASSUME NEW r \in M PROVE r \in work /\ r.name = Entry.name /\ IsSPF(r) /\ r \in zone
  <2>1. /\ r \in zone /\ r \in Foreign(req, zone) /\ r.name = Entry.name /\ IsSPF(r)
        /\ \A j \in 1..Len(resolved) : resolved[j].type # "SPFM" => ~Deletes(resolved[j], r)
    BY <1>1, <1>2, MergeableFacts
  <2>2. Passes(resolved, next - 1, r)
    <3> SUFFICES ASSUME NEW j \in 1..(next-1), Deletes(resolved[j], r) PROVE FALSE
      BY Zenon DEF Passes
    <3>1. j \in 1..Len(resolved) /\ j # next
      BY <1>1
    <3>2. resolved[j].type = "SPFM"
      BY <2>1, <3>1, Zenon
    <3>3. resolved[j].name = r.name
      BY <3>2 DEF Deletes, Addresses, Redirects
    <3> QED BY <1>1, <1>2, <2>1, <3>1, <3>2, <3>3, Zenon DEF Regular
  <2> QED BY <2>1, <2>2, ExactFacts, Zenon
<1> HIDE DEF M
<1>5. \A r : r \in M <=> r \in work /\ r.name = Entry.name /\ IsSPF(r)
  BY <1>3, <1>4
<1>6. M = {r \in work : r.name = Entry.name /\ IsSPF(r)} /\ M \subseteq zone
  BY <1>4, <1>5
<1>7. ExistingSPF = M
  BY <1>6 DEF ExistingSPF
<1> QED BY <1>3, <1>7 DEF M

LEMMA MergeAction ==
    ASSUME AtExact, MergeSPFM
    PROVE  RunExact'
<1> DEFINE M == Mergeable(req, resolved, zone, next)
           P == Puts(req, resolved, zone, next)
           Merge(r) == MergedRecord(r, Entry.content)
           Lacks(r) == ~ContainsText(r.content, Entry.content)
           New == NewSPF(Entry)
<1>1. /\ ~Entry.backing /\ Entry.type = "SPFM"
      /\ \/ ExistingSPF = {} /\ Change({}, {New})
         \/ \E r \in ExistingSPF : \/ ~Lacks(r) /\ Change({}, {})
                                   \/ Lacks(r) /\ Change({r}, {Merge(r)})
  BY DEF MergeSPFM, Case
<1>2. /\ next \in 1..Len(resolved) /\ Entry = resolved[next]
  BY AtEntryFacts, Zenon DEF AtExact
<1>3. Regular(req, resolved, zone)
  BY Zenon DEF AtExact
<1>4. ExistingSPF = M /\ \A r \in work : r.name = Entry.name /\ IsSPF(r) => r \in M
  BY <1>1, ExistingMergeable, Zenon
<1>5. \A r : Deletes(Entry, r) <=> r.name = Entry.name /\ IsSPF(r) /\ Lacks(r)
  BY <1>1 DEF Deletes, Addresses, Redirects
<1>6. \A a : a \in P <=> \/ M = {} /\ a = New
                         \/ \E r \in M : Lacks(r) /\ a = Merge(r)
  BY <1>1, <1>2, MergePuts
<1>7. \A r, s \in M : r = s
  BY <1>1, <1>2, <1>3, OneMergeable
<1>8. \A r \in M : r.name = Entry.name /\ IsSPF(r) /\ r \in work
  <2>1. \A r \in ExistingSPF : r \in work /\ r.name = Entry.name /\ IsSPF(r)
    BY ExistingFacts
  <2> QED BY <1>4, <2>1
<1> HIDE DEF M, P, Merge, Lacks, New
<1>9. ASSUME NEW dels, NEW adds,
             dels \subseteq {r \in M : Lacks(r)}, {r \in M : Lacks(r)} \subseteq dels,
             \A a : a \in adds <=> a \in P
      PROVE  Exact(dels, adds)
  <2>1. dels \subseteq work /\ \A d \in dels : Deletes(Entry, d)
    BY <1>5, <1>8, <1>9
  <2>2. \A r \in work : Deletes(Entry, r) => r \in dels
    BY <1>4, <1>5, <1>9
  <2> QED BY <1>9, <2>1, <2>2 DEF Exact, P
<1>10. CASE ExistingSPF = {} /\ Change({}, {New})
  <2>1. Exact({}, {New})
    <3>1. {} \subseteq {r \in M : Lacks(r)} /\ {r \in M : Lacks(r)} \subseteq {}
      BY <1>4, <1>10
    <3>2. \A a : a \in {New} <=> a \in P
      BY <1>4, <1>6, <1>10
    <3> QED BY <1>9, <3>1, <3>2
  <2> QED BY <1>10, <2>1, ExactStep
<1>11. ASSUME NEW r \in M, ~Lacks(r), Change({}, {}) PROVE RunExact'
  <2>1. Exact({}, {})
    <3>1. {} \subseteq {s \in M : Lacks(s)} /\ {s \in M : Lacks(s)} \subseteq {}
      BY <1>7, <1>11
    <3>2. \A a : a \in {} <=> a \in P
      BY <1>6, <1>7, <1>11
    <3> QED BY <1>9, <3>1, <3>2
  <2> QED BY <1>11, <2>1, ExactStep
<1>12. ASSUME NEW r \in M, Lacks(r), Change({r}, {Merge(r)}) PROVE RunExact'
  <2>1. Exact({r}, {Merge(r)})
    <3>1. {r} \subseteq {s \in M : Lacks(s)} /\ {s \in M : Lacks(s)} \subseteq {r}
      BY <1>7, <1>12
    <3>2. \A a : a \in {Merge(r)} <=> a \in P
      BY <1>6, <1>7, <1>12
    <3> QED BY <1>9, <3>1, <3>2
  <2> QED BY <1>12, <2>1, ExactStep
<1> QED BY <1>1, <1>4, <1>10, <1>11, <1>12

LEMMA StartExact ==
    ASSUME IInv, Start
    PROVE  RunExact'
<1>0. PICK q \in Identified(Head(plan)) :
         req' = q /\ toDelete' = OwnedRecords(q) /\ work' = zone \ OwnedRecords(q)
  BY Zenon DEF Start
<1>1. /\ req' = q /\ next' = 1 /\ zone' = zone /\ toAdd' = {}
      /\ toDelete' = OwnedRecords(q) /\ work' = zone \ OwnedRecords(q)
  BY <1>0, Zenon DEF Start
<1>2. OwnedRecords(req)' = OwnedRecords(q)
  BY <1>1, Zenon DEF OwnedRecords
<1>3. next' - 1 = 0 /\ \A k : k \notin 1..(next'-1)
  BY <1>1
<1>4. \A r : Passes(resolved', next' - 1, r)
  BY <1>3, Zenon DEF Passes
<1>5. \A r : r \in Foreign(req', zone') <=> r \in work'
  BY <1>1 DEF Foreign, OwnedRecords
<1>6. \A d \in toDelete' : d \in OwnedRecords(req)'
  BY <1>1, <1>2
<1>7. \A a : a \notin toAdd'
  BY <1>1
<1> QED BY <1>3, <1>4, <1>5, <1>6, <1>7, Zenon DEF RunExact

LEMMA StampsFine ==
    ASSUME IInv, req \in Calls
    PROVE  StampsOK(req, resolved) /\ \A a : Stamp(a) = Stamped(req, resolved, a)
<1>1. \A a : EssentialOf(a) = EssentialIn(resolved, a)
  BY DEF EssentialOf, EssentialIn
<1>2. \A a : Stamp(a) = Stamped(req, resolved, a)
  BY <1>1, Zenon DEF Stamp, Stamped
<1>3. ASSUME NEW a \in Records, a.dc = Free
      PROVE  /\ Stamp(a) \in Records /\ Key(Stamp(a)) = Key(a)
             /\ req.multi = "none" => Stamp(a) = a
             /\ req.multi # "none" => /\ Stamp(a).dc # Free
                                      /\ Stamp(a).dc.provider = req.provider
                                      /\ Stamp(a).dc.service = req.service
                                      /\ Stamp(a).dc.id = req.id
  BY <1>3, StampFacts
<1> QED BY <1>2, <1>3 DEF StampsOK

\* The records that are restored are put back as they were.
LEMMA ReturnResult ==
    ASSUME IInv, RunExact, Return, Regular(req, resolved, zone)
    PROVE  zone' = Result(req, resolved, zone)
<1> DEFINE L == Left(req, resolved, zone)
           B == Back(req, resolved, zone)
           P == Put(req, resolved, zone)
<1>1. /\ pc = "run" /\ req \in Calls /\ next > Len(resolved)
      /\ \A r : r \in zone' <=> Kept(r) \/ \E a \in toAdd : r = Stamp(a)
  BY ReturnFacts, Zenon
<1>2. next - 1 = Len(resolved) /\ Len(resolved) \in Nat
  <2>1. resolved \in Seq(ResolvedEntry) /\ next \in 1..(Len(resolved) + 1)
    BY Zenon DEF IInv, ResolvedOK
  <2> QED BY <1>1, <2>1
<1>3. /\ \A a : a \in toAdd <=> \E k \in 1..Len(resolved) : a \in Puts(req, resolved, zone, k)
      /\ \A r \in Foreign(req, zone) :
            ~Passes(resolved, Len(resolved), r) => Key(r) \in Keys(toDelete)
      /\ \A d \in toDelete :
            \/ d \in OwnedRecords(req)
            \/ /\ d \in Foreign(req, zone) \/ d \in toAdd
               /\ ~Passes(resolved, Len(resolved), d)
  BY <1>2, Zenon DEF RunExact
<1>4. toAdd = P
  BY <1>3 DEF Put
<1>5. OwnedRecords(req) \subseteq toDelete /\ essentialAlways = Candidates(req)
  BY <1>1, Zenon DEF IInv, RunOK, CallOK
<1>6. \A r : r \in OwnedRecords(req) <=> r \in zone /\ Owned(req, r)
  BY DEF OwnedRecords
<1>7. Restored = B
  <2>1. essentialAlways = Restorable(req, zone)
    BY <1>5 DEF Candidates, Restorable, OwnedRecords
  <2> QED BY <1>4, <2>1, Zenon DEF Restored, Back
<1>8. \A r, d \in zone : Owned(req, d) /\ Key(r) = Key(d) => r = d
  <2>1. \A d : Owned(req, d) => req.multi # "none"
    BY Zenon DEF Owned
  <2> QED BY <2>1, Zenon DEF Regular, NoTwins
<1>9. \A d \in B : d \in zone /\ Owned(req, d) /\ \A a \in P : d.type # a.type \/ d.name # a.name
  BY BackFacts
<1>10. \A r : r \in L <=> r \in zone /\ ~Owned(req, r) /\ Passes(resolved, Len(resolved), r)
  BY DEF Left, Foreign
<1>11. \A r : r \in Foreign(req, zone) <=> r \in zone /\ ~Owned(req, r)
  BY DEF Foreign
<1>12. \A k : k \in Keys(toDelete \ B) <=> \E d \in toDelete : d \notin B /\ Key(d) = k
  BY InKeys
<1> HIDE DEF L, B, P
<1>13. ASSUME NEW r \in L PROVE Kept(r)
  <2>1. r \in zone /\ ~Owned(req, r) /\ Passes(resolved, Len(resolved), r)
    BY <1>10
  <2>2. ASSUME NEW d \in toDelete, Key(d) = Key(r) PROVE FALSE
    <3>1. ~(d \in OwnedRecords(req))
      BY <1>6, <1>8, <2>1, <2>2
    <3>2. ~Passes(resolved, Len(resolved), d)
      BY <1>3, <3>1, Zenon
    <3> QED BY <2>1, <2>2, <3>2, SamePasses, Zenon
  <2>3. Key(r) \notin Keys(toDelete \ B)
    BY <1>12, <2>2
  <2> QED BY <1>7, <2>1, <2>3, Zenon DEF Kept
<1>14. ASSUME NEW r \in B PROVE Kept(r)
  <2>1. r \in zone /\ Owned(req, r)
    BY <1>9
  <2>2. ASSUME NEW d \in toDelete, d \notin B, Key(d) = Key(r) PROVE FALSE
    <3>1. d \notin zone
      BY <1>8, <2>1, <2>2
    <3>2. d \in toAdd
      BY <1>3, <1>6, <1>11, <3>1
    <3>3. d.type # r.type \/ d.name # r.name
      BY <1>4, <1>9, <3>2
    <3> QED BY <2>2, <3>3, SameKey
  <2>3. Key(r) \notin Keys(toDelete \ B)
    BY <1>12, <2>2
  <2> QED BY <1>7, <2>1, <2>3, Zenon DEF Kept
<1>15. ASSUME NEW r, Kept(r), r \notin B PROVE r \in L
  <2>1. r \in zone /\ Key(r) \notin Keys(toDelete \ B)
    BY <1>7, <1>15, Zenon DEF Kept
  <2>2. \A d \in toDelete : Key(d) = Key(r) => d \in B
    BY <1>12, <2>1
  <2>3. ~Owned(req, r)
    BY <1>5, <1>6, <1>15, <2>1, <2>2
  <2>4. \A d \in toDelete : Key(d) # Key(r)
    BY <1>8, <1>9, <2>1, <2>2, <2>3
  <2>5. Key(r) \notin Keys(toDelete)
    BY <2>4, InKeys, Zenon
  <2> QED BY <1>3, <1>10, <1>11, <2>1, <2>3, <2>5
<1>16. \A a : Stamp(a) = Stamped(req, resolved, a)
  BY <1>1, StampsFine, Zenon
<1>17. \A r : r \in Result(req, resolved, zone) <=>
                 r \in L \/ r \in B \/ \E a \in P : r = Stamped(req, resolved, a)
  BY ResultParts DEF L, B, P
<1>18. \A r : r \in zone' <=> r \in Result(req, resolved, zone)
  BY <1>1, <1>4, <1>13, <1>14, <1>15, <1>16, <1>17, Zenon
<1>19. zone' = Applied(toDelete \ Restored, {Stamp(a) : a \in toAdd})
  BY Zenon DEF Return
<1> QED BY <1>18, <1>19 DEF Result, Applied

-----------------------------------------------------------------------------

\* The loop follows the result, and the zone is the result of the last call.
Exactness ==
    /\ pc = "run" => resolved = Resolve(req) /\ RunExact
    /\ pc = "idle" /\ before.ok =>
          before.req = req /\ resolved = Resolve(req) /\ checkInternalConflicts(resolved)
    /\ before.ok /\ before.req = req /\ Regular(req, resolved, before.zone) =>
          zone = Result(req, resolved, before.zone)

LEMMA ExactRun ==
    ASSUME IInv, Exactness,
           \/ AddBacking \/ MergeSPFM \/ PutCNAME \/ PutAddress \/ PutTXT \/ PutMX
           \/ PutNS \/ PutSRV \/ PutRedirect \/ PutApexCNAME \/ PutCustom
    PROVE  Exactness' /\ pc' = "run"
<1>1. /\ pc = "run" /\ next <= Len(resolved)
      /\ zone' = zone /\ pc' = pc /\ req' = req /\ resolved' = resolved /\ before' = before
  BY Zenon DEF AddBacking, MergeSPFM, PutCNAME, PutAddress, PutTXT, PutMX, PutNS, PutSRV,
               PutRedirect, PutApexCNAME, PutCustom, Case, Change
<1>2. resolved = Resolve(req) /\ RunExact
  BY <1>1, Zenon DEF Exactness
<1>3. RunExact'
  <2>1. CASE Regular(req, resolved, zone)
    <3>1. AtExact
      BY <1>1, <1>2, <2>1, Zenon DEF AtExact, AtEntry
    <3> QED BY <3>1, PlainActions, FindActions, MergeAction
  <2>2. CASE ~Regular(req, resolved, zone)
    BY <1>1, <2>2, Zenon DEF RunExact
  <2> QED BY <2>1, <2>2
<1>4. pc' = "run" /\ pc' # "idle"
  BY <1>1
<1>5. before'.ok /\ before'.req = req' /\ Regular(req', resolved', before'.zone) =>
         zone' = Result(req', resolved', before'.zone)
  BY <1>1, Zenon DEF Exactness
<1>6. resolved' = Resolve(req')
  BY <1>1, <1>2
<1> QED BY <1>3, <1>4, <1>5, <1>6, Zenon DEF Exactness

LEMMA ExactStart ==
    ASSUME IInv, Exactness, Start
    PROVE  Exactness'
<1>1. /\ pc = "idle" /\ pc' = "run" /\ pc' # "idle"
      /\ resolved' = Resolve(req') /\ zone' = zone /\ before' = before
  BY DEF Start
<1>2. RunExact'
  BY StartExact
\* The same call again has the same entries.
<1>3. before.ok /\ before.req = req' => before.req = req /\ resolved' = resolved /\ req' = req
  BY <1>1, Zenon DEF Exactness
<1>4. before'.ok /\ before'.req = req' /\ Regular(req', resolved', before'.zone) =>
         zone' = Result(req', resolved', before'.zone)
  BY <1>1, <1>3, Zenon DEF Exactness
<1> QED BY <1>1, <1>2, <1>4, Zenon DEF Exactness

LEMMA ExactReturn ==
    ASSUME IInv, Exactness, Return
    PROVE  Exactness'
<1>1. /\ pc = "run" /\ pc' = "idle" /\ pc' # "run" /\ req' = req /\ resolved' = resolved
      /\ before'.zone = zone /\ before'.req = req /\ before'.ok
  BY DEF Return
<1>2. resolved = Resolve(req) /\ RunExact
  BY <1>1, Zenon DEF Exactness
<1>3. checkInternalConflicts(resolved)
  BY <1>1, Zenon DEF IInv, RunOK, CallOK
<1>4. Regular(req', resolved', before'.zone) => zone' = Result(req', resolved', before'.zone)
  BY <1>1, <1>2, ReturnResult
<1>5. before'.req = req' /\ resolved' = Resolve(req') /\ checkInternalConflicts(resolved')
  BY <1>1, <1>2, <1>3
<1> QED BY <1>1, <1>4, <1>5, Zenon DEF Exactness

\* The loop keeps to the result of its call, and its caller to the zone.
THEOREM ExactInvariance == Spec => []Exactness
<1>1. Init => Exactness
  <2> SUFFICES ASSUME Init PROVE Exactness
    OBVIOUS
  <2>1. pc = "idle" /\ pc # "run" /\ ~before.ok
    BY DEF Init
  <2> QED BY <2>1, Zenon DEF Exactness
<1>2. IInv /\ Exactness /\ [Next]_vars => Exactness'
  <2> SUFFICES ASSUME IInv, Exactness, [Next]_vars PROVE Exactness'
    OBVIOUS
  <2>1. CASE Start
    BY <2>1, ExactStart
  <2>2. CASE Return
    BY <2>2, ExactReturn
  <2>3. CASE Reject
    <3>1. pc' # "run" /\ ~before'.ok
      BY <2>3 DEF Reject
    <3> QED BY <3>1, Zenon DEF Exactness
  <2>4. CASE UNCHANGED vars
    <3>1. /\ zone' = zone /\ pc' = pc /\ req' = req /\ resolved' = resolved /\ before' = before
          /\ next' = next /\ work' = work /\ toAdd' = toAdd /\ toDelete' = toDelete
      BY <2>4 DEF vars
    <3>2. RunExact' <=> RunExact
      <4>1. OwnedRecords(req)' = OwnedRecords(req)
        BY <3>1, Zenon DEF OwnedRecords
      <4> QED BY <3>1, <4>1 DEF RunExact
    <3> QED BY <3>1, <3>2 DEF Exactness
  <2>5. CASE \/ AddBacking \/ MergeSPFM \/ PutCNAME \/ PutAddress \/ PutTXT \/ PutMX
             \/ PutNS \/ PutSRV \/ PutRedirect \/ PutApexCNAME \/ PutCustom
    BY <2>5, ExactRun
  <2> QED BY <2>1, <2>2, <2>3, <2>4, <2>5 DEF Next
<1> QED BY <1>1, <1>2, Invariance, PTL DEF Spec

LEMMA RepeatableRegular ==
    ASSUME IInv, checkInternalConflicts(resolved), NEW z, z \subseteq Records, Repeatable(z)
    PROVE  Regular(req, resolved, z)
<1>1. ResolvedOK(resolved)
  BY Zenon DEF IInv
<1>2. DOMAIN resolved = 1..Len(resolved) /\ Len(resolved) \in Nat
  BY <1>1 DEF ResolvedOK
<1>3. \A i : i \in Merges <=> i \in 1..Len(resolved) /\ resolved[i].type = "SPFM"
  BY <1>2 DEF Merges
<1>4. /\ ~Overlap /\ MergesApart
      /\ \A i \in Merges : ~TwoSPF(z, resolved[i].name)
      /\ req.multi # "none" => NoTwins(z)
  BY Zenon DEF Repeatable
<1>5. \A i, j \in 1..Len(resolved) : i < j => ~Overlaps(resolved[j], resolved[i])
  BY <1>2, <1>4, Zenon DEF Overlap
<1>6. \A i \in 1..Len(resolved) :
         resolved[i].type = "SPFM" => req.multi = "none" /\ ~TwoSPF(z, resolved[i].name)
  BY <1>3, <1>4 DEF MergesApart
<1>7. \A i, j \in 1..Len(resolved) :
          resolved[i].type = "SPFM" /\ resolved[i].name = resolved[j].name =>
             /\ resolved[j].type = "SPFM" => i = j
             /\ resolved[j].type = "TXT" =>
                   /\ ~SpellsSPF(resolved[j].content)
                   /\ resolved[j].mode = "Prefix" => ~SpellsSPF(resolved[j].prefix)
  BY <1>2, <1>3, <1>4, Zenon DEF MergesApart
<1> QED BY <1>1, <1>4, <1>5, <1>6, <1>7, Zenon DEF Regular

\* The order in which entries delete what others added leaves no trace: after a
\* call that may be repeated the zone is a function of the call and of the zone
\* before (process.go:494-790).
THEOREM ResultsAreDetermined ==
    Spec => [](Done /\ Repeatable(before.zone) => zone = Result(req, resolved, before.zone))
<1>1. IInv /\ Exactness =>
         (Done /\ Repeatable(before.zone) => zone = Result(req, resolved, before.zone))
  <2> SUFFICES ASSUME IInv, Exactness, Done, Repeatable(before.zone)
               PROVE  zone = Result(req, resolved, before.zone)
    OBVIOUS
  <2>1. /\ before.ok /\ before.req = req /\ checkInternalConflicts(resolved)
    BY Zenon DEF Done, Exactness
  <2>2. before.zone \subseteq Records
    BY Zenon DEF IInv, ZoneOK
  <2>3. Regular(req, resolved, before.zone)
    BY <2>1, <2>2, RepeatableRegular, Zenon
  <2> QED BY <2>1, <2>3, Zenon DEF Exactness
<1> QED BY <1>1, Invariance, ExactInvariance, PTL

\* Calling ProcessRecords again with the same options and the same id changes
\* nothing (process.go:494-790): the entries delete and add the same records, for
\* every template without an overlap whose SPFM entries keep apart.  A multi-aware
\* call that leaves the id to the code draws another one each time.
THEOREM CallsAreIdempotent == Spec => Idempotent
<1> DEFINE Again == /\ pc = "run" /\ pc' = "idle"
                    /\ before.ok /\ before.req = req
                    /\ Repeatable(before.zone)
<1>1. IInv /\ IInv' /\ Exactness /\ [Next]_vars => (Again => zone' = zone)
  <2> SUFFICES ASSUME IInv, Exactness, [Next]_vars, Again PROVE zone' = zone
    OBVIOUS
  <2>1. Return
    <3>1. ~Start /\ ~Reject
      BY DEF Start, Reject
    <3>2. ~(\/ AddBacking \/ MergeSPFM \/ PutCNAME \/ PutAddress \/ PutTXT \/ PutMX
            \/ PutNS \/ PutSRV \/ PutRedirect \/ PutApexCNAME \/ PutCustom)
      BY ExactRun
    <3>3. ~UNCHANGED vars
      BY DEF vars
    <3> QED BY <3>1, <3>2, <3>3 DEF Next
  <2>2. req \in Calls /\ checkInternalConflicts(resolved)
    BY Zenon DEF IInv, RunOK, CallOK
  <2>3. before.zone \subseteq Records /\ zone \subseteq Records
    BY Zenon DEF IInv, ZoneOK
  <2>4. Regular(req, resolved, before.zone)
    BY <2>2, <2>3, RepeatableRegular, Zenon
  <2>5. zone = Result(req, resolved, before.zone) /\ RunExact
    BY <2>4, Zenon DEF Exactness
  <2>6. StampsOK(req, resolved)
    BY <2>2, StampsFine, Zenon
  <2>7. Regular(req, resolved, zone) /\ Result(req, resolved, zone) = zone
    BY <2>3, <2>4, <2>5, <2>6, RegularAgain
  <2> QED BY <2>1, <2>5, <2>7, ReturnResult
<1>2. IInv /\ IInv' /\ Exactness /\ [Next]_vars => [Again => zone' = zone]_vars
  BY <1>1, Zenon
<1> QED BY <1>2, Invariance, ExactInvariance, PTL DEF Spec, Idempotent

=============================================================================
