------------------------- MODULE ApplyRequestsProofs -------------------------
(***************************************************************************)
(* Proofs about ApplyRequests for every set of texts, includes and records, *)
(* every length of a request and every combination of faults, and for all   *)
(* five providers: a result per record, dry runs and refused requests that  *)
(* write nothing, conflict resolution that keeps to its mode, records that  *)
(* are installed, and dry runs that announce what the real run does.        *)
(***************************************************************************)
EXTENDS ApplyRequests, SequenceTheorems, FiniteSetTheorems, WellFoundedInduction, TLAPS

-----------------------------------------------------------------------------
(* The inductive invariant.                                                 *)

ShapeOK ==
    /\ provider \in Providers
    /\ page \subseteq Keys
    /\ zone \in [Keys -> Seq(Vals)]
    /\ req \in Requests
    /\ asked \in Seq(Records) /\ plan \in Seq(Records)
    /\ i \in Nat \ {0}
    /\ todo \in Seq(Vals)
    /\ again \in BOOLEAN
    /\ prev \in Vals \cup {NoVal}
    /\ results \in Seq(Statuses)
    /\ diffs \in Seq(Actions)
    /\ outcome \in {"none", "refused", "ok", "error"}

Writing == {"conflicts", "delete", "get", "set"}

\* Only a template's records are resolved, and only they have what TemplateOnly
\* says.
PlanOK ==
    req.kind # "template" => plan = asked /\ \A j \in 1..Len(plan) : ~TemplateOnly(plan[j])

\* Priorities do not come back from the other providers.
NoPrefs(s) == \A v \in Members(s) : v = Mail(v.text, 0)
MailOK == provider # "namecheap" => NoPrefs(zone["mail"])

\* Where the run is: the record it looks at, the results so far, and what has
\* been ruled out before the first write.
PlaceOK ==
    /\ pc \in {"idle", "done", "checks", "diff"} \cup Writing
    /\ pc \in Writing \cup {"diff"} => i \in 1..Len(plan)
    /\ pc \in Writing =>
          /\ ~req.dry
          /\ Len(results) = i - 1
          /\ plan = Resolved(asked)
          /\ \A rec \in Members(asked) : ~Rejects(rec)
    /\ pc = "diff" => req.dry /\ req.kind # "template"
    /\ pc \in {"idle", "checks", "diff"} \/ req.dry => results = <<>>
    /\ pc \in {"conflicts", "delete"} => plan[i].type = "TXT" /\ plan[i].mode # "None"
    /\ pc = "delete" <=> todo # <<>>

\* How it ended.
EndOK ==
    pc = "done" /\ outcome \in {"ok", "error"} /\ ~req.dry =>
        /\ Len(results) = Len(plan) /\ plan = Resolved(asked)
        /\ outcome = "error" <=> "failed" \in Members(results)

\* What is left of the listing begins with a conflict.  It is the end of what
\* the name has, and before it there are no more conflicts.  Cloud DNS and
\* GoDaddy delete the whole name at once.
IsRest(rec, s, rest) ==
    /\ Len(rest) <= Len(s)
    /\ \A n \in 1..Len(rest) : rest[n] = s[(Len(s) - Len(rest)) + n]
    /\ \A n \in 1..(Len(s) - Len(rest)) : ~Matches(rec, s[n])

\* GetRecords sees the records at key k.
Lists(k) == provider \in {"route53", "gcdns"} => k \in page

TodoOK ==
    pc = "delete" =>
        /\ plan[i].fq /\ Matches(plan[i], todo[1])
        /\ Lists("apex")
        /\ \/ IsRest(plan[i], zone["apex"], todo)
           \/ provider \in {"gcdns", "godaddy"} /\ zone["apex"] = <<>>

Moded(rec) == rec.type = "TXT" /\ rec.mode # "None"

\* No visible record conflicts any more when the push begins.
ClearedOK ==
    pc \in {"get", "set"} /\ Moded(plan[i]) =>
        \A n \in 1..Len(Visible(plan[i])) : ~Matches(plan[i], Visible(plan[i])[n])

\* A record that has been dealt with is there, and no conflict with it.
InPlace(p, z, rec) ==
    IF rec.type = "SPFM"
    THEN rec.val.includes \subseteq UNION {z["apex"][n].includes : n \in SPFRecords(z["apex"])}
    ELSE \E e \in Members(z[Key(rec)]) : Serves(p, rec, e)

Unopposed(z, rec) ==
    Moded(rec) /\ rec.fq => \A v \in Members(z["apex"]) : Matches(rec, v) => v = rec.val

DealtWith(p, z, rec) == InPlace(p, z, rec) /\ Unopposed(z, rec)

DealtWithOK ==
    ~req.dry /\ "failed" \notin Members(results) =>
        \A j \in 1..Len(plan) : j <= Len(results) /\ LastAt(j) => DealtWith(provider, zone, plan[j])

FirstAt(j) == \A n \in 1..(j-1) : Key(plan[n]) # Key(plan[j])

\* The status of a push that has found v and writes.
Unconfigured(v) == IF v = NoVal THEN "created" ELSE "updated"

\* What the dry run announced for the first record at a name is what it would
\* announce until the write of that record, and then its result.
AnnouncedOK ==
    diffs # <<>> =>
        /\ req.kind # "template"
        /\ pc # "diff" => Len(diffs) = Len(plan)
        /\ \A j \in 1..Len(plan) : j <= Len(diffs) /\ FirstAt(j) =>
              /\ j > Len(results) => diffs[j] = Announced(plan[j])
              /\ j = i /\ pc = "set" /\ ~SetOnly(plan[j]) =>
                    Unconfigured(prev) \in Foretold(provider, plan[j], diffs[j])
              /\ j <= Len(results) /\ ~SetOnly(plan[j]) =>
                    results[j] = "failed" \/ results[j] \in Foretold(provider, plan[j], diffs[j])

FreshOK ==
    /\ pc = "idle" => diffs = <<>> /\ plan = <<>> /\ ~req.dry
    /\ pc = "checks" => i = 1
    /\ pc = "checks" /\ req.dry => diffs = <<>>
    /\ pc = "diff" => Len(diffs) = i - 1

IInv ==
    /\ ShapeOK
    /\ PlanOK
    /\ MailOK
    /\ PlaceOK
    /\ EndOK
    /\ TodoOK
    /\ ClearedOK
    /\ DealtWithOK
    /\ AnnouncedOK
    /\ FreshOK

-----------------------------------------------------------------------------
(* Values and records.                                                      *)

\* Every set of naturals that has an element has a least one.
LEMMA LeastElement ==
    ASSUME NEW T, T \subseteq Nat, T # {}
    PROVE  \E x \in T : \A y \in T : x <= y
<1> DEFINE R == OpToRel(<, Nat)
<1>1. IsWellFoundedOn(R, Nat)
  BY NatLessThanWellFounded
<1> HIDE DEF R
<1>2. PICK x \in T : \A y \in T : ~(<<y, x>> \in R)
  BY <1>1, WFMin
<1>3. \A y \in T : y < x => <<y, x>> \in R
  BY DEF R, OpToRel
<1>4. \A y \in T : ~(y < x)
  BY <1>2, <1>3
<1> QED
  BY <1>4

\* An SPF value is made of its includes.
LEMMA SPFShape ==
    /\ \A x : SPF(x).spf /\ SPF(x).includes = x
    /\ \A x \in SUBSET Includes : SPF(x) \in Vals
    /\ \A v \in SPFVals : v.includes \in SUBSET Includes
    /\ \A v \in Vals : v.spf => v.includes \in SUBSET Includes
<1>1. \A x : SPF(x).spf /\ SPF(x).includes = x
  BY DEF SPF
<1>2. \A x \in SUBSET Includes : SPF(x) \in Vals
  BY DEF Vals, SPFVals
<1>3. \A v \in SPFVals : v.includes \in SUBSET Includes
  BY <1>1 DEF SPFVals
<1>4. \A v \in TextVals \cup MailVals \cup AliasVals : ~v.spf
  BY DEF TextVals, Text, MailVals, Mail, AliasVals, Alias
<1> QED BY <1>1, <1>2, <1>3, <1>4 DEF Vals

LEMMA RecordShape ==
    ASSUME NEW rec \in Records
    PROVE  /\ rec.type \in Types /\ rec.val \in Vals /\ rec.mode \in Modes /\ rec.fq \in BOOLEAN
           /\ Key(rec) \in Keys
           /\ rec.val # NoVal
           /\ rec.type = "SPFM" => rec.val.includes \in SUBSET Includes
           /\ rec.type \in {"TXT", "SPFM"} => Key(rec) = "apex"
           /\ rec.type = "MX" => /\ rec.val.text \in Texts /\ rec.val.pref \in Prefs
                                 /\ rec.val = Mail(rec.val.text, rec.val.pref)
           /\ Key(rec) = "mail" => rec.type = "MX"
<1>1. rec.type \in Types /\ rec.val \in Vals /\ rec.mode \in Modes /\ rec.fq \in BOOLEAN
  BY ApplyAssumption
<1>2. Key(rec) \in Keys /\ (rec.type \in {"TXT", "SPFM"} => Key(rec) = "apex")
  BY DEF Key, Keys
<1>3. rec.type = "MX" => /\ rec.val.text \in Texts /\ rec.val.pref \in Prefs
                         /\ rec.val = Mail(rec.val.text, rec.val.pref)
  <2>1. ASSUME NEW t \in Texts, NEW p \in Prefs
        PROVE  /\ Mail(t, p).text = t /\ Mail(t, p).pref = p
    BY DEF Mail
  <2>2. rec.type = "MX" => rec.val \in MailVals
    BY ApplyAssumption DEF ValsOf
  <2> QED BY <2>1, <2>2 DEF MailVals
<1>4. Key(rec) = "mail" => rec.type = "MX"
  BY DEF Key
<1>5. rec.type = "SPFM" => rec.val \in SPFVals
  BY ApplyAssumption
<1> QED BY <1>1, <1>2, <1>3, <1>4, <1>5, ProviderAssumption, SPFShape

\* What reaches the zone of a record.
LEMMA StoredOK ==
    ASSUME NEW rec \in Records, NEW v \in Vals, rec.type = "MX" => v = rec.val
    PROVE  /\ Stored(provider, rec.type, v) \in Vals
           /\ rec.type # "MX" => Stored(provider, rec.type, v) = v
           /\ rec.type = "MX" =>
                 /\ Serves(provider, rec, Stored(provider, rec.type, v))
                 /\ provider # "namecheap" => Stored(provider, rec.type, v) = Mail(v.text, 0)
<1>1. CASE rec.type # "MX"
  BY <1>1 DEF Stored
<1>2. CASE rec.type = "MX"
  <2> DEFINE p == CASE provider # "namecheap" -> 0
                    [] provider = "namecheap" /\ v.pref = 0 -> DefaultPref
                    [] OTHER -> v.pref
  <2>1. v.text \in Texts /\ v.pref \in Prefs /\ v = rec.val
    BY <1>2, RecordShape
  <2>2. Stored(provider, rec.type, v) = Mail(v.text, p)
    BY <1>2, Zenon DEF Stored
  <2>3. /\ p \in Prefs
        /\ provider # "namecheap" => p = 0
        /\ provider = "namecheap" /\ v.pref # 0 => p = v.pref
    BY <2>1, ProviderAssumption
  <2> HIDE DEF p
  <2>4. Mail(v.text, p) \in Vals
    BY <2>1, <2>3 DEF Vals, MailVals
  <2>5. Mail(v.text, p).text = v.text /\ Mail(v.text, p).pref = p
    BY DEF Mail
  <2>6. Serves(provider, rec, Mail(v.text, p))
    BY <1>2, <2>1, <2>3, <2>5 DEF Serves
  <2> QED BY <1>2, <2>2, <2>3, <2>4, <2>6
<1> QED BY <1>1, <1>2

LEMMA MembersOf ==
    ASSUME NEW V, NEW s \in Seq(V)
    PROVE  /\ Members(s) \subseteq V
           /\ \A n \in 1..Len(s) : s[n] \in Members(s) /\ s[n] \in V
           /\ \A v \in Members(s) : \E n \in 1..Len(s) : v = s[n]
           /\ s = <<>> <=> Len(s) = 0
           /\ Len(s) \in Nat
BY DEF Members

LEMMA MembersAppend ==
    ASSUME NEW V, NEW s \in Seq(V), NEW v \in V
    PROVE  /\ Append(s, v) \in Seq(V) /\ Len(Append(s, v)) = Len(s) + 1
           /\ Append(s, v)[Len(s) + 1] = v
           /\ \A n \in 1..Len(s) : Append(s, v)[n] = s[n]
           /\ Members(Append(s, v)) = Members(s) \cup {v}
<1>1. /\ Append(s, v) \in Seq(V) /\ Len(Append(s, v)) = Len(s) + 1 /\ Len(s) \in Nat
      /\ Append(s, v)[Len(s) + 1] = v
      /\ \A n \in 1..Len(s) : Append(s, v)[n] = s[n]
  BY AppendProperties
<1>2. Members(Append(s, v)) \subseteq Members(s) \cup {v}
  <2> SUFFICES ASSUME NEW n \in 1..(Len(s) + 1) PROVE Append(s, v)[n] \in Members(s) \cup {v}
    BY <1>1 DEF Members
  <2>1. CASE n = Len(s) + 1
    BY <1>1, <2>1
  <2>2. CASE n # Len(s) + 1
    <3>1. n \in 1..Len(s)
      BY <1>1, <2>2
    <3> QED BY <1>1, <3>1 DEF Members
  <2> QED BY <2>1, <2>2
<1>3. v \in Members(Append(s, v))
  BY <1>1 DEF Members
<1>4. Members(s) \subseteq Members(Append(s, v))
  BY <1>1 DEF Members
<1> QED BY <1>1, <1>2, <1>3, <1>4

\* CurrentSPF is a record of the name, if there is an SPF record.
LEMMA CurrentMember ==
    ASSUME NEW s \in Seq(Vals)
    PROVE  /\ SPFRecords(s) = {} => CurrentSPF(s) = NoVal
           /\ SPFRecords(s) # {} =>
                \E n \in SPFRecords(s) : CurrentSPF(s) = s[n] /\ s[n] \in Vals /\ s[n].spf
           /\ SPFRecords(s) \subseteq 1..Len(s)
<1>1. SPFRecords(s) \subseteq Nat /\ SPFRecords(s) \subseteq 1..Len(s)
  BY DEF SPFRecords
<1>2. CASE SPFRecords(s) = {}
  BY <1>1, <1>2 DEF CurrentSPF
<1>3. CASE SPFRecords(s) # {}
  <2> DEFINE First(n) == \A j \in SPFRecords(s) : n <= j
  <2>1. \E n \in SPFRecords(s) : First(n)
    BY <1>1, <1>3, LeastElement
  <2>2. CurrentSPF(s) = s[CHOOSE n \in SPFRecords(s) : First(n)]
    BY <1>3 DEF CurrentSPF
  <2> HIDE DEF First
  <2>3. PICK n \in SPFRecords(s) : CurrentSPF(s) = s[n]
    BY <2>1, <2>2
  <2>4. s[n] \in Vals /\ s[n].spf
    BY <2>3 DEF SPFRecords
  <2> QED BY <1>1, <1>3, <2>3, <2>4
<1> QED BY <1>2, <1>3

\* MergeSPF makes an SPF record with the includes it was given.
LEMMA Merged ==
    ASSUME NEW s \in Seq(Vals), NEW incs \in SUBSET Includes
    PROVE  LET m == MergedSPF(s, incs) IN
           m \in Vals /\ m.spf /\ incs \subseteq m.includes /\ m # NoVal
<1> DEFINE all == IF CurrentSPF(s) = NoVal THEN incs ELSE CurrentSPF(s).includes \cup incs
<1>1. all \in SUBSET Includes
  <2>1. CASE CurrentSPF(s) = NoVal
    BY <2>1
  <2>2. CASE CurrentSPF(s) # NoVal
    <3>1. PICK n \in SPFRecords(s) : CurrentSPF(s) = s[n] /\ s[n] \in Vals /\ s[n].spf
      BY <2>2, CurrentMember
    <3> QED BY <2>2, <3>1, SPFShape
  <2> QED BY <2>1, <2>2
<1>2. incs \subseteq all
  OBVIOUS
<1>3. MergedSPF(s, incs) = SPF(all)
  BY DEF MergedSPF
<1> HIDE DEF all
<1> QED BY <1>1, <1>2, <1>3, SPFShape, ProviderAssumption

-----------------------------------------------------------------------------
(* Conflicts.                                                               *)

\* The loop stops at the next conflict and passes none.
LEMMA FromConflictOK ==
    ASSUME NEW rec, NEW s \in Seq(Vals)
    PROVE  /\ FromConflict(rec, s) \in Seq(Vals)
           /\ IsRest(rec, s, FromConflict(rec, s))
           /\ FromConflict(rec, s) # <<>> => Matches(rec, FromConflict(rec, s)[1])
<1> DEFINE hits == {n \in 1..Len(s) : Matches(rec, s[n])}
           First(n) == \A m \in hits : n <= m
           k == CHOOSE n \in hits : First(n)
           f == SubSeq(s, k, Len(s))
<1>1. Len(s) \in Nat
  OBVIOUS
<1>2. CASE hits = {}
  <2>1. FromConflict(rec, s) = <<>>
    BY <1>2, Zenon DEF FromConflict
  <2>2. \A n \in 1..Len(s) : ~Matches(rec, s[n])
    BY <1>2
  <2> QED BY <1>1, <2>1, <2>2 DEF IsRest
<1>3. CASE hits # {}
  <2>1. FromConflict(rec, s) = f
    BY <1>3, Zenon DEF FromConflict
  <2>2. hits \subseteq Nat
    OBVIOUS
  <2>3. \E n \in hits : First(n)
    BY <1>3, <2>2, LeastElement
  <2>4. k \in hits /\ First(k)
    BY <2>3, Zenon
  <2>5. k \in 1..Len(s) /\ Matches(rec, s[k])
    BY <2>4
  <2>6. \A n \in 1..Len(s) : n < k => ~Matches(rec, s[n])
    BY <2>4, <2>5
  <2> HIDE DEF k
  <2>7. /\ f \in Seq(Vals) /\ Len(f) = Len(s) - k + 1
        /\ \A n \in 1..(Len(s) - k + 1) : f[n] = s[k + n - 1]
    BY <1>1, <2>5, SubSeqProperties
  <2> HIDE DEF f
  <2>8. IsRest(rec, s, f)
    <3>1. Len(f) <= Len(s) /\ Len(s) - Len(f) = k - 1
      BY <1>1, <2>5, <2>7
    <3>2. \A n \in 1..Len(f) : f[n] = s[(Len(s) - Len(f)) + n]
      BY <1>1, <2>5, <2>7
    <3>3. \A n \in 1..(Len(s) - Len(f)) : ~Matches(rec, s[n])
      BY <1>1, <2>5, <2>6, <3>1
    <3> QED BY <3>1, <3>2, <3>3 DEF IsRest
  <2>9. Matches(rec, f[1])
    BY <1>1, <2>5, <2>7
  <2> QED BY <2>1, <2>7, <2>8, <2>9
<1> QED BY <1>2, <1>3

\* The rest of a rest is a rest.
LEMMA RestOfRest ==
    ASSUME NEW rec, NEW s \in Seq(Vals), NEW t \in Seq(Vals), NEW u \in Seq(Vals),
           IsRest(rec, s, t), IsRest(rec, t, u)
    PROVE  IsRest(rec, s, u)
<1>1. /\ Len(s) \in Nat /\ Len(t) \in Nat /\ Len(u) \in Nat
      /\ Len(u) <= Len(t) /\ Len(t) <= Len(s)
  BY DEF IsRest
<1>2. ASSUME NEW n \in 1..Len(u) PROVE u[n] = s[(Len(s) - Len(u)) + n]
  <2>1. (Len(t) - Len(u)) + n \in 1..Len(t)
    BY <1>1
  <2>2. u[n] = t[(Len(t) - Len(u)) + n]
    BY DEF IsRest
  <2>3. t[(Len(t) - Len(u)) + n] = s[(Len(s) - Len(t)) + ((Len(t) - Len(u)) + n)]
    BY <2>1 DEF IsRest
  <2>4. (Len(s) - Len(t)) + ((Len(t) - Len(u)) + n) = (Len(s) - Len(u)) + n
    BY <1>1
  <2> QED BY <2>2, <2>3, <2>4
<1>3. ASSUME NEW n \in 1..(Len(s) - Len(u)) PROVE ~Matches(rec, s[n])
  <2>1. CASE n <= Len(s) - Len(t)
    BY <1>1, <2>1 DEF IsRest
  <2>2. CASE n > Len(s) - Len(t)
    <3>1. PICK m : m = n - (Len(s) - Len(t))
      OBVIOUS
    <3>2. m \in 1..(Len(t) - Len(u)) /\ m \in 1..Len(t) /\ n = (Len(s) - Len(t)) + m
      BY <1>1, <2>2, <3>1
    <3>3. ~Matches(rec, t[m]) /\ t[m] = s[n]
      BY <3>2 DEF IsRest
    <3> QED BY <3>3
  <2> QED BY <1>1, <2>1, <2>2
<1> QED BY <1>1, <1>2, <1>3 DEF IsRest

\* Cloudflare and Namecheap remove the first record with the value.
IsWithout(w, s, v, k) ==
    /\ s[k] = v /\ \A j \in 1..(k-1) : s[j] # v
    /\ w \in Seq(Vals)
    /\ Len(w) = Len(s) - 1
    /\ \A n \in 1..(Len(s) - 1) : w[n] = IF n < k THEN s[n] ELSE s[n+1]

LEMMA WithoutShape ==
    ASSUME NEW s \in Seq(Vals), NEW v \in Members(s)
    PROVE  \E k \in 1..Len(s) : IsWithout(Without(s, v), s, v, k)
<1> DEFINE hits == {n \in 1..Len(s) : s[n] = v}
           First(n) == s[n] = v /\ \A j \in 1..(n-1) : s[j] # v
           k == CHOOSE n \in 1..Len(s) : First(n)
           a == SubSeq(s, 1, k - 1)
           b == SubSeq(s, k + 1, Len(s))
<1>1. Len(s) \in Nat
  OBVIOUS
<1>2. \E n \in 1..Len(s) : First(n)
  <2>1. hits # {} /\ hits \subseteq Nat
    BY DEF Members
  <2>2. PICK n \in hits : \A m \in hits : n <= m
    BY <2>1, LeastElement
  <2>3. \A j \in 1..(n-1) : j \in 1..Len(s) /\ j \notin hits
    BY <1>1, <2>2
  <2> QED BY <2>2, <2>3
<1>3. k \in 1..Len(s) /\ First(k)
  BY <1>2, Zenon
<1>4. Without(s, v) = a \o b
  BY Zenon DEF Without
<1> HIDE DEF k
<1>5. /\ a \in Seq(Vals) /\ Len(a) = k - 1 /\ \A n \in 1..(k-1) : a[n] = s[n]
      /\ b \in Seq(Vals) /\ Len(b) = Len(s) - k /\ \A n \in 1..(Len(s) - k) : b[n] = s[k + n]
  <2>1. /\ 1 \in 1..(Len(s) + 1) /\ k - 1 \in (1 - 1)..Len(s)
        /\ k + 1 \in 1..(Len(s) + 1) /\ Len(s) \in ((k + 1) - 1)..Len(s)
    BY <1>1, <1>3
  <2>2. /\ a \in Seq(Vals) /\ Len(a) = (k - 1) - 1 + 1
        /\ \A n \in 1..((k - 1) - 1 + 1) : a[n] = s[1 + n - 1]
    BY <2>1, SubSeqProperties
  <2>3. /\ b \in Seq(Vals) /\ Len(b) = Len(s) - (k + 1) + 1
        /\ \A n \in 1..(Len(s) - (k + 1) + 1) : b[n] = s[(k + 1) + n - 1]
    BY <2>1, SubSeqProperties
  <2> HIDE DEF a, b
  <2>4. ASSUME NEW n \in 1..(k-1) PROVE a[n] = s[n]
    BY <1>1, <1>3, <2>2
  <2>5. ASSUME NEW n \in 1..(Len(s) - k) PROVE b[n] = s[k + n]
    BY <1>1, <1>3, <2>3
  <2> QED BY <1>1, <1>3, <2>2, <2>3, <2>4, <2>5
<1> HIDE DEF a, b
<1>6. a \o b \in Seq(Vals) /\ Len(a \o b) = Len(s) - 1
  BY <1>1, <1>3, <1>5, ConcatProperties
<1>7. ASSUME NEW n \in 1..(Len(s) - 1) PROVE (a \o b)[n] = IF n < k THEN s[n] ELSE s[n+1]
  <2>1. CASE n < k
    BY <1>1, <1>3, <1>5, <2>1, ConcatProperties
  <2>2. CASE n >= k
    <3>1. n - (k - 1) \in 1..(Len(s) - k) /\ k + (n - (k - 1)) = n + 1
      BY <1>1, <1>3, <2>2
    <3>2. (a \o b)[n] = b[n - (k - 1)]
      BY <1>1, <1>3, <1>5, <2>2, ConcatProperties
    <3>3. b[n - (k - 1)] = s[k + (n - (k - 1))]
      BY <1>5, <3>1
    <3>4. s[k + (n - (k - 1))] = s[n+1] /\ ~(n < k)
      BY <1>1, <1>3, <2>2, <3>1
    <3>5. (a \o b)[n] = s[n+1]
      BY <3>2, <3>3, <3>4
    <3> QED BY <3>4, <3>5
  <2>3. n < k \/ n >= k
    BY <1>1, <1>3
  <2> QED BY <2>1, <2>2, <2>3
<1> QED BY <1>3, <1>4, <1>6, <1>7 DEF IsWithout

LEMMA TailShape ==
    ASSUME NEW s \in Seq(Vals), s # <<>>
    PROVE  /\ Tail(s) \in Seq(Vals) /\ Len(Tail(s)) = Len(s) - 1 /\ Len(s) \in Nat \ {0}
           /\ \A n \in 1..(Len(s) - 1) : Tail(s)[n] = s[n+1]
           /\ s[1] \in Vals
BY HeadTailProperties

\* Removing the next conflict from the name leaves what the loop has left.
LEMMA WithoutRest ==
    ASSUME NEW rec, NEW s \in Seq(Vals), NEW t \in Seq(Vals), t # <<>>,
           IsRest(rec, s, t), Matches(rec, t[1])
    PROVE  /\ t[1] \in Members(s)
           /\ Without(s, t[1]) \in Seq(Vals)
           /\ IsRest(rec, Without(s, t[1]), Tail(t))
<1> DEFINE d == Len(s) - Len(t)
           w == Without(s, t[1])
<1>1. /\ Len(s) \in Nat /\ Len(t) \in Nat \ {0} /\ Len(t) <= Len(s) /\ d \in Nat
      /\ \A n \in 1..Len(t) : t[n] = s[d + n]
      /\ \A n \in 1..d : ~Matches(rec, s[n])
  BY DEF IsRest
<1>2. t[1] = s[d + 1] /\ d + 1 \in 1..Len(s)
  BY <1>1
<1>3. t[1] \in Members(s)
  BY <1>2 DEF Members
<1>10. PICK k \in 1..Len(s) : IsWithout(w, s, t[1], k)
  BY <1>3, WithoutShape
<1> HIDE DEF w
<1>4. /\ s[k] = t[1] /\ \A j \in 1..(k-1) : s[j] # t[1]
      /\ w \in Seq(Vals) /\ Len(w) = Len(s) - 1
      /\ \A n \in 1..(Len(s) - 1) : w[n] = IF n < k THEN s[n] ELSE s[n+1]
  BY <1>10 DEF IsWithout
<1>5. k = d + 1
  <2>1. ~(k > d + 1)
    BY <1>1, <1>2, <1>4
  <2>2. ~(k < d + 1)
    BY <1>1, <1>4
  <2> QED BY <1>1, <1>4, <2>1, <2>2
<1>6. /\ Tail(t) \in Seq(Vals) /\ Len(Tail(t)) = Len(t) - 1
      /\ \A n \in 1..(Len(t) - 1) : Tail(t)[n] = t[n+1]
  BY TailShape
<1>7. Len(w) - Len(Tail(t)) = d /\ Len(Tail(t)) <= Len(w)
  BY <1>1, <1>4, <1>6
<1>8. ASSUME NEW n \in 1..Len(Tail(t)) PROVE Tail(t)[n] = w[d + n]
  <2>1. n + 1 \in 1..Len(t) /\ d + n \in 1..(Len(s) - 1) /\ ~(d + n < k) /\ d + (n + 1) = (d + n) + 1
    BY <1>1, <1>5, <1>6
  <2>2. Tail(t)[n] = s[d + (n + 1)]
    BY <1>1, <1>6, <2>1
  <2>3. w[d + n] = s[(d + n) + 1]
    BY <1>4, <2>1
  <2> QED BY <2>1, <2>2, <2>3
<1>9. ASSUME NEW n \in 1..d PROVE ~Matches(rec, w[n])
  <2>1. n \in 1..(Len(s) - 1) /\ n < k
    BY <1>1, <1>5
  <2> QED BY <1>1, <1>4, <2>1
<1> QED BY <1>3, <1>4, <1>7, <1>8, <1>9 DEF IsRest, w

-----------------------------------------------------------------------------
(* What calls do to the zone.                                               *)

LEMMA OutcomeShape ==
    ASSUME NEW s
    PROVE  /\ Outcome(TRUE, s).left = s /\ Outcome(FALSE, s).left = s
           /\ ~Outcome(FALSE, s).ok
           /\ \A ok : Outcome(ok, s).left = s
BY DEF Outcome

\* A call that succeeds did what it does without faults; one that fails may
\* have done it too.
LEMMA FaultyOK ==
    ASSUME NEW outs, NEW refusal, NEW s, NEW o \in Faulty(outs, refusal, s)
    PROVE  /\ o.ok => o \in outs
           /\ o.left = s \/ \E p \in outs : o.left = p.left
<1>1. \/ o \in outs
      \/ o = Outcome(FALSE, s)
      \/ \E p \in outs : o = Outcome(FALSE, p.left)
  BY Zenon DEF Faulty
<1>2. CASE o \in outs
  BY <1>2
<1>3. CASE o = Outcome(FALSE, s)
  BY <1>3, OutcomeShape
<1>4. ASSUME NEW p \in outs, o = Outcome(FALSE, p.left)
      PROVE  ~o.ok /\ o.left = p.left
  BY <1>4, OutcomeShape
<1> QED BY <1>1, <1>2, <1>3, <1>4

\* SetRecord: v is among what is left, and nothing else that was not there.
Wrote(w, s, v) ==
    w \in Seq(Vals) /\ v \in Members(w) /\ Members(w) \subseteq Members(s) \cup {v}

LEMMA SetShape ==
    ASSUME NEW s \in Seq(Vals), NEW v \in Vals
    PROVE  /\ Wrote(<<v>>, <<>>, v)
           /\ Wrote(Append(s, v), s, v)
           /\ Wrote(ReplaceFirst(s, v), s, v)
           /\ Wrote(MergeGoDaddyRecords(s, v), s, v)
<1>1. Members(<<v>>) = {v} /\ <<v>> \in Seq(Vals)
  BY DEF Members
<1>2. Wrote(Append(s, v), s, v)
  BY MembersAppend DEF Wrote
<1>3. Wrote(ReplaceFirst(s, v), s, v)
  <2>1. CASE s = <<>>
    BY <1>1, <2>1 DEF ReplaceFirst, Wrote
  <2>2. CASE s # <<>>
    <3> DEFINE t == [s EXCEPT ![1] = v]
    <3>1. 1 \in 1..Len(s) /\ Len(s) \in Nat
      BY <2>2
    <3>2. /\ t \in Seq(Vals) /\ Len(t) = Len(s)
          /\ \A j \in 1..Len(s) : t[j] = IF j = 1 THEN v ELSE s[j]
      BY <3>1, ExceptSeq
    <3>3. ReplaceFirst(s, v) = t
      BY <2>2 DEF ReplaceFirst
    <3> HIDE DEF t
    <3>4. v \in Members(t)
      BY <3>1, <3>2 DEF Members
    <3>5. Members(t) \subseteq Members(s) \cup {v}
      BY <3>2 DEF Members
    <3> QED BY <3>2, <3>3, <3>4, <3>5 DEF Wrote
  <2> QED BY <2>1, <2>2
<1>4. v \in Members(s) => Wrote(s, s, v)
  BY DEF Wrote
<1> QED BY <1>1, <1>2, <1>3, <1>4 DEF MergeGoDaddyRecords, Wrote

LEMMA FiveProviders ==
    provider \in Providers =>
        provider \in {"cloudflare", "route53", "gcdns", "godaddy", "namecheap"}
BY ProviderAssumption

\* An outcome of SetRecord leaves a sequence of values.  If it is a success the
\* record is there, with some of what was; of the providers that list one page,
\* nothing else.
LEMMA SetOutcomesOK ==
    ASSUME provider \in Providers, zone \in [Keys -> Seq(Vals)],
           NEW rec \in Records, NEW v \in Vals, NEW o \in SetOutcomes(rec, v)
    PROVE  /\ o.left \in Seq(Vals)
           /\ Members(o.left) \subseteq Members(zone[Key(rec)]) \cup {v}
           /\ o.ok => Wrote(o.left, zone[Key(rec)], v)
           /\ o.ok /\ provider \in {"route53", "gcdns"} => Members(o.left) = {v}
<1> DEFINE s == zone[Key(rec)]
<1>1. s \in Seq(Vals)
  BY RecordShape
<1>2. CASE provider = "cloudflare"
  <2>1. CASE Addresses(rec)
    <3>1. o = Outcome(TRUE, CloudflareSet(s, s, v))
      BY <1>2, <2>1 DEF SetOutcomes
    <3>2. CloudflareSet(s, s, v) \in {Append(s, v), ReplaceFirst(s, v)}
      BY DEF CloudflareSet
    <3>3. o.left \in {Append(s, v), ReplaceFirst(s, v)}
      BY <3>1, <3>2, OutcomeShape
    <3>4. Wrote(o.left, s, v)
      BY <1>1, <3>3, SetShape
    <3> QED BY <1>2, <3>4 DEF Wrote
  <2>2. CASE ~Addresses(rec)
    <3>1. o = IF v \in Members(s) THEN Outcome(FALSE, s) ELSE Outcome(TRUE, CloudflareSet(s, <<>>, v))
      BY <1>2, <2>2 DEF SetOutcomes
    <3>2. CloudflareSet(s, <<>>, v) = Append(s, v)
      BY DEF CloudflareSet
    <3>3. (~o.ok /\ o.left = s) \/ o.left = Append(s, v)
      <4>1. o = Outcome(FALSE, s) \/ o = Outcome(TRUE, Append(s, v))
        BY <3>1, <3>2
      <4> QED BY <4>1, OutcomeShape
    <3>4. Wrote(Append(s, v), s, v)
      BY <1>1, SetShape
    <3>5. CASE ~o.ok /\ o.left = s
      BY <1>1, <3>5
    <3>6. CASE o.left = Append(s, v)
      BY <1>2, <3>4, <3>6 DEF Wrote
    <3> QED BY <3>3, <3>5, <3>6
  <2> QED BY <2>1, <2>2
<1>3. CASE provider \in {"route53", "gcdns"}
  <2>1. o = IF Addresses(rec) THEN Outcome(TRUE, RRSetSet(v)) ELSE Outcome(FALSE, s)
    BY <1>3 DEF SetOutcomes
  <2>2. o.left = <<v>> \/ (~o.ok /\ o.left = s)
    BY <2>1, OutcomeShape DEF RRSetSet
  <2>3. Members(<<v>>) = {v} /\ <<v>> \in Seq(Vals)
    BY DEF Members
  <2> QED BY <1>1, <2>2, <2>3 DEF Wrote
<1>4. CASE provider = "godaddy"
  <2>1. PICK seen \in {s, <<>>} : o = Outcome(TRUE, MergeGoDaddyRecords(seen, v))
    BY <1>4 DEF SetOutcomes
  <2>2. o.left = MergeGoDaddyRecords(seen, v)
    BY <2>1, OutcomeShape
  <2>3. Members(<<>>) = {} /\ <<>> \in Seq(Vals)
    BY DEF Members
  <2>4. Wrote(o.left, seen, v)
    BY <1>1, <2>2, <2>3, SetShape
  <2> QED BY <1>4, <2>3, <2>4 DEF Wrote
<1>5. CASE provider = "namecheap"
  <2>1. o = Outcome(TRUE, ReplaceFirst(s, v))
    BY <1>5 DEF SetOutcomes
  <2>2. Wrote(o.left, s, v)
    BY <1>1, <2>1, OutcomeShape, SetShape
  <2> QED BY <1>5, <2>2 DEF Wrote
<1> QED BY <1>2, <1>3, <1>4, <1>5, FiveProviders

\* What an outcome of DeleteRecord can leave of a name.
LEMMA DeleteOutcomesOK ==
    ASSUME provider \in Providers, NEW s \in Seq(Vals), NEW v \in Vals, NEW a \in BOOLEAN,
           NEW o \in DeleteOutcomes(provider, s, v, a)
    PROVE  /\ o.left \in Seq(Vals)
           /\ o.left = s \/ o.left = <<>> \/ (v \in Members(s) /\ o.left = Without(s, v))
           /\ provider \in {"cloudflare", "namecheap"} =>
                 \/ ~o.ok /\ o.left = s
                 \/ v \in Members(s) /\ o.left = Without(s, v)
           /\ provider = "route53" =>
                 \/ ~o.ok /\ o.left = s
                 \/ Len(s) = 1 /\ o.left = <<>>
           /\ provider \in {"gcdns", "godaddy"} => o.left = <<>>
<1>0. <<>> \in Seq(Vals)
  OBVIOUS
<1>1. CASE provider \in {"cloudflare", "namecheap"}
  <2>1. o \in CloudflareDelete(s, v) \cup {Outcome(FALSE, s)}
    BY <1>1 DEF DeleteOutcomes, NamecheapDelete
  <2>2. \/ o = Outcome(FALSE, s)
        \/ v \in Members(s) /\ o = Outcome(TRUE, Without(s, v))
    BY <2>1 DEF CloudflareDelete
  <2>3. v \in Members(s) => Without(s, v) \in Seq(Vals)
    BY WithoutShape DEF IsWithout
  <2> QED BY <1>1, <2>2, <2>3, OutcomeShape
<1>2. CASE provider = "route53"
  <2>1. \/ o = Outcome(FALSE, s)
        \/ Len(s) = 1 /\ o = Outcome(TRUE, <<>>)
    BY <1>2 DEF DeleteOutcomes, Route53Delete
  <2> QED BY <1>0, <1>2, <2>1, OutcomeShape
<1>3. CASE provider \in {"gcdns", "godaddy"}
  <2>1. o.left = <<>>
    <3>1. CASE provider = "gcdns"
      BY <3>1, OutcomeShape DEF DeleteOutcomes, GCDNSDelete
    <3>2. CASE provider = "godaddy"
      BY <3>2, OutcomeShape DEF DeleteOutcomes, GoDaddyDelete
    <3> QED BY <1>3, <3>1, <3>2
  <2> QED BY <1>0, <1>3, <2>1
<1> QED BY <1>1, <1>2, <1>3, FiveProviders

-----------------------------------------------------------------------------
(* Skipping unknown types.  Known is a recursive function: that there is    *)
(* one, and what its values are, follows from there being no least argument *)
(* without.                                                                 *)

LEMMA KnownOK ==
    ASSUME NEW p \in Seq(Records)
    PROVE  /\ Known(p) \in Seq(Records) /\ Members(Known(p)) \subseteq Members(p)
           /\ Len(Known(p)) = Cardinality({n \in 1..Len(p) : p[n].type # "unknown"})
<1> DEFINE Entry(g, n) == IF n = 0 THEN <<>>
                          ELSE IF p[n].type = "unknown" THEN g[n-1] ELSE Append(g[n-1], p[n])
           Solves(g, m) == g = [n \in 0..m |-> Entry(g, n)]
           u == CHOOSE g : Solves(g, Len(p))
           K(n) == {m \in 1..n : p[m].type # "unknown"}
           Good(n, w) == /\ w \in Seq(Records) /\ Members(w) \subseteq Members(p)
                         /\ Len(w) = Cardinality(K(n))
<1>1. Len(p) \in Nat
  OBVIOUS
<1>2. ASSUME NEW m \in 1..Len(p), NEW g, Solves(g, m - 1)
      PROVE  \E h : Solves(h, m)
  <2> DEFINE h == [n \in 0..m |-> IF n < m THEN g[n] ELSE Entry(g, m)]
  <2>1. \A n \in 0..(m-1) : h[n] = g[n] /\ g[n] = Entry(g, n)
    <3> HIDE DEF Entry
    <3>1. \A n \in 0..(m-1) : h[n] = g[n]
      BY <1>1
    <3>2. \A n \in 0..(m-1) : g[n] = Entry(g, n)
      BY <1>2
    <3> QED BY <3>1, <3>2
  <2>2. h[m] = Entry(g, m)
    <3> HIDE DEF Entry
    <3> QED BY <1>1
  <2> HIDE DEF h
  <2>3. ASSUME NEW n \in 0..m PROVE h[n] = Entry(h, n)
    <3>0. h[n] = Entry(g, n)
      <4> HIDE DEF Entry
      <4>1. n = m \/ n \in 0..(m-1)
        BY <1>1
      <4> QED BY <2>1, <2>2, <4>1
    <3>1. CASE n = 0
      BY <3>0, <3>1
    <3>2. CASE n # 0
      <4>1. n - 1 \in 0..(m-1)
        BY <1>1, <3>2
      <4>2. h[n-1] = g[n-1]
        <5> HIDE DEF Entry
        <5> QED BY <2>1, <4>1
      <4> QED BY <3>0, <3>2, <4>2
    <3> QED BY <3>1, <3>2
  <2>4. h = [n \in 0..m |-> h[n]]
    BY DEF h
  <2>5. [n \in 0..m |-> h[n]] = [n \in 0..m |-> Entry(h, n)]
    BY <2>3
  <2> QED BY <2>4, <2>5
<1>3. \E g : Solves(g, 0)
  <2> DEFINE g == [n \in 0..0 |-> <<>>]
  <2>1. g = [n \in 0..0 |-> Entry(g, n)]
    OBVIOUS
  <2> QED BY <2>1
<1>4. \E g : Solves(g, Len(p))
  <2> DEFINE Bad == {m \in 0..Len(p) : ~\E g : Solves(g, m)}
  <2> HIDE DEF Solves
  <2> SUFFICES ASSUME Bad # {} PROVE FALSE
    BY <1>1
  <2>0. Bad \subseteq Nat
    BY <1>1
  <2>1. PICK m \in Bad : \A k \in Bad : m <= k
    BY <2>0, LeastElement, Zenon
  <2>2. m # 0 /\ m \in 0..Len(p)
    BY <1>3, <2>1
  <2>3. m - 1 \in 0..Len(p) /\ m - 1 \notin Bad /\ m \in 1..Len(p)
    BY <1>1, <2>1, <2>2
  <2>4. \E g : Solves(g, m - 1)
    BY <2>3
  <2> QED BY <1>2, <2>1, <2>3, <2>4
<1>5. Solves(u, Len(p))
  BY <1>4, Zenon
<1>6. Known(p) = u[Len(p)]
  BY Zenon DEF Known
<1> HIDE DEF u
<1>7. \A n \in 0..Len(p) : u[n] = Entry(u, n)
  BY <1>5
<1>8. \A n \in 0..Len(p) : Good(n, u[n])
  <2> DEFINE Bad == {n \in 0..Len(p) : ~Good(n, u[n])}
  <2> HIDE DEF Good
  <2> SUFFICES ASSUME Bad # {} PROVE FALSE
    BY <1>1
  <2>0. Bad \subseteq Nat
    BY <1>1
  <2>1. PICK n \in Bad : \A k \in Bad : n <= k
    BY <2>0, LeastElement, Zenon
  <2>2. CASE n = 0
    <3>1. u[0] = <<>>
      BY <1>1, <1>7
    <3>2. K(0) = {}
      OBVIOUS
    <3>3. Good(0, <<>>)
      BY <3>2, FS_EmptySet DEF Good, Members
    <3> QED BY <2>1, <2>2, <3>1, <3>3
  <2>3. CASE n # 0
    <3>1. n \in 1..Len(p) /\ n - 1 \in 0..Len(p) /\ n - 1 \notin Bad
      BY <1>1, <2>1, <2>3
    <3>2. Good(n - 1, u[n-1])
      BY <3>1
    <3>3. p[n] \in Records /\ p[n] \in Members(p)
      BY <3>1 DEF Members
    <3>4. IsFiniteSet(K(n - 1)) /\ n \notin K(n - 1)
      <4>1. IsFiniteSet(1..(n - 1)) /\ K(n - 1) \subseteq 1..(n - 1)
        BY <3>1, FS_Interval
      <4> QED BY <3>1, <4>1, FS_Subset
    <3>5. K(n) = IF p[n].type = "unknown" THEN K(n - 1) ELSE K(n - 1) \cup {n}
      BY <1>1, <3>1
    <3>6. u[n] = IF p[n].type = "unknown" THEN u[n-1] ELSE Append(u[n-1], p[n])
      BY <1>7, <2>3, <3>1
    <3>7. CASE p[n].type = "unknown"
      BY <2>1, <3>2, <3>5, <3>6, <3>7 DEF Good
    <3>8. CASE p[n].type # "unknown"
      <4> HIDE DEF K
      <4>1. Cardinality(K(n)) = Cardinality(K(n - 1)) + 1
        BY <3>4, <3>5, <3>8, FS_AddElement
      <4>2. u[n-1] \in Seq(Records) /\ Len(u[n-1]) = Cardinality(K(n - 1)) /\ Members(u[n-1]) \subseteq Members(p)
        BY <3>2 DEF Good
      <4>3. /\ Append(u[n-1], p[n]) \in Seq(Records) /\ Len(Append(u[n-1], p[n])) = Len(u[n-1]) + 1
            /\ Members(Append(u[n-1], p[n])) = Members(u[n-1]) \cup {p[n]}
        BY <3>3, <4>2, MembersAppend
      <4>4. Good(n, u[n])
        BY <3>3, <3>6, <3>8, <4>1, <4>2, <4>3 DEF Good
      <4> QED BY <2>1, <4>4
    <3> QED BY <3>7, <3>8
  <2> QED BY <2>2, <2>3
<1>9. Good(Len(p), u[Len(p)])
  <2> HIDE DEF Good
  <2>1. Len(p) \in 0..Len(p)
    BY <1>1
  <2> QED BY <1>8, <2>1
<1> QED BY <1>6, <1>9 DEF Good

LEMMA ResolvedOK ==
    ASSUME NEW p \in Seq(Records)
    PROVE  /\ Resolved(p) \in Seq(Records) /\ Members(Resolved(p)) \subseteq Members(p)
           /\ req.kind # "template" => Resolved(p) = p
BY KnownOK DEF Resolved

\* As many records resolve as there are to be counted.
LEMMA CountedOK ==
    ASSUME asked \in Seq(Records)
    PROVE  Len(Resolved(asked)) = Cardinality(Counted)
<1>1. CASE req.kind = "template"
  <2>1. Counted = {n \in 1..Len(asked) : asked[n].type # "unknown"}
    BY <1>1 DEF Counted
  <2>2. Resolved(asked) = Known(asked)
    BY <1>1 DEF Resolved
  <2> QED BY <2>1, <2>2, KnownOK
<1>2. CASE req.kind # "template"
  <2>1. Counted = 1..Len(asked) /\ Resolved(asked) = asked /\ Len(asked) \in Nat
    BY <1>2 DEF Counted, Resolved
  <2> QED BY <2>1, FS_Interval
<1> QED BY <1>1, <1>2

-----------------------------------------------------------------------------
(* The invariant.                                                           *)

\* GetRecords returns what the name has, or nothing if it is not on the page.
LEMMA ListedOK ==
    ASSUME provider \in Providers, zone \in [Keys -> Seq(Vals)], NEW k \in Keys
    PROVE  /\ Listed(k) \in Seq(Vals)
           /\ Lists(k) => Listed(k) = zone[k]
           /\ ~Lists(k) => Listed(k) = <<>> /\ provider \in {"route53", "gcdns"}
<1>1. zone[k] \in Seq(Vals) /\ <<>> \in Seq(Vals)
  OBVIOUS
<1>2. Listed(k) = IF Lists(k) THEN zone[k] ELSE <<>>
  <2>1. CASE provider = "route53"
    BY <2>1 DEF Listed, Lists, GetRecordsOf, Route53Get
  <2>2. CASE provider = "gcdns"
    BY <2>2 DEF Listed, Lists, GetRecordsOf, GCDNSGet
  <2>3. CASE provider \notin {"route53", "gcdns"}
    BY <2>3 DEF Listed, Lists, GetRecordsOf
  <2> QED BY <2>1, <2>2, <2>3
<1> QED BY <1>1, <1>2 DEF Lists

LEMMA VisibleOK ==
    ASSUME provider \in Providers, zone \in [Keys -> Seq(Vals)], NEW rec \in Records
    PROVE  /\ Visible(rec) \in Seq(Vals)
           /\ Visible(rec) # <<>> =>
                 rec.fq /\ Lists(Key(rec)) /\ Visible(rec) = zone[Key(rec)]
BY RecordShape, ListedOK DEF Visible

LEMMA PhaseOK ==
    ASSUME NEW rec, ~req.dry
    PROVE  /\ Phase(rec) \in {"conflicts", "get", "set"}
           /\ Phase(rec) = "conflicts" => Moded(rec)
           /\ Phase(rec) \in {"get", "set"} => ~Moded(rec)
           /\ Phase(rec) = "set" => SetOnly(rec)
BY DEF Phase, Moded, SetOnly

\* What has been dealt with stays so while its name is left alone.
LEMMA DealtWithStays ==
    ASSUME NEW p, NEW z, NEW w, NEW rec \in Records, w[Key(rec)] = z[Key(rec)], DealtWith(p, z, rec)
    PROVE  DealtWith(p, w, rec)
<1>1. InPlace(p, w, rec)
  BY RecordShape DEF DealtWith, InPlace
<1>2. Unopposed(w, rec)
  BY RecordShape DEF DealtWith, Unopposed, Moded
<1> QED BY <1>1, <1>2 DEF DealtWith

\* A dry run looks at the name of the record alone.
LEMMA AnnouncedStays ==
    ASSUME NEW rec, zone'[Key(rec)] = zone[Key(rec)], provider' = provider, page' = page
    PROVE  Announced(rec)' = Announced(rec)
<1>1. Visible(rec)' = Visible(rec)
  BY DEF Visible, Listed
<1> QED BY <1>1 DEF Announced

\* The end of a record.
LEMMA NextRecordIInv ==
    ASSUME IInv, pc \in Writing, NEW status \in Statuses, NextRecord(status),
           UNCHANGED <<request, diffs>>,
           zone' \in [Keys -> Seq(Vals)],
           \A k \in Keys \ {Key(plan[i])} : zone'[k] = zone[k],
           MailOK',
           status # "failed" => DealtWith(provider, zone', plan[i]),
           diffs # <<>> /\ FirstAt(i) /\ ~SetOnly(plan[i]) =>
              status = "failed" \/ status \in Foretold(provider, plan[i], diffs[i])
    PROVE  IInv'
<1>1. /\ results' = Append(results, status) /\ i' = i + 1 /\ todo' = <<>> /\ again' = FALSE
      /\ prev' = NoVal
      /\ provider' = provider /\ page' = page /\ req' = req /\ asked' = asked /\ plan' = plan /\ diffs' = diffs
  BY Zenon DEF NextRecord, request
<1>2. /\ i \in 1..Len(plan) /\ Len(plan) \in Nat /\ plan \in Seq(Records)
      /\ Len(results) = i - 1 /\ results \in Seq(Statuses) /\ ~req.dry
      /\ plan = Resolved(asked) /\ \A rec \in Members(asked) : ~Rejects(rec)
  BY DEF IInv, ShapeOK, PlaceOK, Writing
<1>20. Resolved(asked)' = Resolved(asked)
  BY <1>1 DEF Resolved
<1>3. /\ results' \in Seq(Statuses) /\ Len(results') = i
      /\ results'[i] = status /\ \A j \in 1..(i-1) : results'[j] = results[j]
      /\ Members(results') = Members(results) \cup {status}
  BY <1>1, <1>2, MembersAppend
<1>4. \/ /\ i = Len(plan) /\ pc' = "done"
         /\ outcome' = IF "failed" \in Members(results') THEN "error" ELSE "ok"
      \/ /\ i # Len(plan) /\ i + 1 \in 1..Len(plan)
         /\ pc' = Phase(plan[i+1]) /\ outcome' = outcome
  <2>1. CASE i = Len(plan)
    BY <2>1, Zenon DEF NextRecord, Return
  <2>2. CASE i # Len(plan)
    <3>1. pc' = Phase(plan[i+1]) /\ outcome' = outcome
      BY <2>2, Zenon DEF NextRecord
    <3> QED BY <1>2, <2>2, <3>1
  <2> QED BY <2>1, <2>2
<1>5. /\ pc' \in {"done", "conflicts", "get", "set"}
      /\ pc' # "done" => /\ i + 1 \in 1..Len(plan)
                         /\ pc' = "conflicts" => Moded(plan[i+1])
                         /\ pc' \in {"get", "set"} => ~Moded(plan[i+1])
                         /\ pc' = "set" => SetOnly(plan[i+1])
  BY <1>2, <1>4, PhaseOK
<1>6. outcome' \in {"none", "refused", "ok", "error"}
  BY <1>4 DEF IInv, ShapeOK
<1>7. ShapeOK'
  <2>1. /\ provider \in Providers /\ page \subseteq Keys /\ req \in Requests /\ diffs \in Seq(Actions)
        /\ asked \in Seq(Records)
    BY DEF IInv, ShapeOK
  <2>2. i' \in Nat \ {0} /\ todo' \in Seq(Vals) /\ prev' \in Vals \cup {NoVal}
    BY <1>1, <1>2
  <2>3. again' \in BOOLEAN
    BY <1>1
  <2> QED BY <1>1, <1>2, <1>3, <1>6, <2>1, <2>2, <2>3 DEF ShapeOK
<1>8. PlanOK'
  BY <1>1 DEF IInv, PlanOK
<1>9. PlaceOK'
  <2>1. i' \in 1..Len(plan') \/ pc' = "done"
    BY <1>1, <1>5
  <2>2. Len(results') = i' - 1 /\ ~req'.dry
    BY <1>1, <1>2, <1>3
  <2>3. plan' = Resolved(asked)' /\ \A rec \in Members(asked') : ~Rejects(rec)'
    BY <1>1, <1>2, <1>20 DEF Rejects
  <2>4. pc' = "conflicts" => plan'[i'].type = "TXT" /\ plan'[i'].mode # "None"
    BY <1>1, <1>5 DEF Moded
  <2>5. todo' = <<>> /\ pc' \in {"done", "conflicts", "get", "set"}
    BY <1>1, <1>5
  <2> QED BY <2>1, <2>2, <2>3, <2>4, <2>5 DEF PlaceOK, Writing, Rejects
<1>10. EndOK'
  <2> SUFFICES ASSUME pc' = "done"
               PROVE  /\ Len(results') = Len(plan') /\ plan' = Resolved(asked)'
                      /\ outcome' = "error" <=> "failed" \in Members(results')
    BY DEF EndOK, Members
  <2>1. i = Len(plan) /\ outcome' = IF "failed" \in Members(results') THEN "error" ELSE "ok"
    BY <1>2, <1>4, PhaseOK
  <2> QED BY <1>1, <1>2, <1>3, <1>20, <2>1
<1>11. TodoOK' /\ ClearedOK' /\ FreshOK'
  BY <1>1, <1>5 DEF TodoOK, ClearedOK, FreshOK, Moded
<1>12. DealtWithOK'
  <2> SUFFICES ASSUME "failed" \notin Members(results'),
                      NEW j \in 1..Len(plan), j <= i, LastAt(j)'
               PROVE  DealtWith(provider, zone', plan[j])
    BY <1>1, <1>3 DEF DealtWithOK
  <2>1. CASE j = i
    BY <1>3, <2>1
  <2>2. CASE j # i
    <3>1. j <= Len(results) /\ i \in (j+1)..Len(plan)
      BY <1>2, <2>2
    <3>2. LastAt(j) /\ Key(plan[i]) # Key(plan[j])
      BY <1>1, <3>1 DEF LastAt
    <3>3. DealtWith(provider, zone, plan[j])
      BY <1>2, <1>3, <3>1, <3>2 DEF IInv, DealtWithOK
    <3>4. zone'[Key(plan[j])] = zone[Key(plan[j])] /\ plan[j] \in Records
      BY <1>2, <3>2, RecordShape
    <3> QED BY <3>3, <3>4, DealtWithStays
  <2> QED BY <2>1, <2>2
<1>13. AnnouncedOK'
  <2> SUFFICES ASSUME diffs # <<>> PROVE AnnouncedOK'
    BY <1>1 DEF AnnouncedOK
  <2>1. /\ req.kind # "template" /\ Len(diffs) = Len(plan)
        /\ \A j \in 1..Len(plan) : FirstAt(j) =>
              /\ j > Len(results) => diffs[j] = Announced(plan[j])
              /\ j <= Len(results) /\ ~SetOnly(plan[j]) =>
                    results[j] = "failed" \/ results[j] \in Foretold(provider, plan[j], diffs[j])
    BY <1>2 DEF IInv, AnnouncedOK, Writing
  <2>2. ASSUME NEW j \in 1..Len(plan), FirstAt(j)
        PROVE  /\ j > i => diffs[j] = Announced(plan[j])'
               /\ j <= i /\ ~SetOnly(plan[j]) =>
                     results'[j] = "failed" \/ results'[j] \in Foretold(provider, plan[j], diffs[j])
    <3>1. CASE j > i
      <4>1. j > Len(results) /\ i \in 1..(j-1)
        BY <1>2, <3>1
      <4>2. Key(plan[i]) # Key(plan[j])
        BY <2>2, <4>1 DEF FirstAt
      <4>3. zone'[Key(plan[j])] = zone[Key(plan[j])]
        BY <1>2, <4>2, RecordShape
      <4>4. Announced(plan[j])' = Announced(plan[j])
        BY <1>1, <4>3, AnnouncedStays
      <4> QED BY <1>2, <2>1, <2>2, <3>1, <4>1, <4>4
    <3>2. CASE j = i
      BY <1>2, <1>3, <2>2, <3>2
    <3>3. CASE j < i
      <4>1. j <= Len(results) /\ j \in 1..(i-1)
        BY <1>2, <3>3
      <4>2. results'[j] = results[j]
        BY <1>3, <4>1
      <4>3. ~SetOnly(plan[j]) =>
                results[j] = "failed" \/ results[j] \in Foretold(provider, plan[j], diffs[j])
        BY <2>1, <2>2, <4>1
      <4>4. ~(j > i)
        BY <1>2, <3>3
      <4> QED BY <4>2, <4>3, <4>4
    <3> QED BY <1>2, <3>1, <3>2, <3>3
  <2>3. ASSUME NEW j \in 1..Len(plan)
        PROVE  /\ FirstAt(j)' <=> FirstAt(j)
               /\ SetOnly(plan[j])' <=> SetOnly(plan[j])
    BY <1>1 DEF FirstAt, SetOnly
  <2>4. ~(pc' = "set" /\ ~SetOnly(plan[i+1])) /\ pc' # "diff"
    BY <1>5
  <2> QED BY <1>1, <1>3, <2>1, <2>2, <2>3, <2>4 DEF AnnouncedOK, SetOnly
<1> QED BY <1>7, <1>8, <1>9, <1>10, <1>11, <1>12, <1>13 DEF IInv

LEMMA InitIInv == Init => IInv
<1> SUFFICES ASSUME Init PROVE IInv
  OBVIOUS
<1>1. /\ provider \in Providers /\ asked = <<>> /\ plan = <<>> /\ pc = "idle" /\ i = 1 /\ todo = <<>> /\ prev = NoVal
      /\ results = <<>> /\ diffs = <<>> /\ outcome = "none" /\ again = FALSE
      /\ req = [kind |-> "template", dry |-> FALSE]
  BY Zenon DEF Init
<1>2. page \subseteq Keys
  BY DEF Init
<1>3. zone \in [Keys -> Seq(Vals)]
  BY ApplyAssumption DEF Init
<1>9. MailOK
  BY DEF Init, MailOK, NoPrefs, Stored
<1>4. req \in Requests /\ ~req.dry /\ req.kind = "template"
  BY <1>1 DEF Requests
<1>5. ShapeOK
  <2>1. again \in BOOLEAN /\ prev \in Vals \cup {NoVal} /\ outcome \in {"none", "refused", "ok", "error"}
    BY <1>1, Zenon
  <2>2. i \in Nat \ {0} /\ asked \in Seq(Records) /\ plan \in Seq(Records) /\ todo \in Seq(Vals)
        /\ results \in Seq(Statuses) /\ diffs \in Seq(Actions)
    BY <1>1
  <2> QED BY <1>1, <1>2, <1>3, <1>4, <2>1, <2>2 DEF ShapeOK
<1>6. PlanOK /\ EndOK /\ TodoOK /\ ClearedOK /\ AnnouncedOK
  BY <1>1, <1>4 DEF PlanOK, EndOK, TodoOK, ClearedOK, AnnouncedOK
<1>7. PlaceOK /\ FreshOK
  BY <1>1, <1>4 DEF PlaceOK, Writing, FreshOK
<1>8. DealtWithOK
  BY <1>1 DEF DealtWithOK
<1> QED BY <1>5, <1>6, <1>7, <1>8, <1>9 DEF IInv

\* What holds of a request that has just been made.
LEMMA StartIInv ==
    ASSUME IInv, NEW q \in Requests, Start(q), pc \in {"idle", "done"},
           asked' \in Seq(Records), plan' \in Seq(Records), PlanOK',
           diffs # <<>> => req.dry /\ plan' = plan /\ q.kind = req.kind /\ ~q.dry
    PROVE  IInv'
<1>1. /\ req' = q /\ pc' = "checks" /\ i' = 1 /\ results' = <<>> /\ outcome' = "none"
      /\ provider' = provider /\ page' = page /\ zone' = zone /\ todo' = todo /\ again' = again
      /\ prev' = prev /\ diffs' = diffs
  BY Zenon DEF Start
<1>8. MailOK'
  BY <1>1 DEF IInv, MailOK
<1>2. todo = <<>>
  BY DEF IInv, PlaceOK
<1>3. ShapeOK'
  <2>1. i' \in Nat \ {0} /\ results' \in Seq(Statuses) /\ outcome' \in {"none", "refused", "ok", "error"}
    BY <1>1
  <2> QED BY <1>1, <2>1 DEF IInv, ShapeOK
<1>4. PlaceOK' /\ EndOK' /\ TodoOK' /\ ClearedOK'
  BY <1>1, <1>2 DEF PlaceOK, Writing, EndOK, TodoOK, ClearedOK
<1>5. FreshOK'
  BY <1>1 DEF FreshOK
<1>6. DealtWithOK'
  BY <1>1 DEF DealtWithOK
<1>7. AnnouncedOK'
  <2> SUFFICES ASSUME diffs # <<>> PROVE AnnouncedOK'
    BY <1>1 DEF AnnouncedOK
  <2>1. plan' = plan /\ req'.kind = req.kind /\ results = <<>>
    BY <1>1 DEF IInv, PlaceOK
  <2>2. /\ req.kind # "template" /\ Len(diffs) = Len(plan)
        /\ \A j \in 1..Len(plan) : FirstAt(j) => diffs[j] = Announced(plan[j])
    BY <2>1 DEF IInv, AnnouncedOK
  <2>3. ASSUME NEW j \in 1..Len(plan)
        PROVE  Announced(plan[j])' = Announced(plan[j]) /\ (FirstAt(j)' <=> FirstAt(j))
    BY <1>1, <2>1 DEF Announced, Visible, Listed, FirstAt
  <2> QED BY <1>1, <2>1, <2>2, <2>3 DEF AnnouncedOK
<1> QED BY <1>3, <1>4, <1>5, <1>6, <1>7, <1>8 DEF IInv

LEMMA SubmitIInv ==
    ASSUME IInv, NEW q \in Requests, NEW p \in Plans(q.kind), Submit(q, p)
    PROVE  IInv'
<1>1. pc = "idle" /\ Start(q) /\ asked' = p /\ plan' = p
  BY DEF Submit
<1>2. req' = q
  BY <1>1 DEF Start
<1> DEFINE recs == {rec \in Records : q.kind = "template" \/ ~TemplateOnly(rec)}
<1>3. PICK n \in 1..MaxRecords : p \in [1..n -> recs]
  BY Zenon DEF Plans
<1>4. p \in Seq(recs) /\ Len(p) = n
  BY <1>3, ApplyAssumption
<1>5. p \in Seq(Records)
  BY <1>4, SeqMonotonic
<1>6. PlanOK'
  BY <1>1, <1>2, <1>4 DEF PlanOK
<1>7. diffs = <<>>
  BY <1>1 DEF IInv, FreshOK
<1> QED BY <1>1, <1>5, <1>6, <1>7, StartIInv

LEMMA ConfirmIInv ==
    ASSUME IInv, Confirm
    PROVE  IInv'
<1> DEFINE q == [req EXCEPT !.dry = FALSE]
<1>1. pc = "done" /\ req.dry /\ Start(q) /\ asked' = asked /\ plan' = plan
  BY DEF Confirm
<1>2. req \in Requests /\ asked \in Seq(Records) /\ plan \in Seq(Records) /\ PlanOK
  BY DEF IInv, ShapeOK
<1>3. q \in Requests /\ q.kind = req.kind /\ ~q.dry
  BY <1>2 DEF Requests
<1>4. req' = q
  BY <1>1, Zenon DEF Start
<1> HIDE DEF q
<1>5. PlanOK'
  BY <1>1, <1>2, <1>3, <1>4 DEF PlanOK
<1> QED BY <1>1, <1>2, <1>3, <1>5, StartIInv

LEMMA ChecksIInv ==
    ASSUME IInv, Checks
    PROVE  IInv'
<1>1. /\ pc = "checks"
      /\ Refuse \/ Proceed
      /\ provider' = provider /\ page' = page /\ zone' = zone /\ req' = req /\ asked' = asked
      /\ i' = i /\ todo' = todo /\ again' = again /\ prev' = prev /\ results' = results
      /\ diffs' = diffs
  BY Zenon DEF Checks
<1>5. MailOK' /\ Resolved(asked)' = Resolved(asked)
  BY <1>1 DEF IInv, MailOK, Resolved
<1>2. /\ results = <<>> /\ todo = <<>> /\ i = 1 /\ asked \in Seq(Records)
      /\ req.dry => diffs = <<>>
      /\ req.kind # "template" => plan = asked
  BY <1>1 DEF IInv, PlaceOK, PlanOK, FreshOK, ShapeOK
<1>3. CASE Refuse
  <2>1. pc' = "done" /\ outcome' = "refused" /\ plan' = plan
    BY <1>3 DEF Refuse, Return
  <2>2. ShapeOK'
    BY <1>1, <2>1 DEF IInv, ShapeOK
  <2>3. PlanOK' /\ PlaceOK' /\ EndOK' /\ TodoOK' /\ ClearedOK' /\ FreshOK'
    BY <1>1, <1>2, <2>1 DEF IInv, PlanOK, PlaceOK, Writing, EndOK, TodoOK, ClearedOK, FreshOK
  <2>4. DealtWithOK'
    BY <1>1, <1>2 DEF DealtWithOK
  <2>5. ASSUME NEW j
        PROVE  Announced(plan[j])' = Announced(plan[j]) /\ (FirstAt(j)' <=> FirstAt(j))
    BY <1>1, <2>1 DEF Announced, Visible, Listed, FirstAt
  <2>6. AnnouncedOK'
    BY <1>1, <1>2, <2>1, <2>5 DEF IInv, AnnouncedOK, SetOnly
  <2> QED BY <1>5, <2>2, <2>3, <2>4, <2>6 DEF IInv
<1>4. CASE Proceed
  <2>1. /\ \A rec \in Members(asked) : ~Rejects(rec)
        /\ plan' = Resolved(asked)
        /\ \/ NothingToDo(plan') /\ pc' = "done" /\ outcome' = "ok"
           \/ ~NothingToDo(plan') /\ pc' = Phase(plan'[1]) /\ outcome' = outcome
    BY <1>4, Zenon DEF Proceed, Return
  <2>2. /\ plan' \in Seq(Records) /\ plan' = Resolved(asked)'
        /\ req.kind # "template" => plan' = plan
    BY <1>2, <1>5, <2>1, ResolvedOK
  <2>3. \A rec \in Members(asked') : ~Rejects(rec)'
    BY <1>1, <2>1 DEF Rejects
  <2>4. ShapeOK'
    BY <1>1, <2>1, <2>2 DEF IInv, ShapeOK
  <2>5. PlanOK'
    BY <1>1, <1>2, <2>2 DEF IInv, PlanOK
  <2>6. ASSUME NothingToDo(plan')
        PROVE  PlaceOK' /\ EndOK' /\ TodoOK' /\ ClearedOK' /\ FreshOK'
    <3>1. pc' = "done" /\ outcome' = "ok" /\ (plan' = <<>> \/ req.dry)
      BY <2>1, <2>6 DEF NothingToDo
    <3>2. PlaceOK' /\ TodoOK' /\ ClearedOK' /\ FreshOK'
      BY <1>1, <1>2, <3>1 DEF PlaceOK, Writing, TodoOK, ClearedOK, FreshOK
    <3>3. EndOK'
      BY <1>1, <1>2, <2>2, <3>1 DEF EndOK, Members
    <3> QED BY <3>1, <3>2, <3>3
  <2>7. ASSUME ~NothingToDo(plan')
        PROVE  PlaceOK' /\ EndOK' /\ TodoOK' /\ ClearedOK' /\ FreshOK'
    <3>1. pc' = Phase(plan'[1]) /\ outcome' = outcome /\ plan' # <<>> /\ ~(req.dry /\ req.kind = "template")
      BY <2>1, <2>7 DEF NothingToDo
    <3>2. i' \in 1..Len(plan') /\ i' = 1
      BY <1>1, <1>2, <2>2, <3>1
    <3>3. CASE req.dry
      <4>1. pc' = "diff" /\ req.kind # "template" /\ diffs = <<>>
        BY <1>2, <3>1, <3>3 DEF Phase
      <4> QED BY <1>1, <1>2, <3>2, <3>3, <4>1
               DEF PlaceOK, Writing, TodoOK, ClearedOK, FreshOK, EndOK
    <3>4. CASE ~req.dry
      <4>1. /\ pc' \in {"conflicts", "get", "set"}
            /\ pc' = "conflicts" => Moded(plan'[1])
            /\ pc' \in {"get", "set"} => ~Moded(plan'[1])
        BY <3>1, <3>4, PhaseOK
      <4>3. PlaceOK'
        BY <1>1, <1>2, <2>2, <2>3, <3>2, <3>4, <4>1 DEF PlaceOK, Writing, Moded
      <4> QED BY <1>1, <3>2, <4>1, <4>3 DEF TodoOK, ClearedOK, Moded, FreshOK, EndOK
    <3> QED BY <3>3, <3>4
  <2>8. DealtWithOK'
    BY <1>1, <1>2 DEF DealtWithOK
  <2>9. AnnouncedOK'
    <3> SUFFICES ASSUME diffs # <<>> PROVE AnnouncedOK'
      BY <1>1 DEF AnnouncedOK
    <3>1. /\ req.kind # "template" /\ Len(diffs) = Len(plan) /\ plan' = plan /\ ~req.dry
          /\ \A j \in 1..Len(plan) : FirstAt(j) => diffs[j] = Announced(plan[j])
      BY <1>1, <1>2, <2>2 DEF IInv, AnnouncedOK
    <3>2. ASSUME NEW j
          PROVE  /\ Announced(plan[j])' = Announced(plan[j])
                 /\ FirstAt(j)' <=> FirstAt(j)
                 /\ SetOnly(plan[j])' <=> SetOnly(plan[j])
      BY <1>1, <3>1 DEF Announced, Visible, Listed, FirstAt, SetOnly
    <3>3. pc' # "diff" /\ (pc' = "set" => SetOnly(plan[1]))
      BY <2>1, <3>1, PhaseOK
    <3> QED BY <1>1, <1>2, <3>1, <3>2, <3>3 DEF AnnouncedOK
  <2> QED BY <1>5, <2>4, <2>5, <2>6, <2>7, <2>8, <2>9 DEF IInv
<1> QED BY <1>1, <1>3, <1>4

\* A dry run has compared a record, or failed to.
LEMMA DiffIInv ==
    ASSUME IInv, Diff
    PROVE  IInv'
<1>1. /\ pc = "diff"
      /\ provider' = provider /\ page' = page /\ zone' = zone /\ req' = req /\ asked' = asked /\ plan' = plan
      /\ todo' = todo /\ again' = again /\ prev' = prev /\ results' = results
      /\ \/ /\ diffs' = Append(diffs, Announced(plan[i])) /\ i' = i + 1
            /\ \/ i = Len(plan) /\ pc' = "done" /\ outcome' = "ok"
               \/ i # Len(plan) /\ pc' = "diff" /\ outcome' = outcome
         \/ diffs' = <<>> /\ pc' = "done" /\ outcome' = "error" /\ i' = i
  BY Zenon DEF Diff, Return, request
<1>2. /\ i \in 1..Len(plan) /\ Len(plan) \in Nat /\ plan \in Seq(Records) /\ req.dry
      /\ req.kind # "template" /\ results = <<>> /\ todo = <<>> /\ Len(diffs) = i - 1
      /\ diffs \in Seq(Actions)
  BY <1>1 DEF IInv, PlaceOK, FreshOK, ShapeOK
<1>3. Announced(plan[i]) \in Actions
  BY DEF Announced, Actions
<1>4. PlanOK' /\ MailOK'
  BY <1>1 DEF IInv, PlanOK, MailOK
<1>5. EndOK' /\ TodoOK' /\ ClearedOK' /\ DealtWithOK'
  <2>1. pc' \in {"done", "diff"} /\ req'.dry
    BY <1>1, <1>2
  <2> QED BY <2>1 DEF EndOK, TodoOK, ClearedOK, DealtWithOK
<1>6. CASE diffs' = <<>> /\ pc' = "done" /\ outcome' = "error" /\ i' = i
  <2>1. ShapeOK'
    BY <1>1, <1>6 DEF IInv, ShapeOK
  <2>2. PlaceOK' /\ FreshOK' /\ AnnouncedOK'
    BY <1>1, <1>2, <1>6 DEF PlaceOK, Writing, FreshOK, AnnouncedOK
  <2> QED BY <1>4, <1>5, <2>1, <2>2 DEF IInv
<1>7. ASSUME diffs' = Append(diffs, Announced(plan[i])), i' = i + 1,
             \/ i = Len(plan) /\ pc' = "done" /\ outcome' = "ok"
             \/ i # Len(plan) /\ pc' = "diff" /\ outcome' = outcome
      PROVE  IInv'
  <2>1. /\ diffs' \in Seq(Actions) /\ Len(diffs') = i /\ diffs'[i] = Announced(plan[i])
        /\ \A j \in 1..(i-1) : diffs'[j] = diffs[j]
    BY <1>2, <1>3, <1>7, MembersAppend
  <2>2. ShapeOK'
    <3>1. i' \in Nat \ {0} /\ outcome' \in {"none", "refused", "ok", "error"}
      BY <1>2, <1>7 DEF IInv, ShapeOK
    <3> QED BY <1>1, <2>1, <3>1 DEF IInv, ShapeOK
  <2>3. PlaceOK'
    BY <1>1, <1>2, <1>7 DEF PlaceOK, Writing
  <2>4. FreshOK'
    BY <1>1, <1>2, <1>7, <2>1 DEF FreshOK
  <2>5. AnnouncedOK'
    <3>1. ASSUME NEW j
          PROVE  Announced(plan[j])' = Announced(plan[j]) /\ (FirstAt(j)' <=> FirstAt(j))
      BY <1>1 DEF Announced, Visible, Listed, FirstAt
    <3>2. ASSUME NEW j \in 1..Len(plan), j <= i, FirstAt(j)
          PROVE  diffs'[j] = Announced(plan[j])
      <4>1. CASE j = i
        BY <2>1, <4>1
      <4>2. CASE j # i
        <5>1. j \in 1..(i-1) /\ j <= Len(diffs) /\ diffs # <<>> /\ j > Len(results)
          BY <1>2, <3>2, <4>2
        <5>2. diffs[j] = Announced(plan[j])
          BY <3>2, <5>1 DEF IInv, AnnouncedOK
        <5> QED BY <2>1, <5>1, <5>2
      <4> QED BY <4>1, <4>2
    <3>3. pc' # "set" /\ (pc' # "diff" => Len(diffs') = Len(plan'))
      BY <1>1, <1>7, <2>1
    <3>4. ASSUME NEW j \in 1..Len(plan') PROVE ~(j <= Len(results'))
      BY <1>1, <1>2
    <3> QED BY <1>1, <1>2, <2>1, <3>1, <3>2, <3>3, <3>4 DEF AnnouncedOK
  <2> QED BY <1>4, <1>5, <2>2, <2>3, <2>4, <2>5 DEF IInv
<1> QED BY <1>1, <1>6, <1>7

\* A step within a record leaves the results, and the zone but for the record's
\* own name.
LEMMA WithinRecord ==
    ASSUME IInv, pc \in Writing, UNCHANGED <<request, i, results, diffs, outcome>>,
           zone' \in [Keys -> Seq(Vals)],
           \A k \in Keys \ {Key(plan[i])} : zone'[k] = zone[k],
           pc' \in {"get", "set", "delete"},
           again' \in BOOLEAN, prev' \in Vals \cup {NoVal}, todo' \in Seq(Vals),
           pc' = "delete" => Moded(plan[i]),
           pc' = "delete" <=> todo' # <<>>,
           MailOK', TodoOK', ClearedOK', AnnouncedOK'
    PROVE  IInv'
<1>1. /\ provider' = provider /\ page' = page /\ req' = req /\ asked' = asked /\ plan' = plan /\ i' = i
      /\ results' = results /\ diffs' = diffs /\ outcome' = outcome
  BY DEF request
<1>2. /\ i \in 1..Len(plan) /\ Len(plan) \in Nat /\ plan \in Seq(Records)
      /\ Len(results) = i - 1 /\ ~req.dry
      /\ plan = Resolved(asked) /\ \A rec \in Members(asked) : ~Rejects(rec)
  BY DEF IInv, ShapeOK, PlaceOK, Writing
<1>8. Resolved(asked)' = Resolved(asked)
  BY <1>1 DEF Resolved
<1>3. ShapeOK'
  BY <1>1 DEF IInv, ShapeOK
<1>4. PlanOK'
  BY <1>1 DEF IInv, PlanOK
<1>5. PlaceOK'
  BY <1>1, <1>2, <1>8 DEF PlaceOK, Writing, Moded, Rejects
<1>6. EndOK' /\ FreshOK'
  BY DEF EndOK, FreshOK
<1>7. DealtWithOK'
  <2> SUFFICES ASSUME "failed" \notin Members(results),
                      NEW j \in 1..Len(plan), j <= Len(results), LastAt(j)'
               PROVE  DealtWith(provider, zone', plan[j])
    BY <1>1 DEF DealtWithOK, Members
  <2>1. i \in (j+1)..Len(plan)
    BY <1>2
  <2>2. LastAt(j) /\ Key(plan[i]) # Key(plan[j])
    BY <1>1, <2>1 DEF LastAt
  <2>3. DealtWith(provider, zone, plan[j])
    BY <1>2, <2>2 DEF IInv, DealtWithOK
  <2>4. zone'[Key(plan[j])] = zone[Key(plan[j])] /\ plan[j] \in Records
    BY <1>2, <2>2, RecordShape
  <2> QED BY <2>3, <2>4, DealtWithStays
<1> QED BY <1>3, <1>4, <1>5, <1>6, <1>7 DEF IInv

\* Only a template has conflicts, and only requests with records a dry run that
\* announces something.
LEMMA NothingAnnounced ==
    ASSUME IInv, pc \in Writing, Moded(plan[i])
    PROVE  diffs = <<>>
<1>1. i \in 1..Len(plan)
  BY DEF IInv, PlaceOK
<1>2. req.kind = "template"
  BY <1>1 DEF IInv, PlanOK, Moded, TemplateOnly
<1> QED BY <1>2 DEF IInv, AnnouncedOK

\* What the loop has left of a listing: a conflict and then more, or no conflict.
LEMMA ConflictsIInv ==
    ASSUME IInv, Conflicts
    PROVE  IInv'
<1>1. /\ pc = "conflicts" /\ UNCHANGED <<request, zone, diffs>>
      /\ \/ /\ todo' = FromConflict(plan[i], Visible(plan[i]))
            /\ pc' = (IF todo' = <<>> THEN "get" ELSE "delete")
            /\ UNCHANGED <<i, again, prev, results, outcome>>
         \/ NextRecord("failed")
  BY Zenon DEF Conflicts
<1>2. /\ i \in 1..Len(plan) /\ plan[i] \in Records /\ pc \in Writing /\ Moded(plan[i])
      /\ provider \in Providers /\ zone \in [Keys -> Seq(Vals)]
  BY <1>1 DEF IInv, ShapeOK, PlaceOK, Writing, Moded
<1>3. diffs = <<>>
  BY <1>2, NothingAnnounced
<1>4. ASSUME NextRecord("failed") PROVE IInv'
  <2>1. zone' = zone /\ UNCHANGED <<request, diffs>>
    BY <1>1
  <2>2. MailOK'
    BY <2>1 DEF IInv, MailOK, request
  <2> QED BY <1>2, <1>3, <1>4, <2>1, <2>2, NextRecordIInv DEF Statuses
<1>5. ASSUME todo' = FromConflict(plan[i], Visible(plan[i])),
             pc' = (IF todo' = <<>> THEN "get" ELSE "delete"),
             UNCHANGED <<i, again, prev, results, outcome>>
      PROVE  IInv'
  <2>1. /\ provider' = provider /\ page' = page /\ req' = req /\ asked' = asked /\ plan' = plan /\ i' = i
        /\ zone' = zone /\ diffs' = diffs
    BY <1>1, <1>5 DEF request
  <2>2. Visible(plan[i]) \in Seq(Vals)
    BY <1>2, VisibleOK
  <2>3. /\ todo' \in Seq(Vals)
        /\ IsRest(plan[i], Visible(plan[i]), todo')
        /\ todo' # <<>> => Matches(plan[i], todo'[1])
    BY <1>5, <2>2, FromConflictOK
  <2>4. TodoOK'
    <3> SUFFICES ASSUME todo' # <<>> PROVE TodoOK'
      BY <1>5 DEF TodoOK
    <3>1. Visible(plan[i]) # <<>>
      BY <2>2, <2>3 DEF IsRest
    <3>2. plan[i].fq /\ Lists("apex") /\ Visible(plan[i]) = zone["apex"]
      BY <1>2, <3>1, VisibleOK, RecordShape DEF Moded
    <3> QED BY <2>1, <2>3, <3>2 DEF TodoOK, Lists
  <2>5. ClearedOK'
    <3> SUFFICES ASSUME todo' = <<>>
                 PROVE  \A n \in 1..Len(Visible(plan[i])) : ~Matches(plan[i], Visible(plan[i])[n])
      <4>1. Visible(plan[i])' = Visible(plan[i])
        BY <2>1 DEF Visible, Listed
      <4> QED BY <1>5, <2>1, <4>1 DEF ClearedOK
    <3> QED BY <2>2, <2>3 DEF IsRest
  <2>6. AnnouncedOK'
    BY <1>3, <2>1 DEF AnnouncedOK
  <2>7. again' \in BOOLEAN /\ prev' \in Vals \cup {NoVal}
    BY <1>5 DEF IInv, ShapeOK
  <2>8. UNCHANGED <<request, i, results, diffs, outcome>>
    BY <1>1, <1>5
  <2>9. /\ pc' \in {"get", "set", "delete"}
        /\ pc' = "delete" <=> todo' # <<>>
    BY <1>5
  <2>10. MailOK'
    BY <2>1 DEF IInv, MailOK
  <2> QED BY <1>2, <2>1, <2>3, <2>4, <2>5, <2>6, <2>7, <2>8, <2>9, <2>10, WithinRecord
<1> QED BY <1>1, <1>4, <1>5

\* One conflict less, or a call that failed.
LEMMA DeleteIInv ==
    ASSUME IInv, Delete
    PROVE  IInv'
<1>1. PICK o \in Faulty(DeleteOutcomes(provider, zone["apex"], todo[1], again), "delete", zone["apex"]) :
        /\ zone' = [zone EXCEPT !["apex"] = o.left]
        /\ \/ /\ o.ok
              /\ todo' = FromConflict(plan[i], Tail(todo))
              /\ again' = (todo' # <<>>)
              /\ pc' = (IF todo' = <<>> THEN "get" ELSE "delete")
              /\ UNCHANGED <<i, prev, results, outcome>>
           \/ ~o.ok /\ NextRecord("failed")
  BY Zenon DEF Delete
<1>2. pc = "delete" /\ UNCHANGED <<request, diffs>>
  BY Zenon DEF Delete
<1>3. /\ i \in 1..Len(plan) /\ plan[i] \in Records /\ pc \in Writing /\ Moded(plan[i])
      /\ provider \in Providers /\ zone \in [Keys -> Seq(Vals)]
      /\ todo \in Seq(Vals) /\ todo # <<>> /\ again \in BOOLEAN
  BY <1>2 DEF IInv, ShapeOK, PlaceOK, Writing, Moded
<1>4. diffs = <<>>
  BY <1>3, NothingAnnounced
<1>5. Key(plan[i]) = "apex" /\ "apex" \in Keys
  BY <1>3, RecordShape DEF Moded, Keys
<1> DEFINE s == zone["apex"]
           outs == DeleteOutcomes(provider, s, todo[1], again)
<1>6. s \in Seq(Vals) /\ Len(s) \in Nat
  BY <1>3, <1>5
<1>7. /\ Tail(todo) \in Seq(Vals) /\ Len(Tail(todo)) = Len(todo) - 1 /\ Len(todo) \in Nat \ {0}
      /\ todo[1] \in Vals
  BY <1>3, TailShape
<1>8. /\ o.ok => o \in outs
      /\ o.left = s \/ \E p \in outs : o.left = p.left
  BY FaultyOK
<1>9. ASSUME NEW p \in outs
      PROVE  /\ p.left \in Seq(Vals)
             /\ provider \in {"cloudflare", "namecheap"} =>
                   \/ ~p.ok /\ p.left = s
                   \/ todo[1] \in Members(s) /\ p.left = Without(s, todo[1])
             /\ provider = "route53" =>
                   \/ ~p.ok /\ p.left = s
                   \/ Len(s) = 1 /\ p.left = <<>>
             /\ provider \in {"gcdns", "godaddy"} => p.left = <<>>
  BY <1>3, <1>6, <1>7, DeleteOutcomesOK
<1> HIDE DEF outs
<1>10. o.left \in Seq(Vals)
  BY <1>6, <1>8, <1>9
<1>11. /\ zone' \in [Keys -> Seq(Vals)] /\ zone'["apex"] = o.left
       /\ \A k \in Keys \ {Key(plan[i])} : zone'[k] = zone[k]
  BY <1>1, <1>3, <1>5, <1>10
<1>14. MailOK'
  <2>1. zone'["mail"] = zone["mail"] /\ provider' = provider
    BY <1>2, <1>5, <1>11 DEF request, Keys
  <2> QED BY <2>1 DEF IInv, MailOK
<1>12. ASSUME NextRecord("failed") PROVE IInv'
  BY <1>2, <1>3, <1>4, <1>11, <1>12, <1>14, NextRecordIInv DEF Statuses
<1>13. ASSUME o.ok, todo' = FromConflict(plan[i], Tail(todo)), again' = (todo' # <<>>),
              pc' = (IF todo' = <<>> THEN "get" ELSE "delete"),
              UNCHANGED <<i, prev, results, outcome>>
       PROVE  IInv'
  <2>1. /\ provider' = provider /\ page' = page /\ req' = req /\ asked' = asked /\ plan' = plan /\ i' = i
        /\ diffs' = diffs
    BY <1>2, <1>13 DEF request
  <2>2. /\ todo' \in Seq(Vals)
        /\ IsRest(plan[i], Tail(todo), todo')
        /\ todo' # <<>> => Matches(plan[i], todo'[1])
    BY <1>7, <1>13, FromConflictOK
  <2>3. /\ plan[i].fq /\ Matches(plan[i], todo[1]) /\ Lists("apex")
        /\ \/ IsRest(plan[i], s, todo)
           \/ provider \in {"gcdns", "godaddy"} /\ s = <<>>
    BY <1>2 DEF IInv, TodoOK
  <2>4. \/ IsRest(plan[i], zone'["apex"], todo')
        \/ provider \in {"gcdns", "godaddy"} /\ zone'["apex"] = <<>>
    <3>1. CASE provider \in {"cloudflare", "namecheap"}
      <4>1. o.left = Without(s, todo[1])
        BY <1>8, <1>9, <1>13, <3>1
      <4>2. IsRest(plan[i], s, todo)
        BY <2>3, <3>1
      <4>3. o.left \in Seq(Vals) /\ IsRest(plan[i], o.left, Tail(todo))
        BY <1>3, <1>6, <2>3, <4>1, <4>2, WithoutRest
      <4> QED BY <1>7, <1>11, <2>2, <4>3, RestOfRest
    <3>2. CASE provider = "route53"
      <4>1. Len(s) = 1 /\ o.left = <<>>
        BY <1>8, <1>9, <1>13, <3>2
      <4>2. IsRest(plan[i], s, todo)
        BY <2>3, <3>2
      <4>3. Len(Tail(todo)) = 0
        BY <1>7, <4>1, <4>2 DEF IsRest
      <4>4. Len(todo') = 0
        BY <2>2, <4>3 DEF IsRest
      <4> QED BY <1>11, <2>2, <4>1, <4>4 DEF IsRest
    <3>3. CASE provider \in {"gcdns", "godaddy"}
      BY <1>8, <1>9, <1>11, <1>13, <3>3
    <3> QED BY <1>3, <3>1, <3>2, <3>3, FiveProviders
  <2>5. TodoOK'
    BY <1>13, <2>1, <2>2, <2>3, <2>4 DEF TodoOK, Lists
  <2>6. ClearedOK'
    <3> SUFFICES ASSUME todo' = <<>>
                 PROVE  \A n \in 1..Len(zone'["apex"]) : ~Matches(plan[i], zone'["apex"][n])
      <4>1. Visible(plan[i])' = zone'["apex"]
        <5>1. Listed("apex")' = zone'["apex"]
          BY <2>1, <2>3 DEF Listed, Lists, GetRecordsOf, Route53Get, GCDNSGet
        <5> QED BY <1>5, <2>1, <2>3, <5>1 DEF Visible, Key
      <4> QED BY <1>13, <2>1, <4>1 DEF ClearedOK
    <3> QED BY <1>10, <1>11, <2>2, <2>4 DEF IsRest
  <2>7. AnnouncedOK'
    BY <1>4, <2>1 DEF AnnouncedOK
  <2>8. UNCHANGED <<request, i, results, diffs, outcome>>
    BY <1>2, <1>13
  <2>9. again' \in BOOLEAN /\ prev' \in Vals \cup {NoVal}
    BY <1>13 DEF IInv, ShapeOK
  <2>10. /\ pc' \in {"get", "set", "delete"}
         /\ pc' = "delete" <=> todo' # <<>>
    BY <1>13
  <2> QED BY <1>3, <1>11, <1>14, <2>2, <2>5, <2>6, <2>7, <2>8, <2>9, <2>10, WithinRecord
<1> QED BY <1>1, <1>12, <1>13

LEMMA WantedOK ==
    ASSUME provider \in Providers, zone \in [Keys -> Seq(Vals)], NEW rec \in Records
    PROVE  /\ Wanted(rec) \in Vals /\ Wanted(rec) # NoVal
           /\ rec.type = "SPFM" => Wanted(rec).spf /\ rec.val.includes \subseteq Wanted(rec).includes
           /\ rec.type # "SPFM" => Wanted(rec) = rec.val
<1>1. Listed("apex") \in Seq(Vals)
  BY ListedOK DEF Keys
<1>2. CASE rec.type = "SPFM"
  <2>1. rec.val.includes \in SUBSET Includes
    BY <1>2, RecordShape
  <2>2. Wanted(rec) = MergedSPF(Listed("apex"), rec.val.includes)
    BY <1>2 DEF Wanted
  <2> QED BY <1>1, <1>2, <2>1, <2>2, Merged
<1>3. CASE rec.type # "SPFM"
  BY <1>3, RecordShape DEF Wanted
<1> QED BY <1>2, <1>3

LEMMA ExistingOK ==
    ASSUME provider \in Providers, zone \in [Keys -> Seq(Vals)], NEW rec \in Records
    PROVE  /\ Existing(rec) \in Vals \cup {NoVal}
           /\ rec.type = "SPFM" /\ Existing(rec) # NoVal =>
                 \E n \in SPFRecords(zone["apex"]) : Existing(rec) = zone["apex"][n]
           /\ rec.type # "SPFM" /\ Visible(rec) = <<>> => Existing(rec) = NoVal
           /\ rec.type # "SPFM" /\ Visible(rec) # <<>> =>
                 /\ Existing(rec) = FindRecord(Visible(rec))
                 /\ Existing(rec) = zone[Key(rec)][1] /\ 1 \in 1..Len(zone[Key(rec)])
                 /\ Existing(rec) # NoVal
<1>1. CASE rec.type = "SPFM"
  <2>1. /\ Listed("apex") \in Seq(Vals)
        /\ Listed("apex") # <<>> => Listed("apex") = zone["apex"]
    BY ListedOK DEF Keys
  <2>2. Existing(rec) = CurrentSPF(Listed("apex"))
    BY <1>1 DEF Existing
  <2>3. CASE SPFRecords(Listed("apex")) = {}
    BY <1>1, <2>1, <2>2, <2>3, CurrentMember
  <2>4. CASE SPFRecords(Listed("apex")) # {}
    <3>1. PICK n \in SPFRecords(Listed("apex")) :
             Existing(rec) = Listed("apex")[n] /\ Listed("apex")[n] \in Vals
      BY <2>1, <2>2, <2>4, CurrentMember
    <3>2. Listed("apex") = zone["apex"]
      BY <2>1, <2>4 DEF SPFRecords
    <3> QED BY <1>1, <3>1, <3>2
  <2> QED BY <2>3, <2>4
<1>2. CASE rec.type # "SPFM"
  <2>1. /\ Visible(rec) \in Seq(Vals)
        /\ Visible(rec) # <<>> => Visible(rec) = zone[Key(rec)]
    BY VisibleOK
  <2>2. Existing(rec) = FindRecord(Visible(rec))
    BY <1>2 DEF Existing
  <2>3. CASE Visible(rec) = <<>>
    BY <1>2, <2>2, <2>3 DEF FindRecord
  <2>4. CASE Visible(rec) # <<>>
    <3>1. Existing(rec) = Visible(rec)[1] /\ 1 \in 1..Len(Visible(rec)) /\ Visible(rec)[1] \in Vals
      BY <2>1, <2>2, <2>4 DEF FindRecord
    <3> QED BY <1>2, <2>1, <2>2, <2>4, <3>1, ProviderAssumption
  <2> QED BY <2>3, <2>4
<1> QED BY <1>1, <1>2

\* What a request with an announcement is at: a record that is not SPFM.
LEMMA AnnouncedHere ==
    ASSUME IInv, pc \in Writing, diffs # <<>>
    PROVE  /\ ~TemplateOnly(plan[i]) /\ req.kind # "template"
           /\ FirstAt(i) => diffs[i] = Announced(plan[i])
           /\ FirstAt(i) /\ pc = "set" /\ ~SetOnly(plan[i]) =>
                 Unconfigured(prev) \in Foretold(provider, plan[i], diffs[i])
<1>1. i \in 1..Len(plan) /\ Len(plan) \in Nat /\ Len(results) = i - 1
  BY DEF IInv, ShapeOK, PlaceOK
<1>2. req.kind # "template" /\ Len(diffs) = Len(plan)
  BY DEF IInv, AnnouncedOK, Writing
<1>3. ~TemplateOnly(plan[i])
  BY <1>1, <1>2 DEF IInv, PlanOK
<1>4. i <= Len(diffs) /\ i > Len(results)
  BY <1>1, <1>2
<1> QED BY <1>1, <1>2, <1>3, <1>4 DEF IInv, AnnouncedOK

\* What a dry run announces of a record that the push finds configured or not.
LEMMA AnnouncedOf ==
    ASSUME IInv, NEW rec \in Records, rec.type # "SPFM", rec.type = "MX" => rec.val.pref = 0
    PROVE  IF AlreadyThere(rec)
           THEN "already_configured" \in Foretold(provider, rec, Announced(rec))
           ELSE Unconfigured(Existing(rec)) \in Foretold(provider, rec, Announced(rec))
<1>1. provider \in Providers /\ zone \in [Keys -> Seq(Vals)]
  BY DEF IInv, ShapeOK
<1>2. Wanted(rec) = rec.val
  BY DEF Wanted
<1>3. CASE Visible(rec) = <<>>
  <2>1. Existing(rec) = NoVal
    BY <1>1, <1>3, ExistingOK
  <2> QED BY <1>3, <2>1, Zenon DEF AlreadyThere, Announced, Foretold, Unconfigured
<1>4. CASE Visible(rec) # <<>>
  <2> DEFINE e == Existing(rec)
  <2>1. /\ e = FindRecord(Visible(rec)) /\ e # NoVal
        /\ e = zone[Key(rec)][1] /\ 1 \in 1..Len(zone[Key(rec)])
    BY <1>1, <1>4, ExistingOK
  <2>2. AlreadyThere(rec) <=> SameRecord(rec.type, e, rec.val)
    BY <1>2, <2>1 DEF AlreadyThere
  <2>3. Announced(rec) = IF SameContent(rec, e) THEN "SKIP" ELSE "UPDATE"
    BY <1>4, <2>1 DEF Announced
  <2>4. Unconfigured(e) = "updated"
    BY <2>1 DEF Unconfigured
  <2> HIDE DEF e
  <2>5. CASE rec.type \notin {"CNAME", "MX"}
    BY <2>2, <2>3, <2>4, <2>5, Zenon DEF SameRecord, SameContent, Foretold, e
  <2>6. CASE rec.type = "CNAME"
    <3>1. SameContent(rec, e) => SameRecord(rec.type, e, rec.val)
      BY <2>6 DEF SameRecord, SameContent
    <3>2. Foretold(provider, rec, "UPDATE") = {"updated", "already_configured"}
      BY <2>6 DEF Foretold
    <3>3. "already_configured" \in Foretold(provider, rec, "SKIP")
      BY DEF Foretold
    <3> QED BY <2>2, <2>3, <2>4, <3>1, <3>2, <3>3, Zenon DEF e
  <2>7. CASE rec.type = "MX"
    <3>1. provider # "namecheap" => e = Mail(e.text, 0)
      BY <2>1, <2>7 DEF IInv, MailOK, NoPrefs, Members, Key
    <3>2. rec.val = Mail(rec.val.text, 0)
      BY <2>7, RecordShape
    <3>3. SameRecord(rec.type, e, rec.val) => SameContent(rec, e)
      BY <2>7 DEF SameRecord, SameContent
    <3>4. provider # "namecheap" /\ SameContent(rec, e) => SameRecord(rec.type, e, rec.val)
      <4> SUFFICES ASSUME provider # "namecheap", e.text = rec.val.text PROVE e = rec.val
        BY <2>7 DEF SameRecord, SameContent
      <4> QED BY <3>1, <3>2, Zenon
    <3>5. /\ "updated" \in Foretold(provider, rec, "UPDATE")
          /\ "already_configured" \in Foretold(provider, rec, "SKIP")
          /\ provider = "namecheap" => "updated" \in Foretold(provider, rec, "SKIP")
      BY <2>7 DEF Foretold
    <3> QED BY <2>2, <2>3, <2>4, <3>3, <3>4, <3>5, Zenon DEF e
  <2> QED BY <2>5, <2>6, <2>7
<1> QED BY <1>3, <1>4

\* A record that is there already has been dealt with.
LEMMA ConfiguredOK ==
    ASSUME IInv, pc = "get", AlreadyThere(plan[i])
    PROVE  /\ DealtWith(provider, zone, plan[i])
           /\ diffs # <<>> /\ FirstAt(i) =>
                 "already_configured" \in Foretold(provider, plan[i], diffs[i])
<1> DEFINE rec == plan[i]
           s == zone[Key(rec)]
<1>1. /\ rec \in Records /\ provider \in Providers /\ zone \in [Keys -> Seq(Vals)] /\ pc \in Writing
  BY DEF IInv, ShapeOK, PlaceOK, Writing
<1>4. Existing(rec) # NoVal /\ SameRecord(rec.type, Existing(rec), Wanted(rec))
  BY DEF AlreadyThere
<1>2. CASE rec.type = "SPFM"
  <2>1. /\ Existing(rec) = Wanted(rec) /\ rec.val.includes \subseteq Wanted(rec).includes
    BY <1>1, <1>2, <1>4, WantedOK DEF SameRecord
  <2>2. PICK n \in SPFRecords(zone["apex"]) : Wanted(rec) = zone["apex"][n]
    BY <1>1, <1>2, <1>4, <2>1, ExistingOK
  <2>3. InPlace(provider, zone, rec)
    BY <1>2, <2>1, <2>2 DEF InPlace
  <2>4. Unopposed(zone, rec)
    BY <1>2 DEF Unopposed, Moded
  <2>5. diffs = <<>>
    BY <1>1, <1>2, AnnouncedHere DEF TemplateOnly
  <2> QED BY <2>3, <2>4, <2>5 DEF DealtWith
<1>3. CASE rec.type # "SPFM"
  <2>1. SameRecord(rec.type, Existing(rec), rec.val)
    BY <1>1, <1>3, <1>4, WantedOK
  <2>2. Visible(rec) # <<>>
    BY <1>1, <1>3, <1>4, ExistingOK
  <2>3. s[1] = Existing(rec) /\ 1 \in 1..Len(s)
    BY <1>1, <1>3, <2>2, ExistingOK
  <2>4. InPlace(provider, zone, rec)
    <3>1. Serves(provider, rec, Existing(rec))
      BY <2>1 DEF Serves, SameRecord
    <3> QED BY <1>3, <2>3, <3>1 DEF InPlace, Members
  <2>5. Unopposed(zone, rec)
    <3> SUFFICES ASSUME Moded(rec), NEW v \in Members(zone["apex"]) PROVE ~Matches(rec, v)
      BY DEF Unopposed
    <3>1. Visible(rec) = zone["apex"]
      BY <1>1, <2>2, VisibleOK, RecordShape DEF Moded
    <3> QED BY <3>1 DEF IInv, ClearedOK, Members
  <2>6. ASSUME diffs # <<>>, FirstAt(i)
        PROVE  "already_configured" \in Foretold(provider, rec, diffs[i])
    <3>1. diffs[i] = Announced(rec) /\ (rec.type = "MX" => rec.val.pref = 0)
      BY <1>1, <2>6, AnnouncedHere DEF TemplateOnly
    <3> QED BY <1>1, <1>3, <3>1, AnnouncedOf
  <2> QED BY <2>4, <2>5, <2>6 DEF DealtWith
<1> QED BY <1>2, <1>3

\* The first half of the push.
LEMMA GetIInv ==
    ASSUME IInv, Get
    PROVE  IInv'
<1> DEFINE rec == plan[i]
<1>1. /\ pc = "get" /\ UNCHANGED <<request, zone, diffs>>
      /\ \/ NextRecord("failed")
         \/ rec.type = "SPFM" /\ NoInclude(rec) /\ NextRecord("already_configured")
         \/ AlreadyThere(rec) /\ NextRecord("already_configured")
         \/ /\ ~AlreadyThere(rec)
            /\ prev' = Existing(rec)
            /\ pc' = "set"
            /\ UNCHANGED <<i, todo, again, results, outcome>>
  BY Zenon DEF Get
<1>2. /\ i \in 1..Len(plan) /\ Len(plan) \in Nat /\ rec \in Records /\ pc \in Writing
      /\ provider \in Providers /\ zone \in [Keys -> Seq(Vals)] /\ todo = <<>>
      /\ Len(results) = i - 1
  BY <1>1 DEF IInv, ShapeOK, PlaceOK, Writing
<1>3. zone' \in [Keys -> Seq(Vals)] /\ \A k \in Keys \ {Key(rec)} : zone'[k] = zone[k]
  BY <1>1, <1>2
<1>4. UNCHANGED <<request, diffs>> /\ MailOK'
  BY <1>1 DEF IInv, MailOK, request
<1>5. ASSUME NextRecord("failed") PROVE IInv'
  BY <1>2, <1>3, <1>4, <1>5, NextRecordIInv DEF Statuses
<1>6. ASSUME rec.type = "SPFM", NoInclude(rec), NextRecord("already_configured") PROVE IInv'
  <2>1. InPlace(provider, zone, rec)
    BY <1>6 DEF InPlace, NoInclude
  <2>2. Unopposed(zone, rec)
    BY <1>6 DEF Unopposed, Moded
  <2>3. diffs = <<>>
    BY <1>2, <1>6, AnnouncedHere DEF TemplateOnly
  <2>4. DealtWith(provider, zone', rec)
    BY <1>1, <2>1, <2>2 DEF DealtWith
  <2> QED BY <1>2, <1>3, <1>4, <1>6, <2>3, <2>4, NextRecordIInv DEF Statuses
<1>7. ASSUME AlreadyThere(rec), NextRecord("already_configured") PROVE IInv'
  <2>1. /\ DealtWith(provider, zone, rec)
        /\ diffs # <<>> /\ FirstAt(i) =>
              "already_configured" \in Foretold(provider, rec, diffs[i])
    BY <1>1, <1>7, ConfiguredOK
  <2>2. DealtWith(provider, zone', rec)
    BY <1>1, <2>1
  <2> QED BY <1>2, <1>3, <1>4, <1>7, <2>1, <2>2, NextRecordIInv DEF Statuses
<1>8. ASSUME ~AlreadyThere(rec), prev' = Existing(rec), pc' = "set",
             UNCHANGED <<i, todo, again, results, outcome>>
      PROVE  IInv'
  <2>1. /\ provider' = provider /\ page' = page /\ req' = req /\ asked' = asked /\ plan' = plan /\ i' = i
        /\ zone' = zone /\ diffs' = diffs /\ todo' = <<>> /\ results' = results
    BY <1>1, <1>2, <1>8 DEF request
  <2>2. prev' \in Vals \cup {NoVal} /\ again' \in BOOLEAN /\ todo' \in Seq(Vals)
    <3>1. prev' \in Vals \cup {NoVal}
      BY <1>2, <1>8, ExistingOK
    <3>2. again' \in BOOLEAN
      BY <1>8 DEF IInv, ShapeOK
    <3> QED BY <2>1, <3>1, <3>2
  <2>3. TodoOK'
    BY <1>8 DEF TodoOK
  <2>4. ClearedOK'
    <3>1. Visible(rec)' = Visible(rec)
      BY <2>1 DEF Visible, Listed
    <3> QED BY <1>1, <2>1, <3>1 DEF IInv, ClearedOK
  <2>5. AnnouncedOK'
    <3> SUFFICES ASSUME diffs # <<>> PROVE AnnouncedOK'
      BY <2>1 DEF AnnouncedOK
    <3>1. ~TemplateOnly(rec) /\ (FirstAt(i) => diffs[i] = Announced(rec))
      BY <1>2, AnnouncedHere
    <3>2. Unconfigured(prev') \in Foretold(provider, rec, Announced(rec))
      BY <1>2, <1>8, <3>1, AnnouncedOf DEF TemplateOnly
    <3>3. /\ req.kind # "template" /\ Len(diffs) = Len(plan)
          /\ \A j \in 1..Len(plan) : FirstAt(j) =>
                /\ j > Len(results) => diffs[j] = Announced(plan[j])
                /\ j <= Len(results) /\ ~SetOnly(plan[j]) =>
                      results[j] = "failed" \/ results[j] \in Foretold(provider, plan[j], diffs[j])
      BY <1>1, <1>2 DEF IInv, AnnouncedOK
    <3>4. ASSUME NEW j
          PROVE  /\ Announced(plan[j])' = Announced(plan[j])
                 /\ FirstAt(j)' <=> FirstAt(j)
                 /\ SetOnly(plan[j])' <=> SetOnly(plan[j])
      BY <2>1 DEF Announced, Visible, Listed, FirstAt, SetOnly
    <3> QED BY <1>8, <2>1, <3>1, <3>2, <3>3, <3>4 DEF AnnouncedOK
  <2>6. UNCHANGED <<request, i, results, diffs, outcome>>
    BY <1>1, <1>8
  <2> QED BY <1>2, <1>3, <1>4, <1>8, <2>1, <2>2, <2>3, <2>4, <2>5, <2>6, WithinRecord
<1> QED BY <1>1, <1>5, <1>6, <1>7, <1>8

\* The second half.
LEMMA SetIInv ==
    ASSUME IInv, Set
    PROVE  IInv'
<1> DEFINE rec == plan[i]
           s == zone[Key(rec)]
           v == Stored(provider, rec.type, Wanted(rec))
<1>1. PICK o \in Faulty(SetOutcomes(rec, v), "write", s) :
        /\ zone' = [zone EXCEPT ![Key(rec)] = o.left]
        /\ NextRecord(IF ~o.ok THEN "failed" ELSE IF prev = NoVal THEN "created" ELSE "updated")
  BY Zenon DEF Set, WriteOutcomes
<1> DEFINE status == IF ~o.ok THEN "failed" ELSE IF prev = NoVal THEN "created" ELSE "updated"
<1>2. pc = "set" /\ UNCHANGED <<request, diffs>>
  BY Zenon DEF Set
<1>3. /\ i \in 1..Len(plan) /\ rec \in Records /\ pc \in Writing
      /\ provider \in Providers /\ zone \in [Keys -> Seq(Vals)]
  BY <1>2 DEF IInv, ShapeOK, PlaceOK, Writing
<1>13. /\ Wanted(rec) \in Vals /\ (rec.type = "MX" => Wanted(rec) = rec.val)
       /\ Key(rec) \in Keys /\ s \in Seq(Vals)
  BY <1>3, WantedOK, RecordShape
<1>4. v \in Vals /\ Key(rec) \in Keys /\ s \in Seq(Vals)
  BY <1>3, <1>13, StoredOK
<1>14. /\ rec.type # "MX" => v = Wanted(rec)
       /\ rec.type = "MX" => /\ Serves(provider, rec, v)
                             /\ provider # "namecheap" => v = Mail(v.text, 0)
  <2>1. Mail(Wanted(rec).text, 0).text = Wanted(rec).text
    BY DEF Mail
  <2> QED BY <1>3, <1>13, <2>1, StoredOK
<1> HIDE DEF v
<1>5. ASSUME NEW p \in SetOutcomes(rec, v)
      PROVE  /\ p.left \in Seq(Vals)
             /\ Members(p.left) \subseteq Members(s) \cup {v}
             /\ p.ok => Wrote(p.left, s, v)
             /\ p.ok /\ provider \in {"route53", "gcdns"} => Members(p.left) = {v}
  BY <1>3, <1>4, SetOutcomesOK
<1>6. /\ o.ok => o \in SetOutcomes(rec, v)
      /\ o.left = s \/ \E p \in SetOutcomes(rec, v) : o.left = p.left
  BY FaultyOK
<1>7. o.left \in Seq(Vals)
  BY <1>4, <1>5, <1>6
<1>8. /\ zone' \in [Keys -> Seq(Vals)] /\ zone'[Key(rec)] = o.left
      /\ \A k \in Keys \ {Key(rec)} : zone'[k] = zone[k]
  BY <1>1, <1>3, <1>4, <1>7
<1>15. MailOK'
  <2>1. provider' = provider
    BY <1>2 DEF request
  <2>2. CASE Key(rec) # "mail"
    BY <1>8, <2>1, <2>2 DEF IInv, MailOK, Keys
  <2>3. CASE Key(rec) = "mail"
    <3>1. Members(o.left) \subseteq Members(s) \cup {v} /\ rec.type = "MX"
      BY <1>3, <1>5, <1>6, <2>3, RecordShape
    <3> QED BY <1>8, <1>14, <2>1, <2>3, <3>1 DEF IInv, MailOK, NoPrefs
  <2> QED BY <2>2, <2>3
<1>9. ASSUME o.ok PROVE DealtWith(provider, zone', rec)
  <2>1. v \in Members(o.left) /\ Members(o.left) \subseteq Members(s) \cup {v}
    BY <1>5, <1>6, <1>9 DEF Wrote
  <2>2. InPlace(provider, zone', rec)
    <3>1. CASE rec.type = "SPFM"
      <4>1. Key(rec) = "apex"
        BY <1>3, <3>1, RecordShape
      <4>2. v.spf /\ rec.val.includes \subseteq v.includes
        BY <1>3, <1>14, <3>1, WantedOK
      <4>3. PICK n \in 1..Len(zone'["apex"]) : v = zone'["apex"][n]
        BY <1>8, <2>1, <4>1 DEF Members
      <4>4. n \in SPFRecords(zone'["apex"])
        BY <4>2, <4>3 DEF SPFRecords
      <4> QED BY <3>1, <4>2, <4>3, <4>4 DEF InPlace
    <3>2. CASE rec.type # "SPFM"
      <4>1. Serves(provider, rec, v)
        BY <1>3, <1>14, <3>2, WantedOK DEF Serves
      <4> QED BY <1>8, <2>1, <3>2, <4>1 DEF InPlace
    <3> QED BY <3>1, <3>2
  <2>3. Unopposed(zone', rec)
    <3> SUFFICES ASSUME Moded(rec), rec.fq, NEW w \in Members(zone'["apex"]), Matches(rec, w)
                 PROVE  w = rec.val
      BY DEF Unopposed
    <3>1. Key(rec) = "apex" /\ v = rec.val
      BY <1>3, <1>14, RecordShape, WantedOK DEF Moded
    <3>2. w \in Members(o.left) /\ w \in Members(s) \cup {v}
      BY <1>8, <2>1, <3>1
    <3>3. CASE Lists("apex")
      <4>1. Visible(rec) = s
        <5>1. Listed("apex") = zone["apex"]
          BY <1>3, <1>4, <3>1, <3>3, ListedOK
        <5> QED BY <3>1, <5>1 DEF Visible
      <4>2. ~(w \in Members(s))
        BY <1>2, <4>1 DEF IInv, ClearedOK, Members
      <4> QED BY <3>1, <3>2, <4>2
    <3>4. CASE ~Lists("apex")
      <4>1. Members(o.left) = {v}
        BY <1>5, <1>6, <1>9, <3>4 DEF Lists
      <4> QED BY <3>1, <3>2, <4>1
    <3> QED BY <3>3, <3>4
  <2> QED BY <2>2, <2>3 DEF DealtWith
<1>10. diffs # <<>> /\ FirstAt(i) /\ ~SetOnly(rec) =>
          status = "failed" \/ status \in Foretold(provider, rec, diffs[i])
  BY <1>2, <1>3, AnnouncedHere DEF Unconfigured
<1>11. status \in Statuses /\ (status # "failed" => o.ok)
  BY DEF Statuses
<1>12. NextRecord(status)
  BY <1>1
<1> HIDE DEF status
<1> QED BY <1>2, <1>3, <1>8, <1>9, <1>10, <1>11, <1>12, <1>15, NextRecordIInv

LEMMA NextIInv == IInv /\ [Next]_vars => IInv'
<1> SUFFICES ASSUME IInv, [Next]_vars PROVE IInv'
  OBVIOUS
<1>1. ASSUME NEW q \in Requests, NEW p \in Plans(q.kind), Submit(q, p) PROVE IInv'
  BY <1>1, SubmitIInv
<1>2. CASE Confirm
  BY <1>2, ConfirmIInv
<1>3. CASE Checks
  BY <1>3, ChecksIInv
<1>4. CASE Diff
  BY <1>4, DiffIInv
<1>5. CASE Conflicts
  BY <1>5, ConflictsIInv
<1>6. CASE Delete
  BY <1>6, DeleteIInv
<1>7. CASE Get
  BY <1>7, GetIInv
<1>8. CASE Set
  BY <1>8, SetIInv
<1>9. ASSUME UNCHANGED vars PROVE IInv'
  <2>1. /\ provider' = provider /\ page' = page /\ zone' = zone /\ req' = req
        /\ asked' = asked /\ plan' = plan /\ pc' = pc /\ i' = i /\ todo' = todo /\ again' = again /\ prev' = prev
        /\ results' = results /\ diffs' = diffs /\ outcome' = outcome
    BY <1>9 DEF vars
  <2>9. Resolved(asked)' = Resolved(asked)
    BY <2>1 DEF Resolved
  <2>2. ShapeOK' /\ PlanOK' /\ MailOK' /\ PlaceOK' /\ EndOK' /\ FreshOK'
    BY <2>1, <2>9 DEF IInv, ShapeOK, PlanOK, MailOK, PlaceOK, Rejects, EndOK, FreshOK, Members
  <2>3. TodoOK'
    BY <2>1 DEF IInv, TodoOK, Lists
  <2>4. Visible(plan[i])' = Visible(plan[i])
    BY <2>1 DEF Visible, Listed
  <2>5. ClearedOK'
    BY <2>1, <2>4 DEF IInv, ClearedOK
  <2>6. ASSUME NEW j
        PROVE  /\ Announced(plan[j])' = Announced(plan[j])
               /\ FirstAt(j)' <=> FirstAt(j)
               /\ SetOnly(plan[j])' <=> SetOnly(plan[j])
               /\ LastAt(j)' <=> LastAt(j)
    BY <2>1 DEF Announced, Visible, Listed, FirstAt, SetOnly, LastAt
  <2>7. DealtWithOK'
    BY <2>1, <2>6 DEF IInv, DealtWithOK, Members
  <2>8. AnnouncedOK'
    BY <2>1, <2>6 DEF IInv, AnnouncedOK
  <2> QED BY <2>2, <2>3, <2>5, <2>7, <2>8 DEF IInv
<1> QED
  BY <1>1, <1>2, <1>3, <1>4, <1>5, <1>6, <1>7, <1>8, <1>9 DEF Next, Finished

LEMMA Invariance == Spec => []IInv
<1>1. Init => IInv
  BY InitIInv
<1>2. IInv /\ [Next]_vars => IInv'
  BY NextIInv
<1> QED BY <1>1, <1>2, PTL DEF Spec

-----------------------------------------------------------------------------
(* What a request does.                                                     *)

\* The state is well formed, and a write run leaves as many results as the request
\* has records that resolve, whatever fails on the way: ApplyTemplateWithReport and
\* the loops of the handlers go on after an error and report it at the end, exactly
\* if a record has failed.  Records of unknown types in a template have none.
THEOREM ResultForEveryRecord == Spec => []ResultsSafe
<1>1. IInv => ResultsSafe
  <2> SUFFICES ASSUME IInv PROVE ResultsSafe
    OBVIOUS
  <2>1. /\ \A k \in Keys : zone[k] \in Seq(Vals)
        /\ asked \in Seq(Records) /\ plan \in Seq(Records) /\ todo \in Seq(Vals)
        /\ results \in Seq(Statuses) /\ diffs \in Seq(Actions)
    BY DEF IInv, ShapeOK
  <2>2. /\ \A k \in Keys : Members(zone[k]) \subseteq Vals
        /\ Members(asked) \subseteq Records /\ Members(plan) \subseteq Records
        /\ Members(todo) \subseteq Vals
        /\ Members(results) \subseteq Statuses /\ Members(diffs) \subseteq Actions
    BY <2>1, MembersOf
  <2>3. TypeOK
    BY <2>2 DEF IInv, ShapeOK, PlaceOK, Writing, TypeOK
  <2>4. ResultPerRecord
    BY <2>1, CountedOK DEF IInv, EndOK, ResultPerRecord
  <2> QED BY <2>3, <2>4 DEF ResultsSafe
<1> QED BY <1>1, Invariance, PTL

\* A request that ends without error has left in the zone the last record it has
\* for each name, or its includes, in the sense of Serves, and no other record that this record's
\* conflict mode matches: applyConflicts and the push before it work for all
\* five providers, for a zone that GetRecords shows a part of, and whatever
\* calls are performed and reported as failed.
THEOREM WhatIsAppliedIsThere == Spec => []AppliedExact
<1>1. IInv => AppliedExact
  <2> SUFFICES ASSUME IInv, Applied PROVE AppliedExact
    BY DEF AppliedExact, Installed, ConflictsCleared
  <2>1. Len(results) = Len(plan) /\ "failed" \notin Members(results) /\ ~req.dry
    BY DEF IInv, EndOK, Applied
  <2>2. plan \in Seq(Records) /\ Len(plan) \in Nat
    BY DEF IInv, ShapeOK
  <2>3. ASSUME NEW j \in 1..Len(plan), LastAt(j)
        PROVE  InPlace(provider, zone, plan[j]) /\ Unopposed(zone, plan[j])
    BY <2>1, <2>2, <2>3 DEF IInv, DealtWithOK, DealtWith
  <2>4. Installed
    BY <2>3 DEF Installed, InPlace
  <2>5. ConflictsCleared
    BY <2>3 DEF ConflictsCleared, Unopposed, Moded
  <2> QED BY <2>4, <2>5 DEF AppliedExact
<1> QED BY <1>1, Invariance, PTL

\* `entree apply --dry-run` and the API's dry_run announce for the first record
\* of a name what the real run after it then does, but for the spelling of CNAME
\* targets, and for the priority of MX records at Namecheap.
THEOREM DryRunsTellTheTruth == Spec => []DryRunPredicts
<1>1. IInv => DryRunPredicts
  <2> SUFFICES ASSUME IInv, Applied, diffs # <<>>,
                      NEW j \in 1..Len(plan), FirstAt(j), ~SetOnly(plan[j])
               PROVE  results[j] \in Foretold(provider, plan[j], diffs[j])
    BY DEF DryRunPredicts, FirstAt
  <2>1. Len(results) = Len(plan) /\ "failed" \notin Members(results) /\ pc = "done"
    BY DEF IInv, EndOK, Applied
  <2>2. plan \in Seq(Records) /\ Len(plan) \in Nat
    BY DEF IInv, ShapeOK
  <2>3. results[j] # "failed"
    BY <2>1, <2>2 DEF Members
  <2>4. Len(diffs) = Len(plan)
    BY <2>1 DEF IInv, AnnouncedOK
  <2> QED BY <2>1, <2>2, <2>3, <2>4 DEF IInv, AnnouncedOK
<1> QED BY <1>1, Invariance, PTL

\* Neither a dry run nor a request with a record that does not resolve or parse
\* ever changes the zone: all records are looked at before the first write.
THEOREM NothingIsHalfValid == Spec => AllOrNothing
<1> DEFINE Barred == req.dry \/ \E rec \in Members(asked) : Rejects(rec)
<1>1. IInv /\ [Next]_vars => [Barred => UNCHANGED zone]_vars
  <2> SUFFICES ASSUME IInv, [Next]_vars, Barred PROVE UNCHANGED zone
    OBVIOUS
  <2>1. pc \notin Writing
    BY DEF IInv, PlaceOK, Members
  <2>2. pc # "delete" /\ pc # "set"
    BY <2>1 DEF Writing
  <2>3. ASSUME NEW q \in Requests, NEW p \in Plans(q.kind), Submit(q, p) PROVE zone' = zone
    BY <2>3, Zenon DEF Submit, Start
  <2>4. Confirm => zone' = zone
    BY Zenon DEF Confirm, Start
  <2>5. Checks \/ Diff \/ Conflicts \/ Get => zone' = zone
    BY Zenon DEF Checks, Diff, Conflicts, Get
  <2>6. Delete \/ Set => FALSE
    BY <2>2 DEF Delete, Set
  <2>7. UNCHANGED vars => zone' = zone
    BY DEF vars
  <2> QED BY <2>3, <2>4, <2>5, <2>6, <2>7 DEF Next, Finished
<1> QED BY <1>1, Invariance, PTL DEF Spec, AllOrNothing

\* Removing a value takes no other value away.
LEMMA WithoutMembers ==
    ASSUME NEW s \in Seq(Vals), NEW v \in Members(s)
    PROVE  Members(s) \ Members(Without(s, v)) \subseteq {v}
<1>1. PICK k \in 1..Len(s) : IsWithout(Without(s, v), s, v, k)
  BY WithoutShape
<1> SUFFICES ASSUME NEW x \in Members(s), x # v PROVE x \in Members(Without(s, v))
  OBVIOUS
<1>2. PICK n \in 1..Len(s) : x = s[n]
  BY DEF Members
<1>3. /\ n # k /\ s[k] = v /\ Len(s) \in Nat /\ Len(Without(s, v)) = Len(s) - 1
      /\ \A m \in 1..(Len(s) - 1) : Without(s, v)[m] = IF m < k THEN s[m] ELSE s[m+1]
  BY <1>1, <1>2 DEF IsWithout
<1>4. CASE n < k
  <2>1. n \in 1..(Len(s) - 1) /\ Without(s, v)[n] = s[n]
    BY <1>3, <1>4
  <2> QED BY <1>2, <1>3, <2>1 DEF Members
<1>5. CASE n > k
  <2>1. n - 1 \in 1..(Len(s) - 1) /\ ~(n - 1 < k) /\ (n - 1) + 1 = n
    BY <1>3, <1>5
  <2>2. Without(s, v)[n - 1] = s[n]
    BY <1>3, <2>1
  <2> QED BY <1>2, <1>3, <2>1, <2>2 DEF Members
<1> QED BY <1>3, <1>4, <1>5

\* The conflict left of a listing of one record is this record.
LEMMA RestOfOne ==
    ASSUME NEW rec, NEW s \in Seq(Vals), NEW t \in Seq(Vals), t # <<>>,
           IsRest(rec, s, t), Len(s) = 1
    PROVE  Members(s) = {t[1]}
<1>1. Len(t) \in Nat /\ Len(t) # 0 /\ Len(t) <= 1
  BY DEF IsRest
<1>2. Len(t) = 1
  BY <1>1
<1>3. t[1] = s[1]
  BY <1>2 DEF IsRest
<1> QED BY <1>3 DEF Members

\* applyConflicts deletes no record that the conflict mode does not match, with
\* Cloudflare, Namecheap and Route 53.  The record it names is one that was
\* listed, and what the provider then removes is that record: by its ID, or
\* because Route 53 refuses to delete one value of several.
THEOREM ConflictsKeepToTheirMode == Spec => ConflictScopeByID
<1> DEFINE Guard == pc = "delete" /\ provider \notin {"gcdns", "godaddy"}
           Scope == \A v \in Members(zone["apex"]) \ Members(zone'["apex"]) : Matches(plan[i], v)
<1>1. IInv /\ [Next]_vars => [Guard => Scope]_vars
  <2> SUFFICES ASSUME IInv, [Next]_vars, Guard, zone' # zone PROVE Scope
    OBVIOUS
  <2>1. Delete
    <3>1. ASSUME NEW q \in Requests, NEW p \in Plans(q.kind), Submit(q, p) PROVE FALSE
      BY <3>1, Zenon DEF Submit, Start
    <3>2. ~(Confirm \/ Checks \/ Diff \/ Conflicts \/ Get \/ Set)
      BY DEF Confirm, Checks, Diff, Conflicts, Get, Set
    <3>3. ~(UNCHANGED vars)
      BY DEF vars
    <3> QED BY <3>1, <3>2, <3>3 DEF Next, Finished
  <2> DEFINE s == zone["apex"]
             outs == DeleteOutcomes(provider, s, todo[1], again)
  <2>2. PICK o \in Faulty(outs, "delete", s) : zone' = [zone EXCEPT !["apex"] = o.left]
    BY <2>1, Zenon DEF Delete
  <2>3. /\ provider \in Providers /\ zone \in [Keys -> Seq(Vals)]
        /\ todo \in Seq(Vals) /\ todo # <<>> /\ again \in BOOLEAN
    BY DEF IInv, ShapeOK, PlaceOK
  <2>4. s \in Seq(Vals) /\ zone'["apex"] = o.left /\ todo[1] \in Vals
    BY <2>2, <2>3, TailShape DEF Keys
  <2>5. IsRest(plan[i], s, todo) /\ Matches(plan[i], todo[1])
    BY DEF IInv, TodoOK
  <2>6. o.left = s \/ \E p \in outs : o.left = p.left
    BY <2>2, FaultyOK
  <2>7. ASSUME NEW p \in outs
        PROVE  \/ p.left = s
               \/ todo[1] \in Members(s) /\ p.left = Without(s, todo[1])
               \/ Len(s) = 1 /\ p.left = <<>>
    BY <2>3, <2>4, DeleteOutcomesOK, FiveProviders
  <2> HIDE DEF outs
  <2>8. \/ o.left = s
        \/ todo[1] \in Members(s) /\ o.left = Without(s, todo[1])
        \/ Len(s) = 1 /\ o.left = <<>>
    BY <2>6, <2>7
  <2>9. CASE o.left = s
    BY <2>4, <2>9
  <2>10. CASE todo[1] \in Members(s) /\ o.left = Without(s, todo[1])
    BY <2>4, <2>5, <2>10, WithoutMembers
  <2>11. CASE Len(s) = 1 /\ o.left = <<>>
    <3>1. Members(s) = {todo[1]}
      BY <2>3, <2>4, <2>5, <2>11, RestOfOne
    <3> QED BY <2>5, <3>1
  <2> QED BY <2>8, <2>9, <2>10, <2>11
<1> QED BY <1>1, Invariance, PTL DEF Spec, ConflictScopeByID
=============================================================================
