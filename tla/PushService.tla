----------------------------- MODULE PushService -----------------------------
(***************************************************************************)
(* PushService (push.go): read the records, return early if the wanted one *)
(* is there, otherwise call the provider's SetRecord.  SetRecord itself is *)
(* one or more calls to the provider's API, and what it does to the other  *)
(* records of the same name differs between the providers of providers/.   *)
(* Pushes by several goroutines or processes interleave at every call.     *)
(*                                                                         *)
(* The zone has the TXT records at the apex and one other name and type    *)
(* ("sub"), CNAME or MX, which PushCNAMERecord or PushGenericRecord works  *)
(* on; the latter's other types are compared by content, as TXT is.        *)
(* Whether a name is on the page that Route 53 and Cloud DNS list may      *)
(* change from call to call.                                               *)
(***************************************************************************)
EXTENDS ProviderZone

CONSTANTS
    Reqs,       \* pushes in flight
    Asks,       \* Asks[r]: what push r may be asked for
    Faults      \* what may go wrong: a subset of FaultKinds

\* A call to set a record at a key, or to merge includes into the SPF record.
Keys == {"apex", "sub"}
SubTypes == {"MX", "CNAME"}
SetOps == [kind : {"set"}, key : {"apex"}, arg : TextVals]
          \cup [kind : {"set"}, key : {"sub"}, arg : MailVals \cup AliasVals]
SPFOps == [kind : {"spf"}, key : {"apex"}, incs : SUBSET Includes]
Ops == SetOps \cup SPFOps
NoOp == [kind |-> "none"]

\* get, read: the API refuses PushService's or SetRecord's own read.
\* write: it refuses the write.  lost: it performs the write, and the caller
\* sees an error.
FaultKinds == {"get", "read", "write", "lost"}

ASSUME PushAssumption ==
    /\ Asks \in [Reqs -> SUBSET Ops]
    /\ Faults \subseteq FaultKinds

VARIABLES
    provider,  \* the provider behind the PushService
    type,      \* the type of the records at "sub"
    zone,      \* zone[k]: the records at name and type k, in API order
    pc,        \* pc[r]: the next call of push r
    op,        \* op[r]: what push r was asked for
    listed,    \* listed[r]: what GetRecords returned for its name
    snap,      \* snap[r]: what SetRecord read of the zone, or NoVal
    status,    \* PushResult.Status, if the last step was a push returning
    settled,   \* settled[k]: the push that wrote k last, if it is known (history)
    acked      \* includes reported as present at the apex            (history)

reqVars == <<pc, op, listed, snap>>
vars == <<provider, type, zone, pc, op, listed, snap, status, settled, acked>>

Statuses == {"none", "created", "updated", "already_configured", "failed"}
TypeOf(k) == IF k = "apex" THEN "TXT" ELSE type

TypeOK ==
    /\ provider \in Providers
    /\ type \in SubTypes
    /\ \A k \in Keys : \A i \in 1..Len(zone[k]) : zone[k][i] \in Vals
    /\ \A r \in Reqs :
        /\ pc[r] \in {"idle", "get", "read", "write"}
        /\ op[r] \in Ops \cup {NoOp}
        /\ \A i \in 1..Len(listed[r]) : listed[r][i] \in Vals
    /\ status \in Statuses
    /\ settled \in [Keys -> Ops \cup {NoOp}]
    /\ acked \subseteq Includes

\* Records at "sub" as GetRecords may show them.
SubVals(t) == {Stored(provider, t, v) : v \in ValsOf(t) \ SPFVals} \cup
              (IF provider = "namecheap" THEN ValsOf(t) \ SPFVals ELSE {})

Init ==
    /\ provider \in Providers
    /\ type \in SubTypes
    /\ \E a \in StartSeqs(ValsOf("TXT"), 2), b \in StartSeqs(SubVals(type), 1) :
          zone = [k \in Keys |-> IF k = "apex" THEN a ELSE b]
    /\ pc = [r \in Reqs |-> "idle"]
    /\ op = [r \in Reqs |-> NoOp]
    /\ listed = [r \in Reqs |-> <<>>]
    /\ snap = [r \in Reqs |-> NoVal]
    /\ status = "none"
    /\ settled = [k \in Keys |-> NoOp]
    /\ acked = {}

-----------------------------------------------------------------------------
(* PushService.                                                             *)

Begin(r, o) ==
    /\ pc[r] = "idle"
    /\ o.kind = "set" => o.arg \in ValsOf(TypeOf(o.key))
    /\ pc' = [pc EXCEPT ![r] = "get"]
    /\ op' = [op EXCEPT ![r] = o]
    /\ status' = "none"
    /\ UNCHANGED <<provider, type, zone, listed, snap, settled, acked>>

\* The record that a push of o takes for the present one among the records s of
\* the name; its content is PushResult.PreviousValue.
Existing(o, s) == IF o.kind = "spf" THEN CurrentSPF(s) ELSE FindRecord(s)

\* PushSPFRecord merges the includes into the record there is.
Wanted(o, s) == IF o.kind = "spf" THEN MergedSPF(s, o.incs) ELSE o.arg

AlreadyConfigured(o, s) ==
    /\ Existing(o, s) # NoVal
    /\ SameRecord(TypeOf(o.key), Existing(o, s), Wanted(o, s))

\* What a push has decided to write.
Decision(r) == Stored(provider, TypeOf(op[r].key), Wanted(op[r], listed[r]))

\* The push returns to its caller; its local variables are gone.
Return(r, s) ==
    /\ pc' = [pc EXCEPT ![r] = "idle"]
    /\ op' = [op EXCEPT ![r] = NoOp]
    /\ listed' = [listed EXCEPT ![r] = <<>>]
    /\ snap' = [snap EXCEPT ![r] = NoVal]
    /\ status' = s

\* The includes that the caller of r may now count on.
Ack(r) == IF op[r].kind = "spf" THEN acked \cup op[r].incs ELSE acked

\* Mutant of GetRecords: the early return is missing.
GetRecordsAlwaysSets(r) ==
    /\ pc[r] = "get"
    /\ pc' = [pc EXCEPT ![r] = "read"]
    /\ listed' = [listed EXCEPT ![r] = zone[op[r].key]]
    /\ status' = "none"
    /\ UNCHANGED <<provider, type, zone, op, snap, settled, acked>>

\* GetRecords lists s at the name, which may be off the page, and the push takes
\* its decision on that.
GetRecords(r) ==
    /\ pc[r] = "get"
    /\ \/ \E s \in {GetRecordsOf(provider, zone[op[r].key], onPage) : onPage \in BOOLEAN} :
             \/ /\ AlreadyConfigured(op[r], s)
                /\ Return(r, "already_configured")
                /\ acked' = Ack(r)
             \/ /\ ~AlreadyConfigured(op[r], s)
                /\ pc' = [pc EXCEPT ![r] = "read"]
                /\ listed' = [listed EXCEPT ![r] = s]
                /\ status' = "none"
                /\ UNCHANGED <<op, snap, acked>>
       \/ /\ "get" \in Faults
          /\ Return(r, "failed")
          /\ UNCHANGED acked
    /\ UNCHANGED <<provider, type, zone, settled>>

-----------------------------------------------------------------------------
(* SetRecord of the providers.                                              *)

\* What SetRecord reads first: Cloudflare and GoDaddy list the name, Cloud DNS
\* reads the rrset, Namecheap the host list of the whole zone, and Route 53 only
\* looks the zone up.
ReadKeys(r) ==
    CASE provider = "route53" -> {}
      [] provider = "namecheap" -> Keys
      [] OTHER -> {op[r].key}

\* SetRecord's own read.  GoDaddy takes any failure for an empty name: what it
\* goes on to PUT replaces whatever is there.
ReadForWrite(r) ==
    /\ pc[r] = "read"
    /\ \/ /\ snap' = [snap EXCEPT ![r] = [k \in ReadKeys(r) |-> zone[k]]]
          /\ pc' = [pc EXCEPT ![r] = "write"]
          /\ status' = "none"
          /\ UNCHANGED <<op, listed>>
       \/ /\ "read" \in Faults /\ provider = "godaddy"
          /\ snap' = [snap EXCEPT ![r] = [k \in ReadKeys(r) |-> <<>>]]
          /\ pc' = [pc EXCEPT ![r] = "write"]
          /\ status' = "none"
          /\ UNCHANGED <<op, listed>>
       \/ /\ "read" \in Faults /\ provider # "godaddy"
          /\ Return(r, "failed")
    /\ UNCHANGED <<provider, type, zone, settled, acked>>

\* Namecheap setHosts: the zone becomes the merged host list.
NamecheapSet(r, k) == [snap[r] EXCEPT ![k] = ReplaceFirst(@, Decision(r))]

Written(r) ==
    LET k == op[r].key IN
    CASE provider = "cloudflare" -> [zone EXCEPT ![k] = CloudflareSet(@, snap[r][k], Decision(r))]
      [] provider \in {"route53", "gcdns"} -> [zone EXCEPT ![k] = RRSetSet(Decision(r))]
      [] provider = "godaddy" -> [zone EXCEPT ![k] = MergeGoDaddyRecords(snap[r][k], Decision(r))]
      [] provider = "namecheap" -> NamecheapSet(r, k)

\* SetRecord's own read still is what the zone has.
ReadHolds(r) == \A k \in ReadKeys(r) : snap[r][k] = zone[k]

\* The zone still has what the push has seen of it, or has what it writes.  Who
\* appends need not have seen everything that PushSPFRecord merged.
Justified(r) ==
    \/ Written(r) = zone
    \/ /\ ReadHolds(r)
       /\ op[r].kind = "spf" /\ provider # "godaddy" => listed[r] = zone["apex"]

\* Cloud DNS refuses a Change whose deletion is not the rrset as it is.
Conflict(r) == provider = "gcdns" /\ ~ReadHolds(r)

\* The keys whose records a write replaces.
Replaced(r) == IF provider = "namecheap" THEN Keys ELSE {op[r].key}

\* The write reaches the zone.
Effect(r) ==
    /\ ~Conflict(r)
    /\ zone' = Written(r)
    /\ settled' = [k \in Keys |->
                     CASE k \notin Replaced(r) -> settled[k]
                       [] k \in Replaced(r) /\ ~Justified(r) -> NoOp
                       [] k # op[r].key /\ Justified(r) -> settled[k]
                       [] OTHER -> op[r]]

\* Nothing is promised after a text was pushed to the apex, which may replace the
\* SPF record, or a write that rests on a read which no longer holds.
AckWrite(r) ==
    IF "apex" \in Replaced(r) /\ (~Justified(r) \/ (op[r].kind = "set" /\ op[r].key = "apex"))
    THEN {} ELSE Ack(r)

\* Mutant of SetRecord: the old records are deleted first, the new one added
\* by a second call, which may fail.
SetRecordInTwoSteps(r) ==
    /\ pc[r] = "write"
    /\ ~Conflict(r)
    /\ zone' = [zone EXCEPT ![op[r].key] = <<>>]
    /\ Return(r, "failed")
    /\ UNCHANGED <<provider, type, settled, acked>>

\* SetRecord's write, and the rest of the push.
SetRecord(r) ==
    /\ pc[r] = "write"
    /\ \/ /\ Effect(r)
          /\ Return(r, IF Existing(op[r], listed[r]) = NoVal THEN "created" ELSE "updated")
          /\ acked' = AckWrite(r)
       \/ /\ "lost" \in Faults
          /\ Effect(r)
          /\ Return(r, "failed")
          /\ acked' = AckWrite(r) \cap acked
       \/ /\ "write" \in Faults \/ Conflict(r)
          /\ Return(r, "failed")
          /\ UNCHANGED <<zone, settled, acked>>
    /\ UNCHANGED <<provider, type>>

\* GoDaddy's `do` sends the same PUT again when the answer to it was an error
\* or a 5xx, even if the server had performed it.
Resend(r) ==
    /\ pc[r] = "write"
    /\ provider = "godaddy" /\ "lost" \in Faults
    /\ Effect(r)
    /\ acked' = AckWrite(r) \cap acked
    /\ status' = "none"
    /\ UNCHANGED <<provider, type, reqVars>>

-----------------------------------------------------------------------------
Push(r) == GetRecords(r) \/ ReadForWrite(r) \/ SetRecord(r) \/ Resend(r)

Next == \E r \in Reqs : (\E o \in Asks[r] : Begin(r, o)) \/ Push(r)

Spec == Init /\ [][Next]_vars

-----------------------------------------------------------------------------
(* Properties.                                                              *)

\* The priority of an MX record comes back as it was asked for: from Namecheap,
\* if one was given, from the others, if none was.
ComesBack(o) == o.kind = "set" => Stored(provider, TypeOf(o.key), o.arg) = o.arg

\* A push of what was written last to its name, by this caller or another, does
\* not write again, also when the first attempt reported an error after the write
\* took effect and however pushes overlap (README.md:46: "re-running the same
\* push returns already_configured"); unless the name was off the page GetRecords
\* listed, or the priority does not come back.  GoDaddy is left out: it appends a
\* changed value, and findRecord looks at the first.
Idempotent ==
    [][\A r \in Reqs :
          LET k == op[r].key IN
          /\ pc[r] = "get" /\ pc'[r] = "read"
          /\ op[r] = settled[k] /\ ComesBack(op[r])
          /\ provider # "godaddy"
          => listed'[r] # zone[k]]_vars

\* Push r's own write, GoDaddy's resent ones included.
Writes(r) == pc[r] = "write" /\ (pc'[r] = "idle" \/ (provider = "godaddy" /\ zone' = Written(r)))

\* A write removes no other record at its name than the one the push reports as
\* its PreviousValue (adding-a-provider.md, "Sibling preservation"), as long as
\* both reads still hold.  A SPF push to Cloudflare or Namecheap may also remove
\* the record listed first, which is the one they overwrite.  GoDaddy removes
\* nothing, and Cloud DNS, which replaces the rrset, nothing that SetRecord has
\* not read.  Route 53 replaces the rrset unread.
SiblingsKept ==
    [][\A r \in Reqs :
          LET k    == op[r].key
              gone == Members(zone[k]) \ Members(zone'[k])
              held == listed[r] = zone[k] /\ ReadHolds(r)
              first == IF op[r].kind = "spf" THEN {FindRecord(zone[k])} ELSE {}
          IN  Writes(r) =>
                CASE provider = "gcdns" -> gone \subseteq Members(snap[r][k])
                  [] provider = "godaddy" -> ReadHolds(r) => gone = {}
                  [] provider \in {"cloudflare", "namecheap"} ->
                        held => gone \subseteq {Existing(op[r], listed[r])} \cup first
                  [] OTHER -> TRUE]_vars

\* A name that has a record never loses its last one, whichever read, write or
\* answer fails and however pushes interleave (gcdns.go: "never left with a
\* missing record on failure").  Namecheap writes the zone as it read it, so it
\* promises this as long as that read holds.
NeverEmptied ==
    [][\A k \in Keys : zone[k] # <<>> =>
          \/ zone'[k] # <<>>
          \/ provider = "namecheap" /\ \E r \in Reqs : pc[r] = "write" /\ ~ReadHolds(r)]_vars

\* Includes that PushSPFRecord reported as present stay in an SPF record, over all
\* pushes that interleave, until a text is pushed to their name or a write rests on
\* a read that does not hold: by then another push had written, the name was off
\* the page that was listed, or GoDaddy's SetRecord had failed to read it.
IncludesKept ==
    acked \subseteq UNION {zone["apex"][i].includes : i \in SPFRecords(zone["apex"])}

\* The state invariants of pushes: well-formed zones and results, and SPF
\* includes that do not get lost.
PushSafe == TypeOK /\ IncludesKept
=============================================================================
