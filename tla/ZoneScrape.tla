----------------------------- MODULE ZoneScrape -----------------------------
(***************************************************************************)
(* ScrapeZone (migrate/scrape.go): the records of a zone, by a transfer    *)
(* from the first nameserver that grants one, otherwise by querying well-  *)
(* known labels and the CNAME targets found on the way; and what `entree   *)
(* zone export` and `zone import` make of the result in a file.            *)
(*                                                                         *)
(* A name holds nothing, records of one type and content, or a CNAME to a  *)
(* name of the zone or to Outside.  SRV stands for the types whose content *)
(* is a target (MX too), TXT for the others that are queried and kept (A,  *)
(* AAAA, CAA, TLSA, SSHFP), NS below the Apex is a delegation, and DS is   *)
(* not kept.  Several SRV records differ in what Ports stands for, the     *)
(* weight and the port.  Nameservers agree on the zone; they may not       *)
(* answer, answer with an error or with a part, and refuse a transfer or   *)
(* cut it short.                                                           *)
(***************************************************************************)
EXTENDS Naturals, Sequences, FiniteSets

CONSTANTS
    Names,      \* the names of the zone
    Labels,     \* the labels to query, a sequence of names
    Zones,      \* the zones to choose from: functions from Names to Contents
    Apex,       \* the name of the zone itself
    Odd,        \* names whose zone part is spelled in another case
    Long,       \* names with more than a reply of 512 bytes holds
    Servers,    \* number of nameservers in the delegation
    MaxDepth,   \* CNAME hops followed: 4 in the code
    MaxFaults,  \* bound on the failures of nameservers
    Outside     \* a name that is not in the zone

QueryTypes == <<"CNAME", "TXT", "NS", "SRV">>
Types == {"none", "CNAME", "TXT", "NS", "SRV", "DS"}
\* Text as rrToRecord has it, which may hold backslashes that quote a character,
\* and the target of a service that is not offered, ".", which it cuts to "".
Texts == {"data", "escaped", ""}
Ports == 1..2
Targets == Names \cup {Outside}
Alias(n) == [type |-> "CNAME", data |-> n, ports |-> {1}, ttl |-> 300]
Contents ==
    {Alias(n) : n \in Targets} \cup
    [type : Types \ {"CNAME"}, data : Texts, ports : (SUBSET Ports) \ {{}}, ttl : {0, 300}]

ASSUME ScrapeAssumption ==
    /\ IsFiniteSet(Names)
    /\ Labels \in Seq(Names)
    /\ Zones \subseteq [Names -> Contents]
    /\ Odd \subseteq Names /\ Long \subseteq Names
    /\ Servers \in Nat \ {0} /\ MaxDepth \in Nat /\ MaxFaults \in Nat
    /\ Outside \notin Names

VARIABLES
    zone,     \* the zone as the nameservers have it
    chase,    \* they add the records a CNAME leads to to an answer
    pc,
    usable,   \* nameservers whose address was found
    ns,       \* the one being asked
    faults,
    queue,    \* names to query, with the number of CNAMEs that led there
    seen,     \* names that have been in the queue
    qtype,    \* index of the type being asked
    records,  \* Zone.Records
    warnings, \* Zone.Warnings: <<"query", name, type>>, or <<"skipped", name>>
    source,   \* Zone.Source
    file      \* records as read back from the exported file

walk == <<queue, seen, qtype>>
found == <<records, warnings, source>>
vars == <<zone, chase, pc, usable, ns, faults, queue, seen, qtype, records, warnings, source, file>>

RRs(n) == {[name |-> n, type |-> zone[n].type, data |-> zone[n].data,
            port |-> p, ttl |-> zone[n].ttl] : p \in zone[n].ports}
ZoneRRs == UNION {RRs(n) : n \in Names}
Members(s) == {s[k] : k \in 1..Len(s)}
\* The record of another zone that a server adds to a chain or to a transfer.
Foreign == [name |-> Outside, type |-> "TXT", data |-> "data", port |-> 1, ttl |-> 300]
RecordOf == [name : Names \cup {"mangled"}, type : Types \ {"none", "DS"},
             data : Targets \cup Texts \cup {"escaped twice"}, port : Ports, ttl : {0, 300}]

TypeOK ==
    /\ zone \in Zones
    /\ chase \in BOOLEAN
    /\ pc \in {"lookup", "axfr", "query", "scraped", "failed", "imported", "unreadable"}
    /\ usable \in 0..Servers
    /\ ns \in 1..(Servers + 1)
    /\ faults \in 0..MaxFaults
    /\ \A k \in 1..Len(queue) : queue[k] \in [name : Names, depth : 0..MaxDepth]
    /\ {queue[k].name : k \in 1..Len(queue)} \subseteq seen /\ seen \subseteq Names
    /\ qtype \in 1..Len(QueryTypes)
    /\ pc = "query" => queue # <<>> /\ ns <= usable
    /\ Members(records) \subseteq RecordOf
    /\ source \in {"none", "axfr", "iterated"}
    /\ Members(file) \subseteq RecordOf

Init ==
    /\ zone \in Zones
    /\ chase \in BOOLEAN
    /\ pc = "lookup"
    /\ usable = 0
    /\ ns = 1
    /\ faults = 0
    /\ queue = <<>>
    /\ seen = {}
    /\ qtype = 1
    /\ records = <<>>
    /\ warnings = {}
    /\ source = "none"
    /\ file = <<>>

-----------------------------------------------------------------------------
(* Finding the nameservers, and the transfer.                               *)

\* Nameservers without an address are passed over; without any the call fails.
LookupNS ==
    /\ pc = "lookup"
    /\ \E n \in 0..Servers :
          /\ usable' = n
          /\ pc' = IF n = 0 THEN "failed" ELSE "axfr"
    /\ UNCHANGED <<zone, chase, ns, faults, walk, found, file>>

\* rrToRecord: nothing there, or a type that the target manages itself.
Kept(rec) == rec.type \notin {"none", "DS"}
Skipped(recs) == {<<"skipped", rec.name>> : rec \in {r \in recs : r.type = "DS"}}

inZone(rec) == rec.name \in Names

\* The order in which the server sends the records.
Listing(S) == CHOOSE s \in [1..Cardinality(S) -> S] : Members(s) = S

\* A complete transfer is the zone, without what is not kept; records of other
\* zones are dropped with a warning.
Transfer ==
    /\ pc = "axfr" /\ ns <= usable
    /\ \E sent \in {ZoneRRs, ZoneRRs \cup {Foreign}} :
          /\ records' = Listing({rec \in sent : inZone(rec) /\ Kept(rec)})
          /\ warnings' = Skipped({rec \in sent : inZone(rec)}) \cup
                {<<"dropped", rec.name>> : rec \in {r \in sent : ~inZone(r)}}
    /\ source' = "axfr"
    /\ pc' = "scraped"
    /\ UNCHANGED <<zone, chase, usable, ns, faults, walk, file>>

\* A refused transfer, an empty one, or one without its closing SOA, is not
\* used: the next nameserver is asked.
TransferFails ==
    /\ pc = "axfr" /\ ns <= usable
    /\ ns' = ns + 1
    /\ UNCHANGED <<zone, chase, pc, usable, faults, walk, found, file>>

\* What a loop with a `seen` map of keys leaves of s.
Firsts(s, keys) ==
    LET out[k \in 0..Len(s)] ==
            IF k = 0 THEN <<>>
            ELSE IF \E j \in 1..(k-1) : keys[j] = keys[k] THEN out[k-1] ELSE Append(out[k-1], s[k])
    IN  out[Len(s)]

\* The queue at the start of the walk: every label once.
StartQueue ==
    LET names == Firsts(Labels, Labels)
    IN  [k \in 1..Len(names) |-> [name |-> names[k], depth |-> 0]]

\* dedupRecords: the key holds neither the weight nor the port (nor the TTL).
DedupKey(rec) == <<rec.type, rec.name, rec.data>>
Dedup(s) == Firsts(s, [k \in 1..Len(s) |-> DedupKey(s[k])])

\* After the last one, or at once with SkipAXFR, the walk begins.
BeginWalk ==
    /\ pc = "axfr" /\ ns \in {1, usable + 1}
    /\ ns' = 1
    /\ queue' = StartQueue
    /\ seen' = Members(Labels)
    /\ source' = "iterated"
    /\ pc' = IF queue' = <<>> THEN "scraped" ELSE "query"
    /\ UNCHANGED <<zone, chase, usable, faults, qtype, records, warnings, file>>

-----------------------------------------------------------------------------
(* The walk.                                                                *)

\* The answer to a query: the CNAME if there is one, and what it leads to if
\* the server adds it, otherwise the records if they have the type.
Answer(name, type) ==
    LET chain[k \in 0..Cardinality(Names)] ==
            [n \in Targets |->
                IF n = Outside THEN <<Foreign>>
                ELSE IF zone[n].type = "CNAME"
                THEN Listing(RRs(n)) \o
                     (IF chase /\ type # "CNAME" /\ k > 0 THEN chain[k-1][zone[n].data] ELSE <<>>)
                ELSE IF zone[n].type = type THEN Listing(RRs(n)) ELSE <<>>]
    IN  chain[Cardinality(Names)][name]

\* queryAuthoritative asks by UDP, without EDNS0, and overlooks the mark of a
\* truncated reply: what does not fit is missing.  So is a delegation that the
\* server puts into the authority section, as a referral.
MayBeMissing(rec) ==
    rec.type # "CNAME" /\ (rec.name \in Long \/ (rec.type = "NS" /\ rec.name # Apex))

\* The first k records of an answer may be all that a reply holds of it.
CutAt(answer, k) == k < Len(answer) => MayBeMissing(answer[k+1])

\* enqueue: a name that has been in the queue is not queried again.
Enqueue(s, item) ==
    IF item.name \in s.seen THEN s
    ELSE [records |-> s.records, queue |-> Append(s.queue, item), seen |-> s.seen \cup {item.name}]

\* Mutant of Take: records of other zones are not dropped.
TakeUnfiltered(s, rec, depth) ==
    [records |-> Append(s.records, rec), queue |-> s.queue, seen |-> s.seen]

\* A record of an answer: it is kept, and the target of a CNAME is enqueued.
Take(s, rec, depth) ==
    IF ~inZone(rec) \/ ~Kept(rec) THEN s
    ELSE LET t == [records |-> Append(s.records, rec), queue |-> s.queue, seen |-> s.seen]
         IN  IF rec.type = "CNAME" /\ rec.data \in Names /\ depth < MaxDepth
             THEN Enqueue(t, [name |-> rec.data, depth |-> depth + 1]) ELSE t

\* The records, the queue and the names seen so far, and after an answer.
Walked == [records |-> records, queue |-> queue, seen |-> seen]

Taken(answer, depth) ==
    LET after[k \in 0..Len(answer)] ==
            IF k = 0 THEN Walked ELSE Take(after[k-1], answer[k], depth)
    IN  after[Len(answer)]

\* On to the next type, the next name, or the end.
Advance(s) ==
    /\ ns' = 1
    /\ seen' = s.seen
    /\ \/ /\ qtype < Len(QueryTypes)
          /\ qtype' = qtype + 1
          /\ queue' = s.queue
          /\ records' = s.records
          /\ UNCHANGED pc
       \/ /\ qtype = Len(QueryTypes)
          /\ qtype' = 1
          /\ queue' = Tail(s.queue)
          /\ records' = IF queue' = <<>> THEN Dedup(s.records) ELSE s.records
          /\ pc' = IF queue' = <<>> THEN "scraped" ELSE "query"

\* A child zone is warned of, not followed.
Delegations(answer) ==
    {<<"delegation", r.name>> : r \in
        {x \in Members(answer) : inZone(x) /\ x.type = "NS" /\ x.name # Apex}}

\* The server answers, with the name error if there is nothing.
Answered ==
    LET answer == Answer(queue[1].name, QueryTypes[qtype]) IN
    /\ pc = "query"
    /\ \E k \in 0..Len(answer) :
          /\ CutAt(answer, k)
          /\ Advance(Taken(SubSeq(answer, 1, k), queue[1].depth))
          /\ warnings' = warnings \cup Delegations(SubSeq(answer, 1, k))
    /\ UNCHANGED <<zone, chase, usable, faults, source, file>>

QueryWarning == <<"query", queue[1].name, QueryTypes[qtype]>>

\* Mutant of Refused: an error code is taken for an empty answer.
RefusedSilently ==
    /\ pc = "query" /\ faults < MaxFaults
    /\ faults' = faults + 1
    /\ Advance(Walked)
    /\ UNCHANGED <<zone, chase, usable, warnings, source, file>>

\* The first server to answer says SERVFAIL or REFUSED: no other is asked.
Refused ==
    /\ pc = "query" /\ faults < MaxFaults
    /\ faults' = faults + 1
    /\ warnings' = warnings \cup {QueryWarning}
    /\ Advance(Walked)
    /\ UNCHANGED <<zone, chase, usable, source, file>>

\* Mutant of NoAnswer: after the last server the first one is asked again.
NoAnswerForever ==
    /\ pc = "query" /\ usable > 1
    /\ ns' = (ns % usable) + 1
    /\ UNCHANGED <<zone, chase, pc, usable, faults, walk, found, file>>

\* A server does not answer: the next one is asked, and after the last one the
\* query is given up with a warning.
NoAnswer ==
    /\ pc = "query" /\ faults < MaxFaults
    /\ faults' = faults + 1
    /\ \/ /\ ns < usable
          /\ ns' = ns + 1
          /\ UNCHANGED <<pc, walk, records, warnings>>
       \/ /\ ns = usable
          /\ warnings' = warnings \cup {QueryWarning}
          /\ Advance(Walked)
    /\ UNCHANGED <<zone, chase, usable, source, file>>

\* The context is done: ScrapeZone returns the error and no zone.
Cancel ==
    /\ pc = "query"
    /\ pc' = "failed"
    /\ records' = <<>> /\ warnings' = {} /\ source' = "none"
    /\ queue' = <<>> /\ seen' = {} /\ qtype' = 1 /\ ns' = 1
    /\ UNCHANGED <<zone, chase, usable, faults, file>>

-----------------------------------------------------------------------------
(* The file.                                                                *)

\* renderBIND cuts the domain off a name, if it is spelled the same, and the
\* parser adds it to every name without a final dot.  It quotes text that is
\* quoted already, and gives a TTL to a record that is not to be cached.
BINDLine(rec) ==
    [name |-> IF rec.name \in Odd THEN "mangled" ELSE rec.name,
     type |-> rec.type,
     data |-> IF rec.data = "escaped" THEN "escaped twice" ELSE rec.data,
     port |-> rec.port,
     ttl  |-> IF rec.ttl = 0 THEN 300 ELSE rec.ttl]

\* Mutant of ThroughBIND: the types that have no case of their own get lost.
ThroughBINDTyped(s) == SelectSeq(s, LAMBDA r : r.type # "NS")

ThroughBIND(s) == [k \in 1..Len(s) |-> BINDLine(s[k])]

\* A line with an empty target does not parse (ensureDot leaves "" as it is).
Unparsable(rec) == rec.type # "TXT" /\ rec.data = ""

\* parseZoneJSON takes the records as they are.
ThroughJSON(s) == s

\* `entree zone export` in one of its formats and `zone import` of the file,
\* which reads all of it or nothing.
ExportImport ==
    /\ pc = "scraped"
    /\ \/ file' = ThroughJSON(records) /\ pc' = "imported"
       \/ IF \E k \in 1..Len(records) : Unparsable(records[k])
          THEN file' = <<>> /\ pc' = "unreadable"
          ELSE file' = ThroughBIND(records) /\ pc' = "imported"
    /\ UNCHANGED <<zone, chase, usable, ns, faults, walk, found>>

Finished == pc \in {"failed", "imported", "unreadable"} /\ UNCHANGED vars

Step ==
    \/ LookupNS \/ Transfer \/ TransferFails \/ BeginWalk
    \/ Cancel \/ Refused \/ NoAnswer \/ Answered \/ ExportImport

Next == Step \/ Finished

\* Every query has a timeout, so a walk goes on.
Spec == Init /\ [][Next]_vars /\ WF_vars(Step)

-----------------------------------------------------------------------------
(* Properties.                                                              *)

Scraped == pc = "scraped"
Unanswered == {<<w[2], w[3]>> : w \in {x \in warnings : x[1] = "query"}}

\* The records scraped are records of the zone, of types that can be migrated,
\* and each of them once: duplicate answers and records of other zones that a
\* server adds to a CNAME chain leave no trace.
Sound ==
    Scraped =>
        /\ Members(records) \subseteq {rec \in ZoneRRs : Kept(rec)}
        /\ Cardinality(Members(records)) = Len(records)

\* The names that can be reached from the labels by at most k CNAMEs, if one
\* query at least was answered at each of them.
Answers(n) == \E t \in Members(QueryTypes) : <<n, t>> \notin Unanswered
Reached[k \in 0..MaxDepth] ==
    IF k = 0 THEN Members(Labels)
    ELSE Reached[k-1] \cup
         {zone[n].data : n \in {m \in Reached[k-1] : zone[m].type = "CNAME" /\ zone[m].data \in Names /\ Answers(m)}}

\* Of every record at n there is one in the report that dedupRecords takes for
\* the same: it may differ in weight and port, and in nothing else.
Reported(n) ==
    \A rr \in RRs(n) : \E rec \in Members(records) : DedupKey(rec) = DedupKey(rr)

\* The walk misses nothing in silence but what did not fit into a reply or came
\* as a referral: every CNAME, and the records of the other types that fit, at a
\* name within reach of the labels are in the report, whatever loops the CNAMEs
\* form, or the report warns of the query that would have found them.
NoSilentLoss ==
    Scraped /\ source = "iterated" =>
        \A n \in Reached[MaxDepth] :
            /\ zone[n].type = "CNAME" /\ Answers(n) => Reported(n)
            /\ /\ zone[n].type \in Members(QueryTypes) /\ <<n, zone[n].type>> \notin Unanswered
               /\ \A rr \in RRs(n) : ~MayBeMissing(rr)
               => Reported(n)

\* A transfer is used only if it is the whole zone (scrape.go: "soaCount < 2
\* means the transfer was truncated"), and what is left out is warned of.
TransferComplete ==
    Scraped /\ source = "axfr" =>
        \A n \in Names :
            \/ zone[n].type = "none"
            \/ RRs(n) \subseteq Members(records)
            \/ <<"skipped", n>> \in warnings

\* What the BIND format keeps of a record.
Plain(rec) == rec.name \notin Odd /\ rec.data # "escaped" /\ rec.ttl # 0

\* A zone that is exported, in either format, and imported again has the records
\* that were scraped, in their order, and each of them as it was, if its name is
\* spelled like the domain, its text has nothing to quote and its TTL is not 0.
\* The import fails only if the target of a record is empty.
RoundTrip ==
    /\ pc = "imported" =>
          /\ Len(file) = Len(records)
          /\ \A k \in 1..Len(records) : Plain(records[k]) => file[k] = records[k]
    /\ pc = "unreadable" => \E k \in 1..Len(records) : records[k].data = ""

\* The scrape ends, with loops of CNAMEs and with servers that fail.
Terminates == <>(pc \in {"scraped", "failed"})

\* Nothing of the zone is lost in silence, by the walk or by a transfer.
NothingLost == NoSilentLoss /\ TransferComplete

\* The state invariants of a scrape: a bounded walk, and true records.
ScrapeSafe == TypeOK /\ Sound
=============================================================================
