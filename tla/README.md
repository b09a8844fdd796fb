# TLA+ models of dns-entree

dns-entree writes DNS records through provider APIs (the Go library, the
`entree` command and the `entree-api` server) and migrates whole zones between
providers. This directory holds TLA+ models of the parts of it that keep state,
run concurrently or can fail half way, TLC configurations that check them on
small instances, and TLAPS proofs. Paths below are relative to the repository.

    tlc -workers 2 -config MCMigrationServer.cfg MCMigrationServer
    tlapm MigrationServerProofs.tla

`PROJECT.json` lists every run, the source lines of every definition, the
hazards the properties are aimed at, and for each property a mutated definition
under which TLC refutes it.

## Inventory

| Component | State | Operations | What is hard | What makes it correct |
|---|---|---|---|---|
| Stateful migration handlers (`api/handlers_migrate_stateful.go`) | one `StoredMigration` row per id; a private copy per request | preview, apply, verify, delete; get and list read | requests on one id interleave between Get and Update; timeouts and crashes during minutes of provider calls | one apply per migration; a status never claims more than was done; deleted rows stay deleted |
| Migration store (`migrate/store.go`), JSON (`store_json.go`, `store_json_unix.go`) and SQLite (`sqlstore/store.go`) | rows; for JSON `<id>.json` and `<id>.lock` files | Create, Get, Update, List, Delete, SweepExpired | several processes, flock on files that Delete unlinks, crashes between system calls | an atomic store with optimistic locking |
| Server and sweeper (`api/server.go`) | listener, sweeper goroutine, two channels in fields | ListenAndServe, Shutdown, startSweeper, stopSweeper | a stop signal racing a ticker and a two-second timer | clean shutdown; expired rows go away |
| State key (`migrate/crypt.go`) | `.key-salt` | DeriveStateKey, EncryptCreds, DecryptCreds | two servers start at once, a crash between create and write | one key per directory |
| One-call migration (`migrate/migrate.go`, `verify_target.go`, `ratelimit.go`, `report.go`) | report, pending records | Migrate | partial failure, polling rounds, deadline, cancellation | every record reported once, exact error, it returns |
| Push service (`push.go`, `spf.go`) | none of its own; the provider's zone | PushTXTRecord, PushSPFRecord, PushCNAMERecord, PushGenericRecord | read, decide, write without a lock; lost answers and retries | idempotent; keeps other records and SPF includes, as far as its reads hold |
| Providers (`providers/*`) | the zone at the provider | GetRecords, SetRecord, DeleteRecord, ApplyRecords, Verify | per-name, per-rrset and whole-zone write semantics; failed reads before replacing writes | SetRecord changes one record |
| Zone adapters (`migrate/{cloudflare,route53,gcdns,godaddy}.go`) | target zones | EnsureZone | search and create are two calls, the answer to the second may be lost; names are compared as they are spelled | one zone however often a migration is run |
| Scrape, BIND, convert (`migrate/scrape.go`, `bind.go`, `convert.go`, `cmd/entree/cmd_zone.go`) | queue of names, report | ScrapeZone, ImportBINDFile, export | AXFR refused or cut short, queries that fail or are answered in part, CNAME loops and chains out of the zone | what a reply can hold is scraped or warned of, nothing is invented, it ends |
| Template processing (`template/process.go`, `sigverify.go`) | a working zone while records are processed | ProcessRecords | conflict rules applied one after the other, multi-instance ownership | no alias beside addresses; what a template asks for is there; foreign records survive; repeatable |
| Template apply (`template/apply.go`, `resolve.go`), apply handlers and command (`api/handlers_core.go`, `cmd/entree/cmd_apply*.go`) | results so far, conflicts still to delete | ApplyTemplate, `POST /v1/apply`, `/v1/apply/template`, `entree apply`, dry runs | deletes and pushes that fail half way, ids that name an rrset, zones larger than a page | success means that the content is there; a dry run foretells; a bad record spoils the request before the first write |
| SPF (`spf.go`, `esp/spf_classify.go`) | seen set and depth of a walk | MergeSPF, LookupCount, ClassifyFromSPFRecursive | loops, depth cap, domains first met too deep, failing look-ups | merges keep the record; the limit is not called exceeded when it is not |
| HTTP middleware and stateless handlers (`api/middleware.go`, `handlers_*.go`, `metrics.go`, `credentials.go`) | request scoped; counters; a migration goroutine per request | the chain, checks, answers, panics | panics before and after the header, timeouts, migrations that outlive their request | honest answers, harmless refusals, credentials not logged |
| Template sync (`template/sync.go`) | cache directory and its sentinel file | SyncTemplates, LoadTemplate | concurrent syncs, interrupted clone | a stale or broken cache is noticed |
| Detection and verification (`detect.go`, `verify.go`), Domain Connect client (`domainconnect/`), inspection (`inspect/`) | none | look-ups with fallbacks | timeouts, order of nameservers | |
| Validation, registry (`validate.go`, `registry.go`) | a map filled at start | | | |
| Widget (`widget/src`) | screen, poller | screens and transitions | late answers after a transition | |

How they interact: a handler loads a row, works on its copy (adapters and
providers over the network, the limiter between records) and saves it with
`Version+1`; the sweeper deletes expired rows in the same store, from the same
or another process. The server derives the key that encrypts the credentials in
the rows. `Migrate` and the apply handler push through `Provider.SetRecord`;
`PushService` puts a read and a decision in front of the same call, and
`ApplyTemplate` puts conflict deletes in front of that. A migration started by
`POST /v1/migrate` runs in a goroutine of its own, which its request and the
shutdown of the server may not wait for.

## Modules

| Module | Models | Correspondence |
|---|---|---|
| `MigrationStore` | the contract in `migrate/store.go` | `rows[id]` is a row or `NoRow`; Create, Update (successor version only) and Delete are atomic |
| `JSONStore` | `store_json.go`, `store_json_unix.go` | one action per system call: `OpenLock`, `Flock`, `CheckCreate` / `CheckUpdate`, `WriteRow` (the rename), `RemoveRow`, `Unlock`, `RemoveLock`; lock files are inodes, so an unlinked lock file that is still open is a state of its own; `Crash` drops descriptor and lock |
| `MigrationServer` | the four handlers, the sweeper as seen by the store, either backend | `pc[r]` is the next store or provider call of request `r`; `copy[r]` its row; `live[r]` its context; `Preview`, `BeginApply` … `FinishApply`, `BeginVerify` … `SaveVerify`, `BeginDelete`, `DeleteRow`, `SweepSQL`, `SweepStart`, `SweepRow` |
| `ProviderZone` | what tells the five providers apart | GetRecords and its page, SetRecord (with the MX priorities it drops) and DeleteRecord as operators on the records of one name and type, with their possible outcomes, and the comparison the push methods make (`SameRecord`); used by the next three |
| `PushService` | the Push methods and SetRecord of five providers | `GetRecords` is the read and the decision, `ReadForWrite` SetRecord's own read, `SetRecord` its write and the rest of the push, `Resend` GoDaddy's retry |
| `ApplyRequests` | the apply handlers, `entree apply`, `ApplyTemplate` | `Submit`, `Checks` (everything before the first call, resolving included), `Diff` (dry run), then per record `Conflicts`, `Delete`, `Get`, `Set`; `Confirm` is the real run after a dry one |
| `MigrateRun` | `Migrate`, the zone adapters and `verify_target.go` | `AcquireZone`, `ListZones` and `CreateZone` (together `EnsureZone`), `WaitTurn`, `SetRecord` on the target's records, `BeginVerify`, `Query`, `EndRound`, `Wake`; runs follow one another on the same target |
| `ZoneScrape` | `ScrapeZone`, export and import | the look-up of nameservers, one action per transfer and per query, the queue of CNAME targets, warnings; replies that are cut off; then the file, line by line (`BINDLine`), and its import |
| `SPFWalk` | `MergeSPF`, the lookup count, the search for SES | records are sequences of terms over a net of domains; one step per term or look-up of the recursive walk, whose stack is a variable |
| `TemplateProcess` | `ProcessRecords` in `template/process.go` | `Start` is everything up to the conflict loop (signature, groups, resolving, `checkInternalConflicts`, multi-aware pre-deletion), then one action per case of its switch (`PutCNAME`, `PutAddress`, `PutTXT`, `MergeSPFM`, …), and `Return` restores, stamps and applies the result as `buildFinalZone` in `compliance_test.go` does |
| `StateKey` | `DeriveStateKey` | `ReadSalt`, `CreateSalt` (O_EXCL), `WriteSalt`, `RereadSalt`, `Derive`; `Restart` at any point |
| `RequestPipeline` | the middleware chain, the checks of the handlers, the migration goroutine | `Accept` is the way in up to the work, `Call`, `Answer`, `Done`, `Abandon` the work, `WorkerCall`, `WorkerReturns`, `WorkerAborts` the goroutine, `Unwind` the way back, `Panic` and `Recover`, `Cut` the timeout or the client leaving |
| `ServerLifecycle` | `ListenAndServe`, `startSweeper`, `stopSweeper`, `Shutdown`, composed with `RequestPipeline` | `watch` is the channel the goroutine's select evaluated, `field` is `s.sweeperStop`; the drain waits for the requests of `RequestPipeline` and not for their goroutines |
| `MigrationServerProofs`, `StateDirectoryProofs` (of `JSONStore` and `StateKey`), `MailRecordProofs` (of `SPFWalk` and `PushService`), `ApplyRequestsProofs`, `MigrateRunProofs`, `ZoneScrapeProofs`, `TemplateProcessProofs`, `ServerLifecycleProofs` | theorems | see Proofs |

`MigrationServer` uses the operators of `MigrationStore` for its store calls, and
`JSONStore` is shown to implement `MigrationStore`; together they say that the
handlers may take the JSON store's calls as atomic. `ServerLifecycle` extends
`RequestPipeline`, so that requests, goroutines, sweeper and shutdown interleave.

Abstractions. A row keeps its status, version, number of previewed records,
whether nameservers are known, and whether results are unset, fine or contain a
failure; contents, tokens and credentials are left out. Requests that the
handlers turn away before any write are not steps. In the modules of pushes an
SPF value is its set of includes, a mail exchanger a host and its priority, an
alias a target and the way it is spelled, any other value opaque; TTLs are left
out. A state key stands for its salt. Time is a step of its own (`Expire`,
`Deadline`). In `TemplateProcess` a name is its labels and a content its words;
the constants `Parts`, `Heads` and `Tails` say which words are parts of others,
so that `strings.Contains` and `strings.HasPrefix` are what they are
(`ContainsText`, `HasPrefix`). All checks of characters, lengths, addresses and
variables are one flag of a template record. Slices of records are sets, because
each case deletes all copies of what it matches and both results are
deduplicated. In `ZoneScrape` a name has records of one type and content, which
may differ in port (and weight), and a query type per kind of record. In `SPFWalk`
a term is its kind and domain; kinds follow the comparisons in the code, so that
`ptr` stands for the forms a receiver counts and the code does not (a bare `ptr`,
`a/24`, `mx/24`, `+a`), and `+include` for an include behind a qualifier.

## Runs

| Run | Result | Shows |
|---|---|---|
| `json_store` | pass, 37,610 states | `ImplementsStore` (refinement of `MigrationStore`); `RowsSafe`: one caller at a time works on a row (`RowExclusive`), a removed row is not written again (`NoResurrection`); `CallsReturn` |
| `server` | pass, 302,301 states | `ApplyAtMostOnce`, `AppliedMeansPushed`, `StatusOrder`, `NoResurrection` |
| `sweep` | pass, 137,974 states | `SweptUnlessBlocked`: expired rows are removed unless an undecodable row comes before them |
| `sweep_blocked` | violation | `ExpiredRowsSwept` without that exception: a failed record leaves an `error` in `ApplyResults` (`push.go:28`) that JSON cannot decode again, so the row is unreadable and `SweepExpired` stops at it each time |
| `push` | pass, 1.3 million states | `PushSafe` (includes once reported stay until a write rests on an outdated read), `Idempotent`, `SiblingsKept`, `NeverEmptied` over all five providers and names off the page that is listed |
| `apply` | pass, 1.2 million states | `AppliedExact`: after a request that ends without error the content of its last record at each name is there (`Installed`, `Serves`) and the conflicts it names are not (`ConflictsCleared`); `ResultsSafe` (a result per record whose type is known, an error exactly if one failed); `DryRunPredicts`, `AllOrNothing`, `ConflictScopeByID` |
| `migrate_run` | pass, 844,944 states | `ReportExact` (every record once, the error is exact), `MatchedIsServed` with nameservers that may be behind, `OneZone` for a domain in either spelling, `DryRunSpares`, `Terminates` |
| `scrape` | pass, 725,797 states | `ScrapeSafe` (what is scraped is in the zone, once), `NothingLost` (`NoSilentLoss` of the walk, `TransferComplete`), `RoundTrip`, `Terminates` |
| `mail` | pass, 458,700 states | `MergeSafe` (a merge keeps all terms, adds what is asked for where receivers see it, and is idempotent), `LimitExact` (the count against what RFC 7208 has receivers count), `SESExact` (the search against reachability) |
| `template` | pass, 935,624 states | `ZoneSafe` (`AliasAlone`, `AliasReplaces`, `Distinct`), `Installed`, `Spared`, `ServiceReplaced`, `Idempotent` |
| `lifecycle` | pass, 390,186 states | `RequestsSafe` (refused requests are harmless, answered ones counted once, credentials reach the handler and not the log), `Honest`, `CleanShutdown`, `WorkersEnd`, `ShutdownEnds` (`ShutdownReturns`, `SweeperStops`) |
| `state_key` | pass, 425 states | `FirstWriterWins` |

What the conditions in some passing properties exclude is behaviour of the code.
Where the model has it, TLC shows it when the condition is dropped:

- `SiblingsKept` claims for each provider what its write keeps, against
  `docs/guides/adding-a-provider.md:161`. Route 53 replaces the rrset unread
  (`route53.go:152`), so nothing is claimed; Cloud DNS replaces the rrset it has
  read (`gcdns.go:188`); Cloudflare and Namecheap overwrite the record listed
  first, which for an SPF push is not always the SPF record (`push.go:219`);
  GoDaddy removes nothing, unless its own read failed, which it takes for an empty
  name (`godaddy.go:294`).
- `Idempotent` leaves out three kinds of pushes that write again what is there,
  against `README.md:46`. GoDaddy appends a changed value and `findRecord`
  compares the first. On Route 53 and Cloud DNS a name off the first page is not
  found (`route53.go:113`, `gcdns.go:117`). And the priority of an MX record is
  compared (`push.go:109-110`) although only Namecheap's `GetRecords` fills it: a
  push with a priority never is `already_configured` elsewhere, nor one without at
  Namecheap, whose `SetRecord` makes it 10 (`namecheap.go:348`).
- `IncludesKept` runs over all interleavings, and promises nothing more once a
  text was pushed to the apex or a write rested on a read that did not show the
  name as it is (`Justified`). Two concurrent `PushSPFRecord` calls are such a
  case: the later write drops the earlier include, although
  `docs/guides/push-service.md:11` calls a service safe to reuse across
  goroutines; Cloud DNS is no exception, because its conditional Change guards
  SetRecord's read and not the merge before it. So are an SPF record off the page,
  in whose place a fresh one is written, and GoDaddy's failed read.
- Nothing says that a name has one SPF record (`docs/guides/spf-merge.md:9`):
  GoDaddy appends the merged one, and on Cloudflare it overwrites whichever TXT
  record is listed first, the SPF record or not (`push.go:219`).
- `NeverEmptied` leaves out racing pushes on Namecheap, which write the whole
  zone as they read it (`namecheap.go:226`).
- `Installed` and `Idempotent` leave out templates in which a later record
  deletes what an earlier one found present and so did not add: TXT `x` followed
  by TXT `y` with mode All gives `{x, y}` and `{y}` by turns (`process.go:643`).
- `Idempotent` also leaves out what `Repeatable` excludes. TLC finds it violated
  when any part of that is dropped, in the run or, for zones with two SPF records
  of one name and with twins, in a run made apart: two SPFM records of one name, which add two SPF
  records (the first result stays in `toAdd`, `process.go:570`); SPFM in a
  multi-aware call, where the merged record is stamped as the service's own, so
  that the next call deletes it and the rules that were there before
  (`process.go:513`, `801`); SPFM at a name that had two SPF records, either of
  which may be merged with; a TXT record at the name of an SPFM record that
  spells out an SPF record, or whose mode is Prefix with a prefix longer than
  the version: the first call merges, the second deletes what was merged and
  starts from nothing (`process.go:633`); and multi-aware calls on a zone that holds
  a record twice. No property says that SPFM merges well: a rule put into
  `v=spf1 -all` gives `v=spf1 foo v=spf1 -all` (`process.go:1081`).
- `Distinct` leaves out names that had two SPF records: a template may write one
  of them as TXT, and when the rules of an SPFM record are merged into the other
  the two become equal. Of TXT, MX and the other types the second copy is never
  added.
- `Installed` calls the rules of an SPFM record installed if their text is in an
  SPF record. The code looks for it by `strings.Contains` (`process.go:1060`), so
  `ip4:192.0.2.1` beside `ip4:192.0.2.10`, or a single `a`, is present and never
  added.
- `AliasAlone` is about aliases beside addresses and other aliases only. MX, SRV
  and custom records, merged SPF records, and TXT records with a conflict mode are
  put beside an alias that is there (`process.go:567`, `623-640`, `656-667`,
  `693-708`, `736-748`). The converse is `AliasReplaces`: where a call puts an
  alias, nothing stays but delegations, what the template asks for itself and what
  is restored. `AliasAlone` also leaves out records of the provider's other
  services: an address marked Always is restored beside a new alias, because only
  the same type counts as a conflict (`process.go:762`).
- `Idempotent` of templates is for calls with the same options and the same id. A
  multi-aware call without an id draws a random one (`process.go:499-505`;
  `Identified`), so its repetition is another instance, which adds to the zone.
- `json_store` creates each id once. With an id created again after a delete the
  refinement fails: `Delete` unlinks the lock file after releasing it
  (`store_json.go:199`) and two callers lock two inodes of one name. The ids of
  the HTTP handlers are fresh UUIDs.
- `FirstWriterWins` is about salts that are not empty: a salt file read between
  its creation and its write gives a key from an empty salt (`crypt.go:63-75`),
  against the comment at `crypt.go:41`.
- `SweeperStops` is for sweeps of at most two seconds: after a longer one the
  goroutine reads `s.sweeperStop` as nil (`server.go:282`) and never exits.
- The `server` run does not claim that apply's results are kept: a verify during
  apply takes the next version, apply answers 409 and its results are lost
  (`handlers_migrate_stateful.go:365`), against `docs/http-api.md:332`.
- `ConflictScopeByID` leaves out Cloud DNS and GoDaddy, whose record ids are name
  and type, so deleting one conflicting TXT record deletes all TXT records of the
  name, against the comment at `template/apply.go:122`. `ConflictsCleared` leaves
  out relative hosts, which match no name that GetRecords returns.
- `DryRunPredicts` leaves out a second record at the same name, which finds the
  first one written, and A and MX records of `entree apply`, always reported as
  created. The two sides compare differently (`Foretold`): the dry run compares
  contents letter by letter (`handlers_core.go:342`, `cmd_apply.go:170`), the push
  CNAME targets without case and final dot (`push.go:250`) and MX records with
  their priority. So an UPDATE of a CNAME may come to nothing, and a SKIP of an MX
  record may be an update at Namecheap.
- `ResultPerRecord` counts what is submitted, but for a template's records of
  unknown types: they are skipped with a warning and get no result
  (`resolve.go:42-44`), against `docs/guides/templates.md:88` and `100`, which
  promise one for each record of the template.
- `Installed` of requests is about what the provider's calls carry. A record is
  its content (`push.go:109-110`): GoDaddy drops port, weight and priority
  (`godaddy.go:152-157`, `300-305`), Cloudflare the priority
  (`cloudflare.go:116-126`), so an SRV or MX record with them is reported as done
  without them; a priority is claimed for Namecheap only (`Serves`). The host of an
  SPFM record is ignored, its include goes to the apex (`apply.go:110`).
- `MatchedIsServed` leaves out two kinds of records. A nameserver that is behind
  may answer with a value that a later SetRecord of the same run has replaced, and
  the first match of any server counts (`verify_target.go`); and a record is not
  served as asked for if its priority was dropped, which shows as a mismatch
  unless an old answer hides it. It does say that nothing else is called matched
  wrongly, and that without lag every match and mismatch is right.
- `OneZone` is for runs after one another: two at a time both find no zone. And it
  is for a domain in lower case: validation admits capitals, and Route 53's and
  Cloud DNS's adapters compare them with the stored name (`migrate/route53.go:72`,
  `migrate/gcdns.go:72`), so that each run for `Example.com` creates a zone and
  then fails to write to it, because the provider compares likewise
  (`route53.go:94`). Cloudflare's refuses the second (`migrate/cloudflare.go:51`).
  All runs of a behaviour spell the domain in one way.
- `MergePreserves` and `MergeEffective` leave out an include that is there behind
  a qualifier, or that is the beginning of one that is there: `strings.Contains`
  takes it for present (`spf.go:107`), `-include:` too. `MergeEffective` also
  leaves out records with a bare `all` or two of them, behind which additions
  have no effect.
- `LimitExact` says that a record is never called too expensive wrongly, and that
  one which is is found out unless the count comes by a form that it takes for
  none (`Overlooks`): a qualified include, a bare `ptr`, `a/24`, `mx/24` or `+a`
  (`spf.go:172-179`, `238-247`). There the count stays below the "full RFC 7208
  lookup counting" of `spf.go:37`. Both sides count a `redirect=` beside an `all`,
  which receivers ignore, and a record once however often it is included.
- `SESExact` is for chains within the depth cap: a domain first met at the cap is
  marked as seen and not looked into when met again, against the comment at
  `esp/spf_classify.go:85`. And it is about unqualified includes below the sender's
  record: `walkForSES` does not follow `+include:` (`spf_classify.go:115`), so who
  leads to SES through one alone is not found.
- `NoSilentLoss` leaves out what does not fit into a reply: `queryAuthoritative`
  asks by UDP without EDNS0 and does not look at the TC bit (`scrape.go:273-290`),
  so of large TXT, MX or SRV sets a part comes back without a warning; and
  delegations that a server answers by a referral come back empty. `Reported` is up
  to what `dedupRecords` tells apart, which is neither weight nor port
  (`scrape.go:262`): of two SRV records that differ in these one is lost. A
  transfer has neither problem (`TransferComplete`).
- `RoundTrip` leaves out, for the BIND format, names spelled in another case than
  the domain (`renderBIND` cuts the suffix case-sensitively, `cmd_zone.go:198`),
  text with quoted characters (the parser's quoting stays in the record,
  `convert.go:37`, and is quoted again, `cmd_zone.go:210-211`), and a TTL of 0,
  which becomes 300 (`cmd_zone.go:202`). A record whose target is `.` is exported
  without one (`convert.go:39`, `cmd_zone.go:226`), and then the import of the
  whole file fails; `RoundTrip` says that nothing else makes it fail.
- `Accounted` does not count panicking requests, which the code neither logs nor
  counts; a panic in the migration goroutine, which nothing recovers, is left
  out. No property says that a timed-out migration is answered: the connection's
  write deadline is as long as the request's (`server.go:196`), so the 500 of
  `handlers_migrate.go:81` has nowhere to go.
- `ListenerFails` always returns the listener's error: the branch for
  `http.ErrServerClosed` (`server.go:211-213`) needs a `Shutdown` from outside
  `ListenAndServe`, which nothing in this code calls.
- `CleanShutdown` lets a migration outlive the shutdown, if it has been told to
  stop: the drain waits for handlers only.
- `OneResultEach` is for runs that reach verification: a limiter error returns
  without a result for the records already written (`migrate.go:119`), against
  `report.go:38`. And a dry run creates the target zone (`migrate.go:87`),
  against `cmd/entree/cmd_migrate.go:58`.

### Bounds

- `json_store`: one row and three callers, so that one can hold the old lock
  file's inode, one open a new one and one unlink it; four inodes are one more
  than can be open at once; version 3 leaves room for two racing updates. Rows
  do not share files, so more ids add nothing.
- `server`: one migration (ids share no state outside the sweep), three requests
  (apply, verify and delete in any mix, or two applies and a verify), two records
  so that one can fail after one succeeded, version 5 for one verify more than
  apply's two updates need. `MaxVersion` only stops new verify requests.
- `sweep`: two ids, as order in the directory matters; one request.
- `push`: two pushers, one with any operation or an SPF merge of one include, the
  other with an SPF merge of the other; one text and two includes, at most two
  records at the apex at the start (a sibling before or after the SPF record) and
  one elsewhere, an MX or a CNAME; two priorities and two spellings. Names are on
  the listed page or not, anew at each read.
- `apply`: requests of one or two records out of 18 (every type and conflict
  mode, relative and qualified hosts, an MX with and without priority), zones of
  up to two records at the apex and, for three of these, records at the other
  names: one that equals the request's, one that differs in spelling, priority or
  content, and two; the apex on the first page or not.
- `migrate_run`: six source zones of up to three records, so that one can match,
  one mismatch and one stay unanswered in the same round, with values that share
  a name or are equal, and with MX records; a target that is new or has such
  values; nameservers that are behind or not; two runs.
- `scrape`: four names, two of them labels, CNAME chains longer than `MaxDepth`,
  loops and targets outside, SRV records that differ in port, an empty target,
  quoted text and a TTL of 0; one name whose records do not fit into a reply and
  one that is spelled with capitals; two nameservers and two faults.
- `mail`: `Limit` and `MaxDepth` are 2 where the code has 10 and 10; with four
  domains chains are longer than the cap, loop, and meet a domain first too deep;
  records have forms that are passed over at each place of a chain.
  `MaxDepth >= Limit`, which `LimitExact` rests on, is an assumption of the module.
- `template`: every single record type, and all ordered pairs of a
  pool of 25 template records (triples of the 21 that interact most), over five
  zones, each call repeated; and all pairs
  of one-record calls for two providers, two services and two instances;
  templates that spell out an SPF record before rules are merged into it; and
  SPFM records beside TXT records that meet the merged record (`Beside`), with
  rules that are a part of another; and multi-aware calls without an id
  (`Unnamed`). Three
  names (the apex, one below it, one below that) are enough for the NS cascade.
- `state_key`: three servers, so that a re-read, a create and a restart overlap;
  `lifecycle`: two requests, one to any of the five kinds of route, with at most
  one flaw and one provider call, and one that is answered at once, so that one
  can be drained or left behind while another is accepted late.

Symmetry is used on requests (`server`), salts and servers (`state_key`) and
spellings (`push`), in runs without liveness.

### Fairness

- `JSONStore`: a started call keeps running (weak fairness of its steps), and a
  caller that waits for a flock which keeps coming free gets it (strong fairness:
  the kernel queues lock waiters). A crash ends a call too.
- `MigrationServer`: handlers run on (every network call has a timeout), and the
  ticker keeps starting sweeps, which proceed.
- `MigrateRun`: the run takes its steps and the deadline passes.
- `ZoneScrape`: the scrape goes on; every transfer and query has a timeout.
- `RequestPipeline`: handlers go on, every wait of a migration ends with its
  context, and the request's timeout passes.
- `ServerLifecycle`: goroutines run, handlers return, and a select whose stop
  channel is ready again and again does not pick the ticker for ever (Go chooses
  uniformly among ready cases).

Deadlock is checked except in `json_store`, `migrate_run`, `lifecycle` and
`template`, which may stop: all ids are used up, the run or the server returned,
the caller made its last call.

## Proofs

`MigrationServerProofs` proves for every set of ids and requests, every bound on
records, both stores and every set of faults: `TypeCorrect` (`TypeOK`),
`ApplyOnce` (`ApplyAtMostOnce`), `StatusHonest` (`AppliedMeansPushed`),
`GoneStaysGone` (`NoResurrection`) and `StatusEdges` (`StatusOrder`). The
assumptions are those of the module: ids are positive naturals, the bounds are
naturals, and `NoRow` is not a row.

None of the properties is inductive. The argument is that a version identifies
its writer: version 1 is the preview, version 2 the one apply that won, and later
versions are apply's outcome and verify rounds, so an accepted Update saves the
successor of exactly the row the handler read. `IInv` is `TypeOK` and

- `RowOK`, of stored rows and of verify's copies: preview is version 1, applying
  version 2, neither has nameservers or results yet; a row with nameservers that
  is past applying, or awaiting the change, has all its records pushed;
- `IdsOK`: an id not issued has no row, `runs` is at most 1, and 0 for a preview;
- `ApplyOK`: from `MarkApplying` on, apply holds version 2; the records before
  `next` are pushed unless `err` is set, and a failed result sets `err`;
- `VerifyOK`: verify's copy is no newer than the stored row, and if it is as new
  the stored row has not failed.

`IInv` holds initially and is preserved action by action; the action properties
follow from it by one step each.

`StateDirectoryProofs` proves `FirstWriter` (`FirstWriterWins`) for any number of
servers and salts: at most one server is between creating and writing the file,
only while the file is empty, and every salt a server took from the file is the
one still there.

Of the same directory's rows it proves `RowsAreSafe` (`RowsSafe`) and `Refinement`
(`ImplementsStore`) for every set of ids, callers, inodes and crashes. Delete may
unlink a lock file that others wait on, but by then the row is gone for good:
until a row is gone all its callers have the one inode open that is linked as its
lock file (`LockOK`), and an inode has one holder (`OneHolder`), so the row still
is what the holder checked (`UpdateOK`) when it renames. That ids are not reused
(`OneCreator`, `CreateOK`) is what the argument needs, and what the run needs.

`MailRecordProofs` proves of `SPFWalk` `MergesAreSafe` (`MergeSafe`),
`LimitIsExact` (`LimitExact`) and `ClassificationIsExact` (`SESExact`) for every
finite set of domains, any records in DNS with any loops between them, every
record and list of includes to merge, any number of failing look-ups, and every
limit no greater than the depth cap (`SPFAssumption`; in the code both are 10).
The count is compared with what a receiver counts (`RFCTotal`), whose records are
those with the terms the code passes over put right (`AsReceived`): there are no
fewer terms to look up (`ReceiversLookUp`) and no fewer domains to reach
(`EnteredGrows`), and as many of both if nothing is passed over.

What a merge does is a matter of its operators: `Merged` is the record cut at
`InsertAt`, the additions between the parts (`InsertedOK`), and `Kept` distributes
over that (`KeptConcat`), so what it keeps of the result is the record again
(`MergedPreserves`); `InsertAt` is not behind any qualified "all"
(`MergedEffective`).

What a walk counts needs an invariant, `WalkInv`, which TLC also checked on the
`mail` instance. The recursion's stack holds what is left of records, one of each
domain entered, and `count` is the number of pairs of a domain entered and a
place already read in its record that costs a look-up (`Walked`); so nothing is
counted twice, and nothing behind what is to be reached. A domain that is seen and not
entered was cut off, and then one term that costs a look-up has been read in each
record below: the stack is deeper than the cap, which is no less than the limit,
so the limit is exceeded already. That is why `LimitExact` holds although what is
cut off is never read again, and why it would not with a cap below the limit.
When the stack is empty without a cut, what was seen is closed under the records'
targets, and `Reach` is the least such set (`ReachIsLeast`, `WalkEnds`). The search
for SES is the same argument without the counting (`SearchingOK`): a cut or a failed
look-up shows in `sure`. Sets are compared by inclusion and cardinalities throughout,
and `Kept` and `Joined` exist as functions by `Iterates`, so no induction over
data is needed.

`MergesAgree` connects the two models of a merge: `ProviderZone` keeps of an SPF
record only the set of its includes, and `MergedSPF` there is what `Merged` does to
that set, as long as no include asked for is the beginning of another domain.

Of `PushService` it proves `PushesAreSafe` (`PushSafe`), `NamesStayServed`
(`NeverEmptied`), `SiblingsStay` (`SiblingsKept`) and `PushesAreIdempotent`
(`Idempotent`) for any number of pushes, texts and includes, any faults and any
subset of the five providers, under every interleaving. `IInv` speaks of the zone
alone and of no push's local state, which is why overlap does not disturb it. A
write that is `Justified` still has before it what the push decided on; then the
promised includes, which are in the SPF record that the next push merges, or, with
GoDaddy, which appends, in one of them (`AckOK`), are in what it writes
(`PromisesStay`), and what was written last is first at its name (`SettledOK`). Any
other write ends the promises. `NeverEmptied` needs no such condition: whatever
was read, every provider writes a record (`WrittenShape`).

`MigrateRunProofs` proves `ReportIsExact` (`ReportExact`), `MatchedServed`
(`MatchedIsServed`), `OneZoneOnly` (`OneZone`) and `DryRun` (`DryRunSpares`) for
every source zone, provider, number of runs and fault. Until the run returns each
record is exactly one of: not pushed yet, failed, waiting for an answer, answered
(`RecordOK`). An accepted record is served, or a later one of its name was written
over it (`Overwritten`), and nothing is pushed after verification has begun; what
is answered is true of the target but for what nameservers that are behind may say
of such a record (`Truly`). A zone is created only by a run that found none, and a
run that can find none of this spelling writes nothing (`ZoneOK`).

`ApplyRequestsProofs` proves `ResultForEveryRecord` (`ResultsSafe`),
`WhatIsAppliedIsThere` (`AppliedExact`), `DryRunsTellTheTruth` (`DryRunPredicts`),
`NothingIsHalfValid` (`AllOrNothing`) and `ConflictsKeepToTheirMode`
(`ConflictScopeByID`) for every set of texts, includes and records, every length
of a request, any faults and all five providers. While a name is cleared of
conflicts, what is left to look at is the end of what the name has and begins
with a conflict, and there is none before it (`IsRest`, in `TodoOK`); so the name
is clear when the push begins (`ClearedOK`). A record that has been dealt with
stays in place until a later one at its name is reached (`DealtWithOK`, by its
`LastAt`). What a dry run announced for the first record at a name is what it
would announce until that record is written, and then its result up to the two
cases of `Foretold` (`AnnouncedOK`). Only Namecheap's zones hold priorities
(`MailOK`), and only templates ask for them (`PlanOK`). The proof needs that SPFM records hold SPF values and not texts,
which `ApplyAssumption` states: `dispatchRecord` takes only the include out of
an SPFM record's data (`template/apply.go:99`).

`ZoneScrapeProofs` proves `RecordsAreTrue` (`ScrapeSafe`), `NothingIsLost`
(`NothingLost`) and `FilesAreFaithful` (`RoundTrip`) for every finite set of
names, all zones over them, and any number of nameservers, failures and hops.
That what is within reach of the labels is found or warned of rests on the walk
being breadth-first. Some function `d` on the names seen gives the depth at which
each was enqueued: the queue is in the order of `d`, no name seen is deeper than
one step below the head of the queue (`DepthsOK`), and every query that has been
made found what there is, or left a warning (`FoundOK`). A name therefore is
never first enqueued too deep for its own targets to be followed. Of a query whose
reply may be cut only the records that fit are owed (`Owed`, `ReplyOK`), and a
CNAME always fits. `Dedup` and
`Answer` are recursive functions (`Dedup` and the start of the queue are both
`Firsts`, of their keys); that they exist is a lemma (`Iterates`), and
what they return is proved by least counterexample on naturals (`UpTo`).

`TemplateProcessProofs` proves `ZonesAreSafe` (`ZoneSafe`),
`TemplatesAreInstalled` (`Installed`), `OthersAreSpared` (`Spared`),
`ServicesAreReplaced` (`ServiceReplaced`), `ResultsAreDetermined` and
`CallsAreIdempotent` (`Idempotent`) for every template, every sequence of calls, all zones without duplicates and misplaced aliases and any records behind
a redirect. While a call runs, what stays of the zone is in the working copy, and
whatever is in the copy either stays or was added (`WorkOK`); what is added
answers to an entry, what is deleted to an entry or to the caller's ownership
(`ListsOK`); nothing that stays is opposed or equal to what was added, nor to the
addresses that a redirect brings along (`ApartOK`); and every entry the loop has
passed has its record, added or found (`GoodOK`). What a case of the switch has
to see to for that is one condition (`Handled`), and each case is shown to meet
it: where it deletes what another entry found, the template is one that
`checkInternalConflicts` refuses or `Overlap` names. That a merge contains the new
rules and, behind its version, every word that was there is a lemma on sequences
(`MergedShape`), and resolving keeps each record of a redirect behind it
(`ResolveOK`). The assumptions are on the inputs: strings are from a set that
contains the program's own; and redirects are served by A and AAAA records, as the
comment at `process.go:264` says and the code does not check.

For `Idempotent` that is not enough: two calls have to be compared. The proof
does so without running the loop twice. `Result` is what a call makes of a zone as
one expression of the call, its entries and the zone: the records no entry
deletes (`Left`), the provider's own that are put back (`Back`), and each entry's
record unless it is there (`Puts`); for an SPFM entry that is the one SPF record
it can merge with (`Mergeable`), its rules added. `RunExact` says how far the loop has come: it has
added `Puts` of the entries passed and kept exactly what they do not delete. Each
case of the switch is shown to do its part of that, so when a call returns the
zone is its `Result` (`ResultsAreDetermined`, for calls whose template and zone
are `Repeatable`). That `Result` of a `Result` is the same zone is then a fact
about sets: what the first call added the second finds, or the entry it came from
deletes it and adds it again, and the second call is as repeatable as the first
(`RegularAgain`). `Exactness` relates the zone between calls to the last call.

`ServerLifecycleProofs` proves `RequestsAreSafe` (`RequestsSafe`),
`TwoHundredIsHonest` (`Honest`) and `ShutdownIsClean` (`CleanShutdown`) for any
set of requests and routes and any number of provider calls. A step changes one
request, so most of the argument is about one record: `RequestOK` says what holds
of a request at each place, and every operation of `RequestPipeline` turns one
such record into another. The metrics are related to the requests by `CountsOK`,
each count being the number of requests that ended with that status, and
`ServerOK` relates sweeper, listener and the place where `ListenAndServe` is.

Only model-checked is liveness (`SweptUnlessBlocked`, `CallsReturn`, `Terminates`,
`WorkersEnd`, `ShutdownEnds`), which under fairness is outside what the prover
handles.

## Not modelled

`Get` and `List` results beyond their effect on the next step; the Windows lock;
AES-GCM and tokens; the DNS check after a push (it changes no state); schema and
scanning of SQLite; what git does to the template cache during a sync; the
answers of handlers and commands that only read; Inspect's parallel look-ups,
which write disjoint fields (it never returns the context error that
`inspect.go:115` announces); the components marked `not_modelled` in
`PROJECT.json`, each with its reason. One fact met on the way that no model
shows: `runMigrateCore` passes no account id (`cmd_zone.go:320`), so Cloudflare's
`EnsureZone` refuses (`migrate/cloudflare.go:30`).

## Plan

1. `SyncTemplates` and `LoadTemplate` over a directory whose git is external.
2. `verify.go` and Domain Connect discovery as pure operators, the widget's
   screens and poller.
