# Verification of porch

TLA+ models of porch, the TLS, web and mail checker of this repository: its
service `porchd`, the command `porch-scan`, and the packages under
`src/internal`. TLC checks the models on small instances; TLAPS proves some of
their properties for every value of the constants. `PROJECT.json` lists every
run, what it checks, the source lines each definition stands for, the mutant
that breaks each property, and the hazards the properties are aimed at.

    tlc -workers 2 -config MCConsole.cfg MCConsole   # any row of the table of runs
    tlapm GateProofs.tla                             # any module of proofs

## 1. The system

A request for a check arrives at `porchd` over HTTP, passes a list of guards,
takes a slot, and runs a scan that opens connections to a stranger's machine.
The report is graded by a policy, counted, kept, and sent. Whoever runs the
service may put it behind one password, whose data key seals what is kept.
`porch-scan` runs the same scans from a terminal and may write to the same
history.

| Component | State it keeps | Operations | What is hard |
|---|---|---|---|
| access gate (`access/gate.go`, `access.go`) | access file, data key in memory, session table, the one derivation slot, attempts per address | sign in, sign out, change the password, session check, sweeps | a sign-in with the old password that derives while the password changes; a slot not given back; a full table |
| client and host limiters (`httpapi/limit.go`, `targetlimit.go`) | a table of token buckets each, a sweep clock, an idle timer | allow, sweep, make room, idle tick | a clock read before the lock; forgetting without giving a new allowance; a timer that must be armed again |
| request path (`httpapi/httpapi.go`, `verification.go`, `limitlistener.go`) | connections, slots, allowances, figures | accept, guards of `admit`, `runCheck`, `handleVerify`, refuse, close | slots on every way out, guards in the right order, deadlines, a double close |
| counters (`httpapi/counters.go`) | totals and today's figures per check, refusals, a published copy | record, refuse, snapshot, restore | midnight between reading the clock and the lock; files of other days and builds |
| statistics file and shutdown (`cmd/porchd/main.go`) | a file, what was written last, the phase of the process | periodic write, last write, load | the last write must be the only writer; everything must stop |
| certificate reloader (`cmd/porchd/main.go`) | certificate, two modification times, time of the last look | get, changed, reload | two files replaced one after the other while handshakes read them |
| access file and retirement (`cmd/porchd/main.go`, `access.go`) | access file, retired folders | create, retire, show the password once | a crash between any two steps |
| vault (`vault/`) | directory of sealed reports, sealed list of domains | keep, delete, add, remove | the bound, removals that fail, two callers |
| results store (`results/`) | one history file per target, a lock file, a mutex per path | put, trim, read back | two processes, stale locks, half-written lines, a rename that is refused |
| start-up rules (`cmd/porchd/main.go`) | a secret file that outlives the process | flags, create and read the secret, refuse, listen | a secret cut short by one start and read by the next; what `-version` said of a later start |
| proof of control (`verify/`, `challenge/`) | none between calls | token, lookup of every label upwards | a lookup that fails is neither a proof nor a refusal |
| exclusion and demonstration lists | read once | match | none: pure |
| safe dialler (`safedial/`) | none | resolve, judge every address, dial in order | the address judged must be the address dialled; one budget for all attempts |
| TLS probe (`tlsprobe/`, `rawhello/`) | one probe's findings | four versions at once, suites one by one, preference | a server that stops answering half way; each connection resolves again |
| web probe (`webprobe/`, `markup/`), web scan (`webscan/`) | one walk's hops | fetch, follow, judge every hop | redirects to hosts nobody proved; a decision kept for the walk |
| DNS client (`dnsclient/`) | which resolver answered last | query, next resolver, fall back to TCP, walk the labels for CAA | a datagram of somebody else, truncation, pointers, a budget that runs out |
| mail scan (`mailscan/`, `smtptls/`, `mtasts/`, `dane/`) | one report | records, policy file, exchangers at once, bindings | every question may fail by itself; a server that writes before it should |
| mail records (`spf/`, `dkim/`) | the budget of one walk | parse, walk includes | policies that pull one another in, lookup limits |
| policy (`policy/`) | none | grade, worst of, describe | a rule is silent about what was not read |
| scan (`scan/`) | one report | target, versions, chains, revocation, issuance, settle | an unfinished transport must not be graded well; several chains, one verdict |
| certificate analysis, root stores (`certinfo/`, `rootstores/`) | none | trust, chain, names, dates | trust must not be read off the dates |
| revocation (`ocsp/`, `ocspquery/`, `crl/`) | none | staple, responder, list | three sources, each with its own signer, window and scope |
| transparency logs (`ctlogs/`, `ctsearch/`) | carried data | verify, search | cryptography over one input |
| pages, scripts, packaging | none | | no state |

How they meet. The handlers of `httpapi` run concurrently and share the three
tables of buckets, two semaphores, the counters, the results store and the
vault. The gate wraps them and owns the key the vault seals with. `porchd` owns
three files (statistics, certificate, access) and two goroutines that outlive
requests. The results store is the one piece two processes share. Everything
under the scans keeps its state for one call only.

What makes each part correct is stated as the properties of section 3.

## 2. The modules

| Module | What it models | How its state corresponds |
|---|---|---|
| `Gate` | handlers of `/session` and `/password`, the session table, the access file, stops and starts | `slot` is the channel `g.derive`, `key` is `g.key`, `sessions` is `g.sessions`; `file` is the access file with a number for the salt and nonce of its seal; `pc`, `req`, `read` are a handler's place and locals |
| `Buckets` | what the three tables of buckets share: refill, charge, the clock, the timer | `buckets` is the map, in ticks instead of fractions of a token; `timer` the pending `time.AfterFunc`; `called` what a caller read on its way to the lock |
| `GateAttempts`, `ClientLimiter`, `TargetLimiter` | `allow` and the sweeps of the gate's attempts, `limit.go` and `targetlimit.go` | the state of `Buckets` |
| `RateContract` | what any such table promises: the abstract specification | `full[k]` is when `k` has its whole allowance again |
| `Service` | a request from its connection through every guard to its answer | `pc` is the guard or step a handler is at; `sem`, `proofSem`, `slots` the channels; a request is the set of what is wrong with it; the tables of buckets are counters that grow again at any time, whose own behaviour is `Buckets` |
| `Stats` | the counters, their file, the shutdown | `data`, `published` as in `counters`; `phase` is where `run` is; `writer`, `writing`, `last` belong to `persistStats` |
| `Certificate` | `certReloader` | one step for each read of a file, of a time, of a field |
| `History` | one history file and its two locks, in several processes | `lines` are the records, `torn` says the file ends in half a line; `lockAge` is the lock file, `mutex` is `pathLock` |
| `Installation` | access file, sealed reports and domains, retirement, crashes | each file with the key it was sealed under; `removing` is the tail `Keep` is removing, under `v.mu` |
| `Verdicts` | the order of verdicts and `Worst` | `policy.Verdict` as numbers, `Ungraded` below them |
| `Handshakes` | `Probe`: versions, suites, the questions by hand, the machines reached; `summarise`, `mergeLegacy`, and what `scan.go` makes of them | `results` is the report's `Versions`; `accepts`, `answersTo` are what each machine behind the name really does; `reached` is `addressSet` |
| `Redirects` | `webscan.Scan` over `webprobe.Probe`: who may be contacted, the two chains, `GradeReach` | `decided` is `walk.decided`; `hops`, `stopped` are the chains; `asking` is a call of `Covers` on its way up the labels |
| `Dial` | one call of `DialContext` | `candidates` is what the loop has left, `attempted`, `blocked`, `dialErr` its locals |
| `Startup` | `run` from its flags to the listener, starts one after another | `starting` is where `run` is; `secret` and `protected` are the files that outlive it; `said` is what `-version` printed |
| `Names` | `readName` over a message of arbitrary bytes | its locals, one step per byte it looks at |
| `Lookups` | one lookup of the DNS client, CAA with its walk | `set` is `resolverSet`; `waiting` is which reply it waits for; a reply is its number, question, flags, code and sections |
| `Conversation` | `Prober.Probe` of `smtptls` | `stream` is the buffer of the reader; lines arrive whenever they like; `out` is `Result` |
| `Spf` | `spf.Check`: the walk of the policies | `stack` holds the calls of `evaluate`; `tally` is `Facts` |
| `Dkim` | what is made of one DKIM record | operators |
| `StsPolicy` | `Fetch` and `parse` of the policy file | one step per line |
| `Dane` | `dane.Check` | one step per record, with `undetermined` as its local |
| `MailPolicy` | `GradeMail` and what it says in notes | `MailFacts` as a record; a finding is a rule, a verdict and whom it is about; a note is what it settles and what it is about |
| `MailScan` | `mailscan.Scan`: every question, any of which may fail | `facts` is `MailFacts`; `entire` is what they would be if nothing had failed; `spokenTo` is who was contacted |
| `Certificates` | `Analyse`, `GradeLeaf`, `GradeIssuer`, `Judge` | a certificate is its names, dates, signer and the rules its content breaks; operators |
| `Revocation` | stapled response, responder, lists, `GradeStapling`, `RevocationLine` | `look` is which source is asked; each source's answer is what it said and when |
| `TlsScan` | `scan.Scan`: from what was typed to one verdict | `scanStage` is where `Scan` is; `shownFindings` are what the report lists |
| `GateProofs` | theorems about `Gate` and `Installation`: what is behind the password | |
| `RateProofs`, `BucketsProofs` | theorems about the contract, and about the three tables that keep it | |
| `ServiceProofs`, `HistoryProofs` | theorems about `Service` and `History` | |
| `DaemonProofs` | theorems about `Startup`, `Certificate` and `Stats` | |
| `ScanProofs` | theorems about the five parts of `MCScans`: `Handshakes`, `Redirects`, `Dial`, `TlsScan`, `Revocation` | |
| `MailProofs` | theorems about `Dane`, `StsPolicy`, `Conversation`, `MailScan` (with the rules of `MailPolicy`) and `Spf` | |
| `MC*` | instances for TLC | |

`RateContract` is the abstract specification of the tables. `MCBuckets` shows
that each of the three implements it: `Buckets!Contract` instantiates it with
`full` as the mapping, and `KeepsContract` is its specification as a property of
the run.

`MailScan` is built from the others: it extends `MailPolicy`, `Dkim` and
`StsPolicy` for the operators that make facts and findings of what was read, and takes the outcome of a
conversation, a walk or a binding as an input, as the scan does. `TlsScan` takes the
findings of the probe and of revocation alike; `Handshakes` and `Revocation` say how
these come about.

`MCBuckets`, `MCDaemon`, `MCConsole` (gate, installation, start-up), `MCScans` (TLS probe,
web probe, dialler, scan, revocation) and `MCChecks` (the five parts of `MCScans` and the
seven of a mail check) put parts that share no state into one run: a variable `part` is
chosen at the start and says which of the parts moves, so a behaviour of the run is a
behaviour of one part, and every property is about that part or holds of all. The part
`spf` of `MCChecks` walks the same records twice, first without a failure and then with
any: what the two find is compared by `Beside`, which is what `MailScan` assumes of the
walks it is given.

Conventions. A step that takes a lock and gives it back without doing I/O in
between is one action; reading a clock or a field before the lock is an action
of its own. Random tokens, keys and nonces are numbers or model values that do
not repeat. A definition marked `(Fault: ...)` is a plausible mistake in the
definition under it, used by a mutant of `PROJECT.json` and nowhere else.

## 3. The runs

| Run | Question | Properties | Result |
|---|---|---|---|
| `buckets` | the three tables against the contract | `HeldAsStated`, `KeepsContract` | 1 294 100 states |
| `service` | two connections, one slot of each kind, requests with up to two faults, deadlines | `EverySlotIsHeld`, `FiguresAreTheAnswers`, `ContactIsPermitted`, `RequestsEnd` | 599 808 states |
| `daemon` | counters across midnight, restarts, a file that cannot be read and shutdown; the certificate across two renewals | `FiguresAreKept`, `FileNeverGoesBack`, `StopsWhenAsked`, `ServedIsAPair`, `RenewalIsServedUnlessOverlapped` | 930 566 states |
| `history` | a service of two goroutines and a command that may die, on a disk that may be full | `OneWriterAtATime`, `LossIsBounded`, `PutEnds` | 48 715 states |
| `checks` | two machines behind one name; redirects between three hosts while proofs change; up to four addresses; chains of up to two certificates at four dates; three sources of revocation; and a mail check, part by part, with any question failing | `ProbeTellsTheTruth`, `NobodyIsLedAstray`, `GivesUpForAReason`, `VerdictIsOfTheFindings`, `RevocationIsTheAuthoritys`, `RepliesAreReadRight`, `ResultIsOneSentence`, `WalkIsBounded`, `FailedLookupsAddNothing`, `PolicyReadsOneWay`, `BindingIsTheRecords`, `FailureNeverCondemns`, `OnlyNamedAreContacted` | 1 477 947 states |
| `console` | two handlers, three tokens, two passwords and keys, expiry, a stop at any step; crashes between any two steps of a new password; starts over one secret file | `OldPasswordSessionsEnd`, `KeyIsTheFiles`, `SlotIsNotOrphaned`, `OldestGoesFirst`, `NothingIsLost`, `OldestGo`, `ServesAsItWasTold` | 1 662 503 states |
| `hosts_stale_clock` | two callers of the host limiter | `WithinAllowanceAndDelay` | violated, section 6 |
| `history_lock` | three processes, one of which dies | `OneWriterAtATime` | violated, section 6 |
| `history_torn` | a write that stops half way | `KeptIsReadable` | violated, section 6 |
| `missed_renewal` | the certificate alone | `RenewalIsServed` | violated, section 6 |
| `undetected` | the TLS probe alone | `RefusedIsRefused` | violated, section 6 |
| `not_followed` | the web probe alone | `StrongWasFollowed` | violated, section 6 |

Each passing run also checks the type invariants of its modules, as one. What the properties
say is in the comment above each of them; in short:

* A completed password change leaves no session another password opened
  (`OldPasswordSessionsEnd`), the key in memory is the one on disk
  (`KeyIsTheFiles`), and no way out of a handler keeps the slot
  (`SlotIsNotOrphaned`). The two are about the same thing: the slot is held from
  the read of the file to the change of the table, and that is what makes a
  sign-in with the old password impossible afterwards.
* A table of buckets answers every call as one that never forgets would
  (`KeepsContract`); it stays within its size, and holds nobody longer than the
  privacy page says, also when no further call arrives (`HeldAsStated`).
* Every slot in use is held by somebody, after every refusal, panic, timeout and
  double close (`EverySlotIsHeld`); the public figures are the answers that were
  sent (`FiguresAreTheAnswers`); nobody is connected to who is on a list, is
  unproven, or resolves to a blocked address (`ContactIsPermitted`).
* A clean stop loses nothing and nothing called today's is from another day
  (`FiguresAreKept`, which bounds today's figure from above: a record that read the clock
  before midnight may empty the new day, and no property says otherwise). The totals in
  the file never go back (`FileNeverGoesBack`), with one exception that the code names:
  a process that could not read the file goes on from zero (`Loads`), and its first write
  replaces what it could not read.
* A handshake is never shown a certificate with another one's key.
* A record that was kept stays until enough newer ones are there, up to what a write cut
  short costs, by the death of the process or by an error of the disk while it lives
  (`LossIsBounded`): one record for half a line, the unwritten ones for a rewrite in
  place. Every `Put` ends (`PutEnds`).
* Whatever is in place beside an access file opens under its key, and nothing anybody
  still wants is gone (`NothingIsLost`).
* `ProbeTellsTheTruth`: a list of suites called complete is all the one machine
  reached accepts (a list begun by one machine may be ended by the refusal of another,
  and then both are on record); strong is never said of what was not seen to the end,
  in whichever order the certificate, the questions by hand and the suites come
  together, and nothing that was seen is taken back.
* `NobodyIsLedAstray`: wherever servers redirect the check, no host on a list is
  connected to, and none without a proof that was there at some moment of the check.
  Strong is said only where the last answer of the secure chain came over TLS and is not
  a redirect that was refused, one too many or too long, and where the plain address is
  silent or leads to TLS at once. A redirect to another scheme or to no host is the
  exception, against what the comments say: `not_followed`, section 6.
* `GivesUpForAReason`: the error of the dialler is what happened, and both families had
  their share of the attempts before it gave up.
* `VerdictIsOfTheFindings`: the verdict of a scan is the worst of what the report lists,
  whichever chain it was met on; strong needs lists read to their end; a chain out of
  its dates is trusted or not as it was within them.
* `RevocationIsTheAuthoritys`: no response or list is taken for the authority's that is
  not, and one source that says revoked is enough, whatever the others say.
* `ServesAsItWasTold`: through secrets cut short, refused and made anew, a service that
  was asked for proof requires it, one beyond loopback requires proof and a password or
  was told not to, and it reaches what `-version` said.
* `RepliesAreReadRight`: a lookup without an error says what the zones say, whoever
  answers first and whichever resolvers fail, and a name with pointers ends where it
  ends.
* `ResultIsOneSentence`, `WalkIsBounded`, `PolicyReadsOneWay`, `BindingIsTheRecords`: a
  conversation is one of four states and negotiates nothing after a line sent too early;
  an SPF walk is bounded by what a receiver would make; a policy is one that every sender reads alike; the
  order of TLSA records decides nothing.
* `FailedLookupsAddNothing`: an SPF walk in which lookups fail finds no more lookups than
  the limit, no void ones and no ptr where the walk over the same records without failures
  found none, unless that walk stopped at the limit and so never came to them.
* `FailureNeverCondemns`: whatever question failed, a domain is graded no worse than by a
  whole scan, nothing is found against it that such a scan would not have found, its notes
  claim nothing that such a scan would not have claimed, and strong is not said with a
  principal record unread. There are two exceptions: four absences named in section 5, and
  an SPF walk that a failed lookup kept under the limit at which the whole one stopped. It
  may count void lookups and see a ptr that the other never came to, which is weak at most;
  the other found the limit exceeded, which is worse. `OnlyNamedAreContacted`: nobody is contacted whom the domain does not
  name.

### Bounds, and why they are enough

* `buckets`: three keys for a table of two; allowances of one and two calls; the
  clock runs through a burst, its refill and two sweeps. One caller with no
  delay, because the answer of a late caller is what `hosts_stale_clock` is
  about. In the gate the clock is read under the lock, so nothing is left out
  there.
* `service`: two connections compete for one slot of each kind and one call of
  each allowance; two requests in all, of seven kinds, one of them with two
  faults; whether the deployment is scoped is chosen at the start. More requests
  repeat these states.
* `daemon`: two days of two ticks less one, two scans, one refusal code, a file of
  an earlier build, of the day before and of today; three versions of the
  certificate and two handshakes, so that one can sleep through a renewal.
* `history`: two goroutines of one process and one of another; `Keep` is two and
  one, so that the two disagree; four records; any write may stop half way.
* `checks`: two machines are enough for a list begun by one and ended by the other,
  and for a question one answers and the other does not (nothing else tells them apart,
  so one is the one that does more); TLS 1.3 and one older
  version, which differ in every rule, where further older versions repeat it; two
  suites each, one that Go offers by default and one that it does not, one strong
  and one not. Three hosts (the one asked about, one a redirect may name, one on
  the list) and at most two redirects, so that a chain can return and be cut; two
  domains above one another; one change of what is published, among three
  situations, in each of the ways a deployment may ask for proof. Up to four
  addresses of two families for a limit of two, so that either family can fill the
  list. For the scan, leaves that expire within the dates tried and are under a root,
  under an issuer that expires first, under nobody known or signed by themselves, sent
  with their issuer or without, and a second chain that is worse, absent or unreadable.
  For revocation, every window, signer and scope of a response and of a list, and two
  of three places asked for a list.
  For mail, messages of five bytes: two pointers and a label; two resolvers, one of them
  listed twice; names of three labels for a budget of two; conversations of five lines, so
  that a reply of two lines and a line sent early fit; SPF budgets of four lookups and one
  void over four domains that include each other in a circle, walked twice; policy files of
  five lines, one more than a policy needs; two TLSA records over a chain of two; for the
  scan, three walks over a sender policy, of which one may go further for a failure; two
  exchangers of up to three records, one host named twice, any one question failing, and
  of the questions for TLSA records, which are one for each exchanger, any number.
* `console`: for the gate, two handlers are enough for every race on one slot (a third can
  only wait too); three tokens for a table of two make it overflow; two passwords and
  two seals allow one change and one recreated file, or two changes. The clock
  goes one tick past a session's life. `MaxTime` and `MaxSeals` are guards. For what is
  kept behind it, a limit of two reports, four made, two keys, two days, three retired
  folders, which is one more than two keys can fill; two starts (what one leaves, the
  next finds) over every set of rules and one flag at a time otherwise.

Symmetry is used in `console` and `buckets`, where no liveness property is checked.

### Fairness

* `Service`: every handler runs on, and every request has a deadline
  (`http.Server` timeouts and `context.WithTimeout`), so `Over` is fair too.
  Nobody else is: slots and allowances need not come back.
* `Stats`: the write and the steps of the shutdown are scheduled (weak), and the
  `select` of `persistStats` chooses `ctx.Done()` in the end although the ticker
  is ready again and again (strong: Go's select is uniform over ready cases). No
  fairness for a scan: a request that hangs is ended by the grace.
* `Certificate`: time passes, clients go on connecting, goroutines run.
* `History`: time passes, goroutines run, and a Go mutex is given to each waiter
  in turn (strong: it is free again and again between others). Nothing is
  assumed of the lock file, which nobody queues for: `PutEnds` needs the deadline.

## 4. What is proved

| Theorem | Module | For every |
|---|---|---|
| `OldPasswordsOpenNothing`: `Spec => []OldPasswordSessionsEnd` | `GateProofs` | handlers, passwords, tokens, keys, bounds |
| `KeyOpensWhatWasKept`: `Spec => []KeyIsTheFiles` | `GateProofs` | same |
| `SlotNeverOrphaned`: `Spec => []SlotIsNotOrphaned` | `GateProofs` | same |
| `TableIsBounded`, `TypeCorrect`: `Spec => []GateTypeOK`, `[]TypeOK` | `GateProofs` | same |
| `OldestSessionFirst`: `Spec => OldestGoesFirst` | `GateProofs` | same |
| `NothingIsEverLost`: `InstallationSpec => []NothingIsLost` | `GateProofs` | keys, reports, days, limits, folders |
| `OldestReportsGoFirst`: `InstallationSpec => OldestGo` | `GateProofs` | same |
| `ContractTypeCorrect`, `WithinAllowanceHolds` | `RateProofs` | keys, costs, allowances, table sizes |
| `BucketsTypeCorrect`: `Spec => []BucketsTypeOK` | `BucketsProofs` | keys, callers, allowances, periods, delays |
| `ForgottenAsStated`: `Spec => []HeldAsStated` | `BucketsProofs` | same, delays of at most a tick |
| `TablesKeepContract`: `Spec => KeepsContract` (refinement) | `BucketsProofs` | same, no delay |
| `AllowanceIsKept`: `Spec => []WithinAllowanceAndDelay` | `BucketsProofs` | same, no delay |
| `ServiceTypeCorrect`: `Spec => []TypeOK` | `ServiceProofs` | connections, requests, caps, allowances |
| `NoSlotLeaks`: `Spec => []EverySlotIsHeld` | `ServiceProofs` | same |
| `FiguresAreTrue`: `Spec => []FiguresAreTheAnswers` | `ServiceProofs` | same |
| `OnlyPermittedContacts`: `Spec => []ContactIsPermitted` | `ServiceProofs` | same |
| `HistoryTypeCorrect`: `HistorySpec => []HistoryTypeOK` | `HistoryProofs` | processes, writers, limits, faults |
| `OneWriterUnlessTwoSteal`: `HistorySpec => []OneWriterAtATime` | `HistoryProofs` | same, where stealers are alone |
| `LossIsBoundedUnlessTwoSteal`: `HistorySpec => []LossIsBounded` | `HistoryProofs` | same, where stealers are alone |
| `DaemonTypeCorrect`: `Spec => []TypeOK` | `DaemonProofs` | checks, scans, days, handshakes, versions |
| `FiguresSurvive`: `StatsSpec => []FiguresAreKept` | `DaemonProofs` | checks, codes, scans, lengths of day, files found |
| `FileOnlyGrows`: `StatsSpec => FileNeverGoesBack` | `DaemonProofs` | same |
| `AlwaysAPair`: `CertificateSpec => []ServedIsAPair` | `DaemonProofs` | handshakes, versions |
| `ServesAsTold`: `StartupSpec => []ServesAsItWasTold` | `DaemonProofs` | command lines, numbers of starts |
| `AuthorityIsQuoted`: `RevocationSpec => []RevocationIsTheAuthoritys` | `ScanProofs` | responses, lists, windows, places asked |
| `NobodyIsLed`: `RedirectsSpec => []NobodyIsLedAstray` | `ScanProofs` | hosts, domains, redirects, publications |
| `ReportsAreTrue`: `TlsSpec => []ProbeTellsTheTruth` | `ScanProofs` | machines, versions, suites, failures |
| `VerdictsAreOfFindings`: `ScanSpec => []VerdictIsOfTheFindings` | `ScanProofs` | targets, reports, chains, stores, dates, answers |
| `DialTellsTheReason`: `DialSpec => []GivesUpForAReason` | `ScanProofs` | addresses, orders, limits |
| `ScansAreTyped`: `Spec => []ScansTypeOK` | `ScanProofs` | all of the five parts |
| `BindingHolds`: `DaneSpec => []BindingIsTheRecords` | `MailProofs` | records, orders, chains, verdicts on certificates |
| `ReadsOneWay`: `StsSpec => []PolicyReadsOneWay` | `MailProofs` | lines, orders, limits on names |
| `OneSentence`: `ConversationSpec => []ResultIsOneSentence` | `MailProofs` | lines, moments they arrive at |
| `FailuresCondemnNobody`: `MailSpec => []FailureNeverCondemns` | `MailProofs` | records, policies, exchangers, limits, numbers of failures |
| `OnlyNamedAsked`: `MailSpec => []OnlyNamedAreContacted` | `MailProofs` | same |
| `LookupsAreFew`: `SpfSpec => []WalkIsBounded` | `MailProofs` | domains, records, budgets |

The gate. `OldPasswordSessionsEnd` is not inductive: it does not say who may hold
the slot. `IInv` adds that a handler is between `TakeSlot` and its answer exactly
when the slot is its (`SlotDiscipline`); hence the file cannot change between a
handler's read of it and its use of what it read (`ReadIsCurrent`); hence a
session is added under the seal in force, and no session has a seal the file has
not had (`SealsAreOld`). A process that does not run holds nothing
(`DownIsEmpty`), without which a recreated file would meet an old key. The proof
that a step keeps `IInv` has one part for the handlers and one for the table, and
under each one step per action. The size of the table is a separate invariant,
from the facts about cardinality: what a sign-in keeps has fewer than
`maxSessions` members, and one is added.

What is kept behind it. `NothingIsLost` says that everything in place opens under the
access file; that survives a crash in the middle of a new password only because what
another key sealed is moved aside before the new file exists (`AsideFirst`) and no key
is used twice (`OneKeyInUse`). `SealedWhole` counts what is owed against what is in
place and in the folders, so a move that overwrote a folder would be seen.
`OldestGo` needs the reports in the order of their numbers, and that every report the
bound is removing has as many newer ones beside it as the limit asks (`OldestFirst`).

The contract. `WithinAllowance` bounds what a key spent, but does not relate it to
what it owes. `ContractInv` adds that no key owes more than its allowance
(`Solvent`) and that the time it is whole again accounts for everything it spent
in the window (`Accounted`).

The tables. `BucketsInv` adds to the types that the timer is armed and near while
anything is held (`Timely`), that no caller is on its way for long (`OnTheWay`) and that
a bucket that is held owes something (`Owing`): what a table forgets owes nothing, so
forgetting is a stutter of the contract. `TablesKeepContract` maps each step of each
table to a step of `RateContract` or a stutter, and `AllowanceIsKept` is
`WithinAllowanceHolds` under that mapping.

The request path. Every step of a handler moves one connection from one place to
another (`Moves`); slots change by what the two places hold, and figures by what was
answered. So the counts stay the cardinalities of the sets of connections at the
places that hold a slot, and a place past a guard is reached only by a request
that the guard let through (`Cleared`).

The histories. `LocksAreHeld` says whose the mutex and the lock file are: a lock file
nobody writes under was left by a process that died, and only such a one grows old.
What is lost is paid for (`PaidFor`): the records the file lacks of those it owes (`Owed`:
what was kept and is still promised, and what a writer has appended and not answered for),
and one more while it ends in half a line, are never more than `cost`. From the decision to
trim until the new file is whole the same is said of the body the writer will leave, so a
rewrite that is cut short, by a death or by the disk, pays for the records it did not write
and for no others. Trimming costs nothing, because the record in hand is the newest and what
is still promised is among the newest of the process that trims (`InHand`).

The counters. `FiguresAreKept` is about what is in memory, shown and on disk at once;
`Honest` says the same of each, and of the snapshot on its way to the disk, which
becomes the file later and maybe on another day. `FileNeverGoesBack` needs that what is
on its way is not behind the file, nor ahead of the memory (`Growing`), and that
nothing is on its way once the last write begins (`OneWriterIsLeft`), while the file is one
this process has read or written (`~unread`).

The certificate. A handshake that has read both files goes on only with a pair
(`PairsMatch`), whatever a renewal does meanwhile.

The start. `ServesAsItWasTold` is about the moment `porchd` serves, and the rules
that decide it are several steps back, before the operator may have changed the
secret. `StartupInv` carries their result along: past the rules, a process asks for
proof exactly when a secret file was named (`AsksForProof`), because a secret that is
missing or too short is an error there and never no secret; the demonstration got
there without an access file (`DemoHasNone`); and whatever `-version` said was a
function of the flags alone (`SaidOfFlags`), so it still holds of the next start.

A scan. For revocation, what was signed is true when it is signed, and is believed
within its times only, so each word is backed by a signature whatever was shown in
between. For the walk over redirects, a host is judged before it is contacted and was
provable at some moment of the check; what a chain met last is what it is graded by.

The TLS probe. `ProbeTellsTheTruth` is about lists that are finished, and a list grows
one handshake at a time, in an order nobody fixes, while the machine behind the name may
change. `ReportTold` says of each list, at every step, what a single machine would make
true: while all that was reached is one machine, what is listed is accepted by it, what
was not listed is still to be offered (`Listed1`), and for TLS 1.3 each answer to a hello
by hand is what the machine does (`AnsweredByHand`). Nothing is claimed once a second
machine is reached, which is the case the report tells apart. The verdict is put
together in stages by several steps (`summarise`, `mergeLegacy`, `scan.go`), and
`Weighed` says at each of them which findings it has weighed so far; `ProbedFirst` puts
the stages after the versions.

The verdict of a scan. `Weighs` says of a verdict that it is one of those found and no
better than any, which each step can keep without enumerating anything, and
`WorstWeighs` that this is the worst of them. Go ranges over a map where findings are
collected, so which of two findings of a rule is kept is open; `AllIsShown` proves that it
does not matter, because a rule has one verdict. `TrustIgnoresTheClock` is proved of
every chain from the rules about who signed what.

The dialler. `InPlace` says that the list is walked from its beginning, and that what was
dialled is what may be dialled of the part behind. What a selection from a sequence
returns, and how it splits into two families, is proved place by place: `EveryNumber`
is induction over the numbers in a form the provers can use, over a set of numbers and
not over a formula.

The types of the parts of `MCScans` (`PartsInv`) are those of the five invariants, and two facts
that they do not need themselves: how far a walk has gone (`NotTooFar`) and where the look at
revocation is (`RevocationPlace`). A behaviour of the run is one of a part, and the
others stand still.

A mail check. In the middle of a run over DANE records the variables say little; the
invariant (`SoFar`) says it of the records behind: none holds, and each is shown to
fail unless something was left undetermined. The policy file is read the same way: every
key kept was found at exactly one of the lines so far (`KeysSoFar`), and every name
given so far is kept unless it is said that some were not (`NamesSoFar`). In a
conversation, the place it is at says what is known of it, and a certificate is known
only once nothing is left to read. The exchangers a scan asks are those of one list,
read before any is spoken to. In an SPF walk, what is counted is kept beside what is
asked, and the record at the bottom of the stack is the domain's own.

What a failure does. `FailureNeverCondemns` compares the end of a scan with that of one in
which every question was answered, `entire`. `FailureInv` compares them from the start,
fact by fact: each is what it would have been, or says that it is not known, and which
failure made it so (`SpfTold`, `DmarcTold`, `MxTold` and the others, together `Told`). This
is not one comparison for all facts. A policy that was read without the exchangers it is
to cover is the same policy with nobody left out (`StsTold`); an exchanger that was not
reached has nothing measured, and the binding of its certificate is what it would have been
or was not checked (`NotReached`); exchangers that could not be asked for TLSA records
make the list of hosts shorter (`DaneTold`). An SPF
policy was not read, or walked with a lookup failing, and then what was found is beside what
the whole walk found (`PolicyMissed`, by `MailAssumption`). From `Told`, each rule of `GradeMail` is shown
to find no more, by what the rule reads, and each note to say nothing that a whole
scan would not, or that the failure is why, or to be of such a walk (`OfTheWalk`).

Before a question is put, its facts are those of nobody having asked (`NotAsked`,
`PolicyNotAsked`, `NobodyAsked`), without which an answer could be laid over an older one.

Assumptions: the named `ASSUME` of each module, which TLC evaluates on the
instances, `ContractAssumption`, a hypothesis of the theorems about the
contract, and three conditions, named where they are used, each of which a run shows
to be needed or is about the scheduler of a machine:

* `StealersAreAlone`: beside a process that may die there is at most one other that
  could find its lock stale. Without it one writer at a time is false, and the run
  `history_lock` shows how.
* `NoDelay`: between reading the clock and taking the lock no tick passes, or the table
  is the gate's, which reads the clock under its lock. Without it a host is admitted
  once too often, and the run `hosts_stale_clock` shows how.
* `WithinATick`: the same with one tick, under which keys are still forgotten in time.

Among the assumptions on constants, `StatsAssumption` says of a file found at the start
that it is from the past and, where it has both, that its field at the top is no larger
than the figure by name, as every build has written it; `ScanAssumption` says of the findings
that the probe and revocation hand to a scan that a rule has one verdict, as every rule of
`policy/` does; `MailAssumption` says that the usable TLSA records
are counted by a natural number, what `Fetch` can end in, and of the walks over a sender
policy that what one with failures finds is `Beside` what the whole one finds. That is a
fact about `Spf`, which the run `checks` shows of its walks (`FailedLookupsAddNothing`) and
which is not proved: it compares two runs of the same walk.

Model-checked only:

* every liveness property (`RequestsEnd`, `StopsWhenAsked`, `PutEnds`,
  `RenewalIsServedUnlessOverlapped`): the prover has no fairness;
* `RepliesAreReadRight`: a name may be followed without end, so where it ends is a
  recursive operator (`Names!Ends`), and a module that reaches one has no theorems;
* `ChecksTypeOK`, the types of the twelve parts of `checks` at once, whose module reaches
  `Names` too (those of the five parts of `MCScans` are `ScansAreTyped`), and
  `ConsoleTypeOK` as one invariant (the gate's part is `TableIsBounded`). The invariants of
  the other parts in `GateProofs`, `DaemonProofs` and `MailProofs` hold what their own
  proofs need of the types;
* `FailedLookupsAddNothing`, on which `MailAssumption` rests;
* what the runs of section 6 refute.

Induction over data is out of the provers' reach where it needs an operator as a
parameter; over numbers it is done once, in `EveryNumber`, from the fact that a set of
numbers has a smallest member.

## 5. What is left out

* In `Service`: headers, HTML, JSON, the wording of refusals; the health, report
  and privacy pages, which change nothing. A scan's own connections are one step,
  `Run`: what it may contact is what is said there.
* In `Stats`: the columns of a check (strong, weak, ...), each of which gets the
  same one as the total.
* In `History`: `readTail`, which is reached only by histories of more than
  `maxRead` bytes.
* In `Installation`: a second process on the same directory, and dates that go
  back.
* In `Handshakes`: what the fallback, hybrid group and preference questions answer
  (they grade nothing, and are handshakes that may reach a machine), the walk over
  each address (`eachAddress`, recorded apart), alternate chains,
  `blockedDestination`, a server that answers with a suite it was not offered (it
  ends a list as silence does). A machine that refuses a hello by hand is one that
  does not accept the suite: the code cannot know this either, and asks the
  negotiated suite to calibrate.
* In `Redirects`: headers, HSTS, cookies and markup, which are one verdict chosen
  freely; the deadline, which ends a fetch or a lookup as a failure does.
* In `Dial`: the ranges of `checkAddr`, which are a field of each address.
* In `Startup`: the parsing of flags and addresses, of which a flag set keeps what a
  rule asks; the making of the access file, which is `Installation`.
* In `Lookups`: the bytes of a question. Whoever did not see the question has its
  number and casing wrong (a datagram with both right is the resolver's).
* In `Conversation`: time. A connection may end wherever a reply is awaited.
* In `Spf`: macros, and addresses, which decide no fact that is graded.
* In `MailScan`: more than one failed question in one scan in the run (`MaxFailures`; of the
  lookups inside an SPF walk any number may fail); the
  wording of notes, of which the subject is kept and whether it is settled.
* In `Certificates`: keys, extensions, constraints and serials, which are the set of
  rules a certificate breaks; X.509 itself.
* In `Revocation` and `TlsScan`: the downloads, which come to something or not;
  transparency search and standing, which grade nothing.
* Raw hellos, markup, transparency receipts, pages, `porch-scan`'s printing, scripts,
  packaging, and the refreshes of root stores and log lists: pure functions of bytes,
  cryptography over one input, or pure I/O, better served by the tests and fuzzers the
  repository has.

Remarks met on the way, without a run of their own:

* `limit.go:25` says new clients are refused when the table is full; the code
  forgets another one and admits (`ClientLimiter!MakesRoom` follows the code).
* `persistStats` says nothing is written when nothing happened; the date is part
  of what it compares, so midnight is a change.
* A client that disconnects is counted as a timeout (`httpapi.go:649`).
* A server that fails to serve leaves `run` without a last write (`main.go:626`).
* `lock.go:147`: a rewrite in place that is cut short, by the death of the process or by an
  error such as a full disk, loses the records it did not write; `LossIsBounded` has it in
  `cost`.
* `main.go:436`: a statistics file that is there and cannot be read, if only for a moment,
  is replaced by figures that began at zero; the comment says both halves of it.
* `counters.go:225`: a record that read the day before midnight and takes the lock after
  another has begun the new one sets the date back, and what today had is gone.
* `spf.go:342`: the comment there says that a failed lookup is no void one, and it is not
  counted as one; but where it keeps the walk under the limit, the walk goes on to terms
  the whole walk would not have come to, and may find void lookups there.
* `lock.go:178`: a tail cut at a line boundary loses a whole record.
* A crash while the access file is being created leaves one nobody can open; the
  operator removes it (`Installation!CreateFile`).
* A second `porchd` started after the access file was moved aside would retire the
  history of the first, since the file is made before the address is listened on
  (`main.go:312`).
* A version whose first handshake was never answered is neither supported nor
  refused, and does not withdraw strong: only versions found to be spoken do
  (`scan.go:599`).
* Where the answers for TLS 1.3 are not believed, the list is called complete and
  the accepted suites other than the negotiated one are dropped, a weak one too;
  the report says that they were not enumerated (`tls13.go:75`).
* `RevocationLine` says of itself that it is built from what `GradeStapling` grades,
  "so the sentence and the verdict cannot describe different states" (`lines.go:28`).
  Beside a list that says revoked, it may tell of a staple or a query that says good,
  because it looks no further than the first source that answered: the finding is
  there and the sentence is not about it. `RevocationIsTheAuthoritys` has the direction
  that does hold.
* Four things the notes say are not told apart from a failure: that there is no MTA-STS
  record; that there is no TLS-RPT record (`mailscan.go:399`, which says so); and, where
  some exchangers could not be asked, that no exchanger publishes DANE records
  (`policy/mail.go:842`), or that they are published for some hosts "and not for the
  rest" (`policy/mail.go:835`). A note that follows the last two says that they cover only
  who answered. `TakenForAbsence` names the four.
* An SPF policy that is included twice is asked for twice and its own terms are counted
  once (`spf.go:255`), where a receiver counts them each time: the number of lookups may
  be lower than a receiver's, and nothing says that it is a lower bound.
* A secret file cut short by a failed write is left there; every later start refuses it
  until somebody removes it, which is the safe side (`ServesAsItWasTold`).
* A redirect whose target does not answer leaves the redirect as the landing, so a
  site may be strong although no page of it was seen (`landed`, `web.go:475`).
  `StrongLeadsToTLS` therefore says answer and not page, and `StrongWasFollowed` lets
  silence count as followed.
* A plaintext chain that reaches TLS and is not followed further counts as landed
  on TLS (`web.go:190`), and one that leaves TLS for plaintext and returns is not
  told from one that stays: `viaPlaintext` stops at the first hop over TLS, and a
  secure chain is judged by its last hop.
* `interleaveFamilies` cuts before addresses are judged, so an address that may not
  be dialled uses up one of the limit's places.

## 6. Where the code and its comments disagree

* `hosts_stale_clock`. `targetlimit.go:54` says one scan per refill interval for
  ever. The clock is read before the lock, and a caller that reaches the lock late
  writes its older reading over a newer one, so the next call is owed that time
  once more. The effect is the time between the two readings, each time.
* `history_lock`. `lock.go:13` says one writer at a time. Two writers that find the
  same stale lock both remove it by name; the second removes the lock the first
  has just made.
* `history_torn`. `results.go:118` says a failure is reported. A record appended
  behind half a line is dropped with it when read, and its `Put` reported nothing.
* `missed_renewal`. `main.go:14` says the process notices a renewal. The times
  stored with a pair are read after it, so a renewal in between is taken for the
  one that was read, and is not noticed until the next. `daemon` shows that this
  is the only way to miss one (`RenewalIsServedUnlessOverlapped`).
* `undetected`. `docs/invariants.md:4542` says the scanner sets `CipherSuites`
  explicitly, so that Go's defaults cost nothing in what is detected, and
  `tlsprobe.go:284` that refused means that the server declined this version. The
  first handshake of a version sets no suites (`tlsprobe.go:394`), so a server that
  accepts TLS 1.2 or older with none but suites outside the defaults (static RSA,
  3DES, RC4) declines those suites, its version is listed as refused, and the
  enumeration, which offers all of them, is not reached. Nothing then keeps the
  verdict from being strong if another version is.

* `not_followed`. `policy/web.go:163` says that a chain not followed to its end is not one
  that ended and that nothing is called sound of it, and `webscan.go:323` that a redirect
  somewhere the scan did not follow cannot leave the report strong. Both look at
  `Unfollowed`, which `webprobe.go:508` sets, of the `Location` headers `nextURL` refuses,
  for one that is too long alone. One with another scheme, without a host or that does not
  parse ends the secure chain unmarked; the redirect itself came over TLS, so it is taken
  for where the visitor arrives, and the site is strong if nothing else is found.

## 7. Plan

The order so far: the gate and its tables, the request path, the counters and the
certificate, the history, the installation, what runs under a check of a website, and
then start-up, lookups and what a check of mail reads, certificates, revocation and the
scan that joins them.

The theorems followed the modules: first what is behind the password, then the tables and
the refinement of their contract, the request path, the histories and the daemon, and last
the checks themselves, `Told` after the parts it is made of.

What is left: a walk over a name that is a function of the number of pointers
followed, so that `RepliesAreReadRight` and with it `ChecksTypeOK` could be proved; a theorem
about two walks over the same records, for `FailedLookupsAddNothing`; the parts section 5
leaves out.
