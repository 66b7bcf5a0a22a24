# Oral-history release workbench: a TLA+ verification project

The program under `src/` takes an oral-history interview from a draft
authorization to a sealed, verifiable release package: consent is locked, a
transcript is entered and frozen, a deterministic check lists what must be
masked, an editor masks it, the subject confirms the masked text, and a second
person reviews it. This directory states what that process promises, models the
code that has to keep the promises, checks the models with TLC and proves what
matters most with TLAPS.

## 1. The system

| Component | State | Operations | Hard behaviour |
|---|---|---|---|
| dossier aggregate (`internal/domain`) | status, revision, authorization, segments, issues, confirmations, remediation rounds, reviews, package, audit chain | the eleven operations of the workflow | long legal sequences: rejections by subject and reviewer interleave with partial resolutions |
| eligibility check (`application/checker.go`) | none | `CheckEligibility` | runs once; its findings must stay about the text and consent on file |
| text redaction (`domain/redaction.go`, `extensions.go`) | none | splice fixes, scan ranges for overlap | offsets shift while fixes are spliced in; only neighbours are compared |
| release package (`internal/release`) | none | `Generate`, `Verify`, `VerifyDossierRecords` | what is recorded must be what verification recomputes |
| dossier service (`application/service.go`) | none of its own | load, check, change, save, replay | concurrent requests, retries after a lost answer, stale revisions |
| lock table (`application/locks.go`) | reference-counted mutex per dossier id | `lock`, unlock | entries are removed while others may be about to wait on them |
| store (`internal/repository`) | SQLite: payloads, child tables, idempotency records | `Create`, `Save`, `Replay`, `Migrate`, `VerifyAll` | one transaction per save; migration rewrites child rows at start-up |
| queue (`application/queue.go`) | none; a cursor held by the client | one page of the filtered, ordered list | dossiers move between pages while a client walks them |
| release verification (`application/release.go`) | none | three reads, then a comparison | unlocked reads while dossiers change |
| HTTP and browser (`internal/httpui`) | the page: the filters of its form, the cursor of its last answer | decode, route, render; submit the form, next page | answers arrive in any order; form and cursor get out of step |
| process (`cmd/oralarchive`) | where it is in its start | open the database, listen, serve, shut down | the database is migrated before the port is known to be free |

The service calls the aggregate on a copy loaded from the store, under the lock
of the dossier id, and saves the changed copy together with the answer under
the request id, in one transaction that succeeds only if the revision is still
the one loaded. A request that is refused drops its copy.


Correctness, component by component: the aggregate must publish exactly the text
its subject agreed to, under the consent that was locked, once, after somebody
else reviewed it, and its records must stay consistent with each other on the
way; the check's findings must stay findings about what is on file; the text
functions must mask what the ranges say; the service must apply each request at
most once and build only on the revision its client saw; the locks must exclude
and be handed on; a package must verify for as long as the dossier exists; a start
must put the copies in the child tables right whatever an earlier one left
behind; a walk through the queue must show what is there, once; and what the
digests are said to prove must be true, also after the storage was damaged.

## 2. Modules

| Module | Models | Extends |
|---|---|---|
| `Redaction` | text ranges, the orders a sort may leave them in, the overlap scan, splicing (`domain/redaction.go`, `extensions.go`, `confirmation.go`) | - |
| `Eligibility` | `CheckEligibility` as a function from a transcript and the allowed uses to a set of findings | - |
| `Dossier` | the aggregate, one action per accepted operation | `Redaction`, `Eligibility` |
| `Publication` | the abstract promise `Dossier` implements | - |
| `KeyedMutex` | the abstract promise of the lock table: one mutex per key | - |
| `DossierLocks` | the lock table (`application/locks.go`), step by step | instance of `KeyedMutex` |
| `Ledger` | the abstract promise of the service to its clients | - |
| `Service` | `Create` and `mutateWithBody` against the store, with retries, crashes and several processes | instances of `KeyedMutex`, `Ledger` |
| `Startup` | processes on one database file: `main`, `Open`, `Migrate`, `VerifyAll`, the reads of `VerifyRelease`, shutdown | - |
| `Queue` | `QueryQueue` with `QueryDossiers`, and the page that walks through it | - |
| `Evidence` | the audit chain, the package and what verification concludes from them, under faults of the storage | - |
| `MCDossier`, `MCService`, `MCStartup`, `MCQueue`, `MCEvidence` | instances for TLC (`DossierLocks` needs none) | |
| `RedactionProofs` | theorems about the loops over ranges and texts, for any data | `Redaction`, `TLAPS` |
| `DossierProofs`, `DossierRecordsProofs` | theorems about `Dossier`, in two parts, the second with the refinement of `Publication` and the loops | `Dossier`, `RedactionProofs`, `TLAPS` |
| `DossierLocksProofs`, `ServiceProofs`, `StartupProofs`, `QueueProofs`, `EvidenceProofs` | theorems about the module they are named for | that module, `TLAPS` |

**Dossier and the code.** The variables are the fields of `InterviewDossier`
(`entities.go`): `status`, `revision`, `audit` (the actions of the events),
`editor`, `auth` (the authorization fields as one record), `authRevisions`,
`transcript` (segment id to segment), `issues` (the key an issue's id digests,
to the issue), `confirmations`, `rounds`, `reviews`, `packages`. An action is one
request of `service.go` that is accepted: the domain method with every early
return as a guard, plus what `mutateWithBody` adds around it (terminal check,
next revision, audit event), gathered in `Mutate`. A request that fails leaves
the dossier alone, because the service drops its copy; it is a stuttering step.
`Create`, `ReviseAuthorization`, `LockConsent`, `SaveTranscript`,
`UpdateTranscript`, `FreezeTranscript`, `RunCheck`, `Resolve`, `ResolveBatch`,
`ConfirmApproved`, `ConfirmRejected`, `ReviewApproved`, `ReviewRejected` are the
operations. Clients submit what they were shown, possibly in an earlier round:
`ShownCandidates`, `ShownMaterials`, `basis`.

**Abstractions.** A digest is the value it digests. A text is a sequence of
tokens, one per rune or per word the check looks for; a candidate text is kept
as pieces (the original rune or the replacement) so that what is masked stays
visible, and `Spelled` is the text the pieces make. Dates, evidence and the
audio file are one value, `Terms`. Wording, time stamps and JSON layout are
left out.

**Loops.** `Dossier` says what the code's loops are to compute: `RangesAccepted`
compares every two ranges, `CandidateText` replaces position by position
(`Pieces`). The loops as they are written stand beside it in `Redaction`:
`NeighboursOverlap` scans a sorted batch, `Splicing` gives the text after each fix in
descending order. `sort.Slice` is not stable, so an order (`Ascending`,
`Descending`) is any arrangement that is sorted by the start offset. `ScanIsExact`
and `SplicesSpellPieces` say that the two agree in every state, for every batch a
client may send there and every outcome of the sort; the second also that
`CandidateText` never takes its error return. The model's other comparisons of all
pairs (`TimelineFits`, `ExceptionsAccepted`) stand for the same scan in
`validateTimeline` and `validateConfirmationExceptions`.

**Exceptions.** A confirmation may restrict parts of the masked text
(`validateConfirmationExceptions`). `ExceptionsAccepted` is that check: the
segment exists, the range lies in the *masked* text, no two overlap, and the use
was authorized; `ExceptionsFit` says that what a dossier keeps with its last
confirmation still fits the text it publishes.

**Publication.** The abstract dossier has a stage, a consent, a text and what is
published. Its actions say: consent changes only while it is being given; the
text changes only while editing; what is offered is what was edited; only an
offered text is agreed to; only the agreed text is published, with the consent
on file, once. `Dossier` implements it (`ImplementsPublication`) under the
mapping `P`: statuses to stages, the candidate text to the text.

**Service and the code.** `log` and `receipts` are the database: a dossier is
the sequence of requests that made it (its revision is their number), and
`receipts` is the table `idempotency`. `pc`, `call`, `copy` and `outcome` are the
local state of a handler, `holder` the lock tables of the processes; a crash
loses them. `answered` is history: what clients were told. The stages are the
accesses of `mutateWithBody` in their order: `Lock`, `ReplayKnown` or `ReplayNew`
(the search for an earlier answer, then `validateMeta`), `Load` (with
`EnsureMutable` and `CheckRevision`), `Save` (the guarded update and the insert
of the answer, one transaction), `Unlock` (deferred), `Reply` or `LoseReply`.
`Create` is the same path without the load. `Fail` stands for every other error
return, which has one effect: nothing is stored and the lock is given back. What
a request does to the dossier is the business of `Dossier`: it takes the accepted
requests one at a time, which `ImplementsLedger` says is what the service makes
of concurrent ones. Dossier ids come spelled (`Keys`) and trimmed (`Cleaned`),
because `Create` locks the id as it was sent and stores it trimmed.

**DossierLocks and the code.** `items`, `users` and `owner` are the map, the
counts and the mutexes of the entries. What runs under `l.mu` is one step
(`Join`, `Depart`); taking and releasing the mutex of an entry (`Enter`, `Leave`)
are steps of their own, because another request may come between. `Refs` is the
heap: an entry nothing refers to may be made again for another id.

**Startup and the code.** A dossier is stored as a payload; the child tables and
the columns of the queue are copies of parts of it. A copy is told by what it
was made from (`Copy`: the revision, and whether it was the seal), since the
payloads of one dossier are one line of revisions. `payload`, `rows`, `columns`
and `added` (how many of the four columns `ensureColumn` adds are there) are the
file. `phase` and `at` are where a process is in `main` and in the loops of
`Migrate` and `VerifyAll`, `listed` is what `List` returned to it, `exit` how it
ended, `check` and `report` the request that proves a release. Every statement
outside a transaction and every transaction is a step: another process can come
between the look for a column and the `ALTER TABLE`, and between the read of all
payloads and the rewriting of each dossier's rows. An address is free as soon as
its process no longer serves: a shutdown closes the listener first, and another
process may listen while this one drains. `Crash` ends a process at any
point; `Busy` is a write refused because the file is locked. `alone` is history:
nothing else has run since this start.

**Queue and the code.** `updated` and `class` are what a filter and the order see
of a dossier, `form` and `page` what the page in the browser keeps
(`state.filters`, and the answer it shows with `state.cursor`), `flights` the
requests and answers under way, which `loadList` does not wait for and which
arrive in any order. `Serve` is `QueryQueue`: the cursor is checked against the
filters and against the place its dossier has now, then the page is cut out of
the list. A time is a number of hundredths of a second and `Text` its place in
the order of the texts RFC3339Nano writes: trailing zeros are dropped, and the
`Z` that follows sorts after digits and point. `version`, `of` in a cursor and
`walk` are history: the versions when the walk began, the update under which it
has shown each dossier, and what it has shown again under which other one. In
`Serve` a `\E` over a set of one value names that value.

**Evidence and the code.** `contents`, `audit` and `package` are a payload,
`auditRows` and `packageRow` the rows of `audit_events` and `release_packages`.
The parts of the contents include the id the payload itself gives its dossier,
which may be damaged; `StoredId` is the key of its row. A package has, besides
what is released, the fields that repeat the manifest (among them the `stamp`:
`manifest_version` and `approved_at`) and an id of its own. `Row` is what a save
writes: its dossier column is the key, so that what the package says of it is not
copied. A digest is the tuple of what is digested, so two inputs with one digest
do not exist and a fault cannot compute a digest it has not seen. (The code
digests the fields of an event joined by `|`, and the name of an actor is free
text, so an event whose action and actor are split at another place has the same
digest; the model does not tell the two apart, having one `body` for both.) `Change` and `Seal`
are a save, `Start` is `Migrate` and `VerifyAll` of this dossier, `Damage*` change
one value, event or row of what is stored. `AppendAudit`, `VerifyAudit`,
`RowsAgree`, `Generate`, `Verify`, `ComponentAgrees` and `ReportValid` are the
functions of the code, field by field. `recorded` and `original` are history:
the events that were really appended, and the dossier as it was sealed.

`Startup` and `Evidence` look at the same rows from two sides: `Startup` at which
payload they are a copy of while processes interleave, `Evidence` at what is in
them when only one process runs and the disk does not keep what it was given.

**Faults.** A definition named `D_Fault` is `D` with a fault that a change of the
code could introduce (a dropped guard, an off-by-one, a missing reset, a swapped
order). No action uses it. Repeating a run with `D_Fault` in the place of `D`
makes TLC report the property that `PROJECT.json` names with it ("mutants"), so
every property is known to notice a bug.

## 3. Runs

| Run | Question | Bounds |
|---|---|---|
| `life` | Can a consent or a transcript change under what was built on it; do the decisions of subject and reviewer always concern the text they were shown; do rounds, issues, records and status agree; does the package verify; does the dossier implement `Publication`? | five transcripts (overlapping, blank speaker, out of order, clean, a blocker with a warning), two uses, two terms: every start of a dossier up to revision 7 (`LifeScope`), and from there the review cycles of one of them with two fixes, up to 12 revisions. Creation to review takes 7, a rejected review 1, and 4 more reach the second review, so a full second remediation round is inside. Two people: nothing tells them apart but being the same |
| `ranges` | Can any order of fixes, valid or invalid, leave two masks or two exceptions that collide or lie outside the text; does scanning neighbours find every overlap; does splicing from the last fix to the first spell the masked text? | three identifiers in one segment, or one next to a plain token; every range of up to three tokens and some that must be refused, an empty and a longer replacement; five exceptions; 8 revisions reach a rejection and the resolution after it. A scan that is wrong about two neighbours or about non-neighbours needs three ranges at most |
| `stuck` (violation) | Can the subject always answer? | up to the first rejected review |
| `boxed` (violation) | Can the editor always go on with remediation? | one segment with two blockers, two fixes; up to the first batch |
| `locks` | Can an entry be dropped while somebody waits for it, or stay for ever; is the table one mutex per id? | three requests, two ids, four entries: two users of one entry and a third that makes a new one, plus an entry for the other id; four entries are one more than three requests can refer to |
| `one_process` | Does the lock keep a loaded copy current; is a retry told its own answer and never a conflict; does every request end? | one process, three handlers, the life of one dossier in two changes (two rival creations under two spellings, one seal), each request sent any number of times |
| `two_processes` | Are requests applied once, on the revision they name, never after the seal, when the locks do not help? | two processes with one handler each; nine requests: rival creations, edits and a seal at one revision, one id for two revisions and one for a creation and an edit, an edit after the seal, a request without id, one for a spelling that is not stored |
| `reuse` (violation) | Is an answer always about the dossier that was asked for? | two dossiers, one handler |
| `startup` | Does a start put right whatever crashes, old schemas and other processes left; is it refused without cause; does it prove its releases; does it end? | two processes told one address, one dossier, revision 2 (a draft and its seal), 3 starts: the third is alone after two have disturbed each other; schemas without a column, without the last, and complete |
| `twice` (violation) | Can a release be verified whoever else has started? | two processes, two starts, a complete schema |
| `queue` | Does a walk skip a dossier that stayed put, or show it twice; when does it show one again that changed; is a cursor refused without cause; does a walk end? | three dossiers, the fewest of which a walk can show one again (the dossier of the cursor may not change), one of them created or changed on the way; two filters, with pages of one and of two; two decimals of base 2 and times up to 4 hundredths, which is one second and the first instant of the next; two requests under way, one of which may be a new submission: the least for answers that overtake each other |
| `faults` | Which damage do the chain, the package and the report notice, and whom do they blame? | two events, two approvals (stamp and id of a package) and two faults: two are the least that could cancel out, in the payload and in its copy, or in a value and its digest |

`startup` and `queue` are small because processes and requests multiply; what
they show of safety is proved for every size (see 6).

The service runs need no bound on the number of steps: a request id is used for
one change, so the ids bound the logs, and retries and crashes go on for ever.
Three requests, and for the locks three goroutines, are the least number that
shows overtaking and a user who arrives between two others.

Deadlock is not checked in the dossier runs because the dossier does stop there:
a sealed dossier accepts nothing (that is what sealing is for), the findings of
`stuck` and `boxed` are states without operations, and `MaxRevision` ends every
behaviour. In
`startup`, `queue` and `faults` everything may come to rest: all starts are used
up, the client has its last page, the dossier is refused.

The symmetry of `People` is sound for `life` and `ranges`: their invariants and
action properties do not name a person, and they check no liveness.

Each type invariant but that of `Dossier` is left to the proofs.

## 4. What the runs show

The passing runs show, on their instances, that:

- the subject's last word on a reviewed or sealed text is a yes to exactly that
  text (`ReviewedTextIsConfirmed`), and the dossier implements `Publication`;
- status and issues agree (`StatusMatchesIssues`), rounds follow one another and
  resolutions are attributed to the right one (`RoundsInOrder`), and a decision,
  the subject's or the reviewer's, reopens exactly the issues it names
  (`OnlyNamedIssuesReopen`). That there is an open issue in remediation does not
  mean that it can be resolved: see `boxed`;
- fixes in force never collide or leave their text (`FixesFit`), however ranges
  are edited and issues reopened; what is published for an issue is its last
  recorded resolution (`HistoryMatchesFix`), and what the subject restricted lies
  inside the masked text (`ExceptionsFit`);
- the scan over neighbours refuses exactly the overlaps (`ScanIsExact`), and
  splicing is never refused and spells the masked text (`SplicesSpellPieces`);
- past records are never rewritten (`RecordsOnlyGrow`), authorization revisions replay
  (`AuthorizationReplays`), and a sealed package verifies
  (`SealedPackageVerifies`);
- the findings on file are those the check reports for the text and consent on
  file (`FindingsStand`), because neither can change any more (`FrozenParts`);
- a process locks a dossier for one request at a time although entries of the
  table come and go (`MutualExclusion`, `ImplementsKeyedMutex`), the table holds
  only what is in use (`TableHoldsUsersOnly`), and nobody waits for ever
  (`EveryoneEnters`);
- within one process a loaded copy is current until it is saved
  (`LockedCopiesAreCurrent`), a retry of a request that took effect is never told
  of a conflict (`RetriesAreRecognised`), and every request ends
  (`RequestsEnd`);
- with two processes on one file, where these locks protect nothing, the
  service still implements `Ledger`, which includes that a seal is final, and
  answers and changes are on record together (`ReceiptsMatchLog`);
- a start that has the file for itself is never refused (`LoneStartsSucceed`),
  serves from copies that equal the payloads (`RecordsAreCurrent`) and proves its
  releases (`LoneReleasesVerify`), whatever was left behind; starts and shutdowns
  end whoever else runs (`StartsEnd`);
- a finished walk through the queue has shown everything that matched and did
  not change (`WalksAreComplete`), none of it twice (`NothingTwice`); what changed is
  shown again only if it was updated within the second of the time it was shown
  under (`RepeatsStayInTheirSecond`); a cursor is
  refused only for a reason (`RefusalsAreExplained`), and a client that waits for
  its answers comes to the end or is told to begin again (`WalksEnd`; changes come to
  an end in the run, so what is checked there is that the cursor advances);
- a chain that verifies has only events that were recorded
  (`AcceptedEventsAreRecorded`), a valid report hides no damage to
  what it compares (`ValidReportsAreTrue`), a package a view calls valid is the
  sealed one but for its own stamp and id (`ValidPackageIsAuthentic`), a report
  blames only what was damaged (`BlameIsExact`), and a start with a report covers
  the whole history and all of package and row, but for the id of the package and
  the dossier the payload's package names (`StartAndReportProveAll`).

The violation runs show four disagreements with the repository's own words;
`PROJECT.json` quotes the lines ("findings"):

- `stuck`: resolving the last blocker leaves remediation even when the active
  round has an open warning; then the confirmation refuses every answer and
  remediation is over. The dossier accepts nothing any more. Only a warning does
  it (`OnlyWarningsStop`).
- `boxed`: a range may be as long as its segment, and every fix in force counts
  against those that follow. A fix over the whole segment leaves no range for the
  other open issues of that segment; a blocker among them keeps the dossier in
  remediation, a resolved issue cannot be taken up again, and nothing is accepted
  any more. An issue is shut out exactly if the fixes in force leave no rune of its
  segment in the clear (`OnlyMaskedSegmentsStop`).
- `reuse`: the fingerprint of a request digests its action and its input, not the
  dossier in its path. An id used again with the same fields and revision on
  another dossier is answered with the first dossier, and nothing is changed.
  Only such a pair of requests does it (`AnswersAreAboutTheRequest`).
- `twice`: a server started a second time rewrites child rows from payloads it
  read before, and can delete the package row of a dossier sealed in between; it
  does so although its port is taken and it will exit.

Met while modelling, and not run because no line of the repository says
otherwise:

- a text on which no issue was resolved can only be approved: a rejection has to
  name a resolved issue (`service.go:156`);
- the name of a reviewer is compared as it was typed with that of the editor, which
  was trimmed when it was stored (`review.go:49`): the editor passes as another
  person by typing a space after the own name. Only padding passes
  (`OnlyPaddingDeceives`);
- a package whose own `manifest_version` or `approved_at` is not that of its manifest
  is valid for a view: `Verify` compares neither, and the content digest covers
  neither (`generator.go:60-79`). The report, which rebuilds the manifest from both
  (`verification.go:45`), does notice;
- a start that meets another one between the look for a column and the
  `ALTER TABLE` is refused with "duplicate column"; the next one succeeds;
- the range of a resolution is free, so that the flagged words may survive it
  (`extensions.go:353`); no operation checks a text again after its fixes;
- a start that overlaps the saves of another process can be refused with the
  message that the audit chain is damaged, although nothing is: the rows and the
  payload were read at different times;
- within one second the list is in the order of texts, not of times (a time with
  fewer decimals sorts after one with more), so that a dossier changed during a
  walk may land behind the cursor and be shown again; `NothingTwice` is about
  dossiers that did not change, `RepeatsStayInTheirSecond` about those that did;
- the page can send the filters of a new form with the cursor of the old answer
  (`app.js:8`); the service refuses it, and the user has to submit again;
- a report does not run `VerifyAudit`: an event edited in the middle of a sealed
  chain is found at the next start only, which is then refused;
- of the payload's package, a report does not compare manifest, text and consent;
  damaged there, they reach the row at the next start, and the report after it
  tells (`StartAndReportProveAll`);
- no digest covers the time of an event, the id of the package and the editor; the
  dossier the payload's package names is compared by `Verify`, thus by a view, and
  by no report; and what was damaged before the seal is sealed in.

## 5. Fairness

`DossierLocks`, `Service`, `Startup` and `Queue` have liveness.

- Taking a lock is strongly fair (`SF` of `Enter`, `Lock`): whether the lock is
  free flickers while others hold it, and Go's `sync.Mutex` hands it to a waiter
  that has waited for a millisecond (its starvation mode), so a waiter is not
  overtaken for ever.
- The steps of a handler are weakly fair: goroutines are scheduled, and the
  database answers, with an error if need be (`Fail` is one of the ways a step
  may end).
- A process that runs goes on running (weak fairness of `Starting`, `Verifying`,
  `Drained` in `Startup`): its loops are sequential code. Starting one, stopping
  one and a locked file are not fair.
- The service answers, the answers arrive, and the client walks on (weak fairness
  of `Serve`, `Arrive`, `NextPage` in `Queue`). That a user presses "next" again is
  no property of the code; `WalksEnd` is about a user who does, and who waits for
  the answer first.
- Sending a request, changing a dossier, losing an answer and crashing are not
  fair; they may happen at any time or never. A crash ends the requests of its
  process.

## 6. What is proved

TLAPS checks these for every value of the constants: any number of people,
texts, fixes, requests, handlers, processes.

**Dossier, safety.** In `DossierProofs`: `TypeCorrect`, `SubjectAgreed`, `StatusIsRight`, `FixesNeverCollide`, `HistoryIsTrue`, `PackagesVerify`,
`EveryChangeIsAudited`, `ConsentIsTraceable`, `FindingsAreAbout` and
`FrozenStays`. The invariant is `DossierInv`. Most of its parts are inductive
next to `TypeOK`; `FixesFit` and `AuthorizationReplays` also need `NothingEarly`: while
a transcript can still change there are no issues, so that no fix is left with
a range in a text that is gone. The steps are grouped by what they do to the
issues: `ResolveStep` (a resolution checks its ranges against every fix in
force), `ReopeningResolvesNothing` (a rejection takes fixes out of force and
changes none), `AuthoringResolvesNothing`. `SubjectAgreed` follows because
review is entered only by a yes to the current candidate, and until it ends
neither the candidate (`CandidateStays`) nor the confirmations change.
`PackagesVerify` is where the order inside an approval matters: its audit event
and its review are on file before the package is generated, and nothing follows.
Assumed: `DossierAssumption`, the shapes of what clients may submit, offsets
being any integers.

**Dossier, records.** `DossierRecordsProofs` adds `TranscriptStaysOneTimeline`,
`ExceptionsFitWhatIsPublished`, `RoundsFollowEachOther`, `NothingOnFileIsRewritten`,
`ReopeningIsDecided` and `DossierPublishes`. Its invariant `RecordsInv` is `DossierInv`
with six more parts: an absent dossier has no records (`NothingRecorded`), the
transcript is one timeline (`TranscriptWellFormed`), the exceptions of the last
confirmation fit the text under review and the sealed one
(`ReviewedExceptionsFit`, `ExceptionsFit`), rounds follow one another
(`RoundsInOrder`), and while the last round is one that was approved the dossier is
with the reviewer or sealed (`ApprovedRoundIsReviewed`): only a rejected review
leads from there to new resolutions, and it opens a round of its own. `ReopeningIsDecided` is exact
for both decisions: what is no longer resolved after a step is what the rejection
that step appended names (`ReopenedAreNamed`). `DossierPublishes` is the
refinement: the initial states map to initial states (`PublicationInit`), and
every step to a step of `Publication` (`PublicationStep`) or to a stutter
(`PublicationStutter`); the invariant supplies that what a reviewer seals is what
the subject agreed to.

`OnlyWarningsStop` marks out the finding of `stuck`: a dossier that waits for its
confirmation with an incomplete round has only open timeline gaps in the way
(`OnlyGapsAreInTheWay`). A round over blockers alone cannot bring it about, because a
blocker keeps the dossier in remediation (`StatusMatchesIssues`), and the issues of
the round are all on file (`RoundsInOrder`). `OnlyMaskedSegmentsStop` does the same for `boxed`: in
remediation an open issue has a range that `ResolveIssues` accepts exactly if some rune
of its segment lies in no fix in force. A rune in the clear can be the range, since
`RangesAccepted` sees the earlier fixes, which fit already (`FixesFit`), and this one
(`OneMore`); and a range has to take a rune. `OnlyPaddingDeceives` is about the names: whoever seals a dossier under a trimmed name is not its editor. Its
invariant `EditorInv` is small: the editor is on file trimmed (`EditorIsClean`), and
a package is there only once nothing can happen any more, by an identity other
than the one on file (`ReviewerDiffers`).

**Texts and ranges.** `RedactionProofs` is about data alone, for texts, fixes and
batches of any size. `ScanFindsOverlaps`: once sorted, a range that reaches a later
one reaches its neighbour. `LoopSpellsPieces`: the invariant of the loop is that up
to the start `q` of the last fix spliced in, the text is still the original one,
and that what follows `q` is what the pieces after `q` spell (`SpliceStep`,
`PieceAt`, `RunsSpell`); fixes that do not overlap lie, in descending order, each
before the last, so every splice is inside what is still original. `SortsEnd`
shows that a sorted order exists, by insertion. Recursive functions get their
equations from `SplicingSteps` and `SpelledSteps`, which build the function number by
number. `DossierRecordsProofs` applies this to the reachable states:
`ScansAreExact` and `SplicesAreRight` follow from `FixesFit`, the types, and
`IssuesAreFinite` (the issues on file are findings, and those are finitely many per
segment).

The induction theorems of the library take an operator as a parameter, which the
installed provers cannot instantiate. The inductions here go without: a nonempty
set of numbers has a least element (`LeastElement`, from the well-founded order of
the naturals), so a set that holds 0 and with each number the next holds all up
to any bound (`AllGood`).

**Lock table.** `Exclusion`, `TableIsExact`, `LocksTypeCorrect` and
`TableIsKeyedMutex`. The invariant `LocksInv` says that the count of an entry is
the number of goroutines that refer to it, that an entry with a user is in the
table under the id of each user, and that who is inside owns the mutex of the
entry. Two goroutines inside with one id have the same entry, hence the same
owner. Counting takes the cardinality theorems of the library, so `LocksAssumption`
asks for finitely many goroutines.

**Service.** `ServiceTypeCorrect`, `AppliedOnce`, `SealsHold`, `ServiceIsLedger`.
The invariant `ServiceInv` does not mention a lock: the locks belong to one
process, and the theorems hold for any number of processes. A copy in hand
stays a prefix of what is stored, since only `Save` changes a dossier and it
appends; so at equal length the two are equal, and the checks made on the copy
hold for what is stored. A receipt is written with its change and never again,
so ids and changes match one to one. `ServiceIsLedger` assumes
`RequestsAreDistinct`: two requests with one id and one fingerprint are for one
dossier. The browser draws ids at random, so its requests are; for other clients
the run `reuse` shows what happens without it, and `AnswersAreAboutTheRequest` that
under it no answer is about another dossier: what is on record under an id
was asked for by a request with that fingerprint (`ReceiptHasOrigin`).
`ServiceAssumption` says that
trimming a trimmed id changes nothing and that a creation sends no revision.
`CopiesStayCurrent` and `RetriesGetTheirAnswer` are about one process and do need
its locks: `LocksInv` adds to `ServiceInv`, for every handler, that it holds its lock
from taking it to giving it back, that the copy it is about to save is what is
stored, and that a request it has found to be new is not in the dossier yet
(`LockPart`). Two handlers that mutate one
dossier have locked the same id; a creation may have locked another spelling, but
it saves only where there is no dossier. They assume a finite set `Instances`, for
the cardinality in "there is one process".

**Startup.** `StartupTypeCorrect`, `RowsFollowPayloads`, `NotRefused` and
`ReleasesProved`, for any number of processes, dossiers, revisions and starts. The
invariant `StartupInv` is the shape of the state and, for a process that has been
alone since it started, its progress (`Undisturbed`): the columns its loop has
passed exist, the copies of the dossiers it has passed equal the payloads, what
was listed is what is stored. Nothing is said of a process that is not alone,
because then nothing holds (`twice`).

**Queue.** `QueueTypeCorrect`, `NothingIsMissed`, `NothingIsRepeated`,
`NoneRefusedWithoutCause` and `RepeatsAreOfOneSecond`, for any number of dossiers,
filters, changes and requests. The invariant `QueueInv` says of the page and of every request
and answer under way (`FlightHolds`) that the dossier of its cursor, unless it has
changed, is where the cursor says, and that of the dossiers that have not changed
the walk behind it has shown those up to the cursor and none beyond. A page extends it because a page is the least elements of the rest in a linear order
(`PagesHaveNoGaps`). For `RepeatsAreOfOneSecond` it also says that what the walk
has shown does not lie after the cursor (`ShownBehind`), and was shown under a time no
later than the one it has now (`ShownBefore`). A dossier on the next page lies after
the cursor; if it was shown before, its later time is thus sorted as an earlier one,
and the order of the texts does that within a second only (`ShownStoodFirst`,
`SecondsGrow`).

**Evidence.** `EvidenceTypeCorrect`, `AcceptedChainsWereRecorded`,
`ReportsTellTheTruth`, `ViewsTellTheTruth`, `StartAndReportAreProof` and
`ReportsBlameTheDamaged`, for any values, chains and number of faults. `EvidenceAssumption` says that what a dossier is made
of names the dossier under whose id it is stored; only a fault changes that. The invariant
`EvidenceInv` is the type invariant, which says where digests can come from, and that
the package as sealed was generated from the contents as sealed under `StoredId`
(`WasGenerated`). What is compared with a digest is then what was
digested, however many other values are wrong. `ViewsTellTheTruth` excepts what no
comparison of a view reaches: the stamp and the id.
`StartAndReportAreProof` needs `StartInv`: while no fault follows a start the rows
are the payload's and the chain is one `VerifyAudit` accepts, if the payload
names its own dossier (`FreshIsSound`), which
`AppendAudit` keeps (`AppendKeepsChain`). Two chains that both verify and end in one
digest have one length and the same events: the last place in which they differ
would have two events under one digest (`HeadDeterminesLength`,
`HeadDeterminesChain`). `ReportsBlameTheDamaged` needs `SingleFault`: with one fault the
contents are off, or the chain and its rows, or the package and its row, and the
rest is as it was sealed, through any starts in between, which copy the fault to
the rows or undo it there.

**Only model-checked.** Liveness (`EveryoneEnters`, `RequestsEnd`, `StartsEnd`,
`WalksEnd`), which is out of the prover's reach, and what the violation runs show.
Every invariant and every other property of a passing run is a theorem.

## 7. What is not modelled

- Decoding, routing and rendering (`internal/httpui`), and of the page in the
  browser everything but its list: pure input and output; what they hand on are
  the requests `Dossier`, `Service` and `Queue` take.
- The reads of the service (`Get`, the views, the preflight of a transcript): they
  change nothing. What a view says of a package is `Verify` in `Evidence`.
- The statistics of the queue and the parsing of its dates: functions of one
  answer, without state.
- The self-check mode of the process (`main.go`): one fixed sequence of requests on
  a database of its own.
- Formats of dates, evidence and audio: one value, `Terms`, since the code only
  validates and digests them.
- The wording of errors, canonical JSON and the arithmetic of SHA-256: a digest is
  what it digests.
- The child tables besides `audit_events` and `release_packages`: they are written
  and never read back, but for the count of open blockers in the list.

What remains to be done: a composition of `Service` with `Startup`, so that the
requests of one process and the start of another are seen in one model (now
`Startup` has a save as one step, which `Service` shows it to be); and the browser's
request ids, which are drawn anew for a retry by hand.
