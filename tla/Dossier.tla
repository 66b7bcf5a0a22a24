------------------------------- MODULE Dossier -------------------------------
(***************************************************************************)
(* One interview dossier (internal/domain): the aggregate every operation  *)
(* of the service loads, changes and saves as a whole.  An action is one   *)
(* accepted request: the domain method together with what the service adds *)
(* around it (mutateWithBody in internal/application/service.go): the      *)
(* terminal check, the next revision, the audit event.  A refused request  *)
(* changes nothing, because the loaded copy is dropped; it is a stutter.   *)
(* Requests are taken one at a time here, as the lock and the revision     *)
(* check of the service make them.                                         *)
(*                                                                         *)
(* A digest is modelled by what is digested: two digests are equal exactly *)
(* when the digested values are.                                           *)
(*                                                                         *)
(* A definition named D_Fault is D with a fault a change of the code could *)
(* introduce.  No action uses it; the project's runs are repeated with it  *)
(* in the place of D, to see that the properties notice.                   *)
(***************************************************************************)
EXTENDS Redaction, Eligibility

CONSTANTS People,        \* the names of editors and reviewers
          Terms,         \* subject, audio, dates and evidence, as one value
          Replacements,  \* the texts that may replace a masked range
          Submissions,   \* the transcripts a client may submit
          Fixes,         \* the fixes a client may submit
          Exceptions,    \* the exceptions a subject may make
          MaxRevision    \* bound of the model on the number of operations

ASSUME DossierAssumption ==
  /\ Replacements \subseteq Seq(Token) \ {<<>>}
  /\ Submissions \subseteq Transcript
  /\ Fixes \subseteq [start : Int, end : Int, repl : Replacements \cup {<<>>}]
  /\ Exceptions \subseteq [seg : SegmentIds, start : Int, end : Int, use : Uses]
  /\ MaxRevision \in Nat

VARIABLES status,         \* of the dossier; "absent" before it is created
          revision,       \* d.Revision
          audit,          \* the actions of the audit events, in order
          editor,         \* d.EditorID
          auth,           \* the authorization fields
          authRevisions,  \* d.AuthorizationRevisions
          transcript,     \* d.Segments
          issues,         \* d.Issues, by the key their id digests
          confirmations,  \* d.Confirmations
          rounds,         \* d.RemediationRounds
          reviews,        \* d.Reviews
          packages        \* d.Package: none, or one

consentVars == <<editor, auth, authRevisions>>
decisionVars == <<confirmations, rounds, reviews>>
dossierVars == <<status, revision, audit, consentVars, transcript, issues,
                 decisionVars, packages>>

-----------------------------------------------------------------------------
(***************************************************************************)
(* The data of a dossier.                                                  *)
(***************************************************************************)
Statuses == {"absent", "draft", "consent_locked", "transcript_frozen",
             "remediation", "awaiting_confirmation", "awaiting_review",
             "sealed"}

Operations == {"dossier_created", "revise_authorization", "lock_consent",
               "save_transcript", "update_transcript", "freeze_transcript",
               "run_check", "resolve_issue", "resolve_issues_batch",
               "subject_confirmation", "review_approved", "review_rejected"}

Decisions == {"approved", "rejected"}

\* An identity as a client types it; Clean drops the padding.
Identity == [name : People, padded : BOOLEAN]
Clean(who) == [name |-> who.name, padded |-> FALSE]

\* NormalizeUses sorts the uses and drops doubles and blanks: a set, and the
\* validation wants it nonempty.
Authorization == [uses : SUBSET Uses \ {{}}, terms : Terms]

NoIdentity == [name |-> "", padded |-> FALSE]
NoAuthorization == [uses |-> {}, terms |-> ""]

Issue == [status  : {"open", "resolved"},
          start   : Nat,
          end     : Nat,
          repl    : Seq(Token),
          round   : Nat,
          history : Seq([round : Nat, repl : Replacements])]

\* The text of a dossier as it would be published, segment by segment.
Candidate == [SegmentIds -> Seq(Seq(Token))]

Digest(candidate) == [id \in SegmentIds |-> Spelled(candidate[id])]

-----------------------------------------------------------------------------
(***************************************************************************)
(* Issues and the candidate text.                                          *)
(***************************************************************************)
Resolved(is) == {k \in DOMAIN is : is[k].status = "resolved"}
Open(is) == {k \in DOMAIN is : is[k].status = "open"}

HasOpenBlockers(is) == \E k \in Open(is) : IsBlocker(k)

FixOf(is, k) ==
  [start |-> is[k].start, end |-> is[k].end, repl |-> is[k].repl]

RangeOf(f) == [start |-> f.start, end |-> f.end]

CandidateText(t, is) ==
  [id \in SegmentIds |->
     Pieces(t[id].text,
            {FixOf(is, k) : k \in {r \in Resolved(is) : r.seg = id}})]

CurrentCandidate == CandidateText(transcript, issues)

LatestConfirmation == confirmations[Len(confirmations)]
LatestReview == reviews[Len(reviews)]

-----------------------------------------------------------------------------
(***************************************************************************)
(* What every operation on an existing dossier does around its change:     *)
(* EnsureMutable, Advance and AppendAudit.                                 *)
(***************************************************************************)
\* The events mutateWithBody appends after the change; the approval has
\* appended its own, before the package was generated.
ServiceEvent_Always(operation) == <<operation>>
ServiceEvent(operation) ==
  IF operation = "review_approved" THEN <<>> ELSE <<operation>>

\* The events on file once the change itself is made.
AuditOfChange(operation) ==
  IF operation = "review_approved" THEN Append(audit, operation) ELSE audit

Mutate(operation) ==
  /\ status \notin {"absent", "sealed"}
  /\ revision < MaxRevision
  /\ revision' = revision + 1
  /\ audit' = AuditOfChange(operation) \o ServiceEvent(operation)

-----------------------------------------------------------------------------
(***************************************************************************)
(* Authoring: consent, transcript, check.                                  *)
(***************************************************************************)
Init ==
  /\ status = "absent"
  /\ revision = 0
  /\ audit = <<>>
  /\ editor = NoIdentity
  /\ auth = NoAuthorization
  /\ authRevisions = <<>>
  /\ transcript = [id \in SegmentIds |-> NoSegment]
  /\ issues = [k \in {} |-> {}]
  /\ confirmations = <<>>
  /\ rounds = <<>>
  /\ reviews = <<>>
  /\ packages = {}

Create(who, granted) ==
  /\ status = "absent"
  /\ revision < MaxRevision
  /\ status' = "draft"
  /\ revision' = 1
  /\ audit' = <<"dossier_created">>
  /\ editor' = Clean(who)
  /\ auth' = granted
  /\ UNCHANGED <<authRevisions, transcript, issues, decisionVars, packages>>

AuthorizationIsOpen_Late == status \in {"draft", "consent_locked"}
AuthorizationIsOpen == status = "draft"

\* The record of a revision, by the digests before and after.
AuthorizationRevision_TakenLate(granted) == [before |-> granted, after |-> granted]
AuthorizationRevision(granted) == [before |-> auth, after |-> granted]

ReviseAuthorization(granted) ==
  /\ AuthorizationIsOpen
  /\ granted # auth
  /\ auth' = granted
  /\ authRevisions' = Append(authRevisions, AuthorizationRevision(granted))
  /\ Mutate("revise_authorization")
  /\ UNCHANGED <<status, editor, transcript, issues, decisionVars, packages>>

LockConsent ==
  /\ status = "draft"
  /\ auth.uses # {}
  /\ status' = "consent_locked"
  /\ Mutate("lock_consent")
  /\ UNCHANGED <<consentVars, transcript, issues, decisionVars, packages>>

\* ValidateSegments and validateTimeline on the times: increasing and free of
\* overlap.
TimelineFits(t) ==
  /\ Present(t) # {}
  /\ \A id \in Present(t) : 0 <= t[id].start /\ t[id].start < t[id].end
  /\ \A a, b \in Present(t) : a # b => ~Overlap(t[a], t[b])

\* ReplaceSegments declares the speakers the client left blank.
Declared(t) ==
  [id \in SegmentIds |->
     IF id \in Present(t) /\ t[id].speaker = Blank
       THEN [t[id] EXCEPT !.speaker = Undeclared]
       ELSE t[id]]

TranscriptIsOpen_Late == status \in {"consent_locked", "remediation"}
TranscriptIsOpen == status = "consent_locked"

SaveTranscript(t) ==
  /\ TranscriptIsOpen
  /\ TimelineFits(t)
  /\ transcript' = Declared(t)
  /\ Mutate("save_transcript")
  /\ UNCHANGED <<status, consentVars, issues, decisionVars, packages>>

\* MergeTranscriptOperations: put adds or replaces segments, drop deletes
\* some that are there; no segment is named twice.
Merged(put, drop, t) ==
  [id \in SegmentIds |-> IF id \in drop THEN NoSegment
                         ELSE IF id \in put THEN t[id]
                         ELSE transcript[id]]

\* The timeline is validated over the merged transcript.
MergeFits_BatchOnly(put, drop, t) ==
  TimelineFits([id \in SegmentIds |-> IF id \in put THEN t[id] ELSE NoSegment])
MergeFits(put, drop, t) == TimelineFits(Merged(put, drop, t))

UpdateTranscript(put, drop, t) ==
  /\ TranscriptIsOpen
  /\ put \cup drop # {}
  /\ put \cap drop = {}
  /\ put \subseteq Present(t)
  /\ drop \subseteq Present(transcript)
  /\ MergeFits(put, drop, t)
  /\ \A id \in put : t[id].speaker # Blank
  /\ transcript' = Merged(put, drop, t)
  /\ Mutate("update_transcript")
  /\ UNCHANGED <<status, consentVars, issues, decisionVars, packages>>

FreezeTranscript ==
  /\ status = "consent_locked"
  /\ Present(transcript) # {}
  /\ status' = "transcript_frozen"
  /\ Mutate("freeze_transcript")
  /\ UNCHANGED <<consentVars, transcript, issues, decisionVars, packages>>

\* An issue as the check reports it and SetIssues opens it.
Opened(k) == [status  |-> "open",
              start   |-> k.start,
              end     |-> k.end,
              repl    |-> <<>>,
              round   |-> 0,
              history |-> <<>>]

\* Where SetIssues and ResolveIssues leave the dossier.
StatusAfter_AnyResolved(is) ==
  IF Resolved(is) = {} THEN "remediation" ELSE "awaiting_confirmation"
StatusAfter(is) ==
  IF HasOpenBlockers(is) THEN "remediation" ELSE "awaiting_confirmation"

RunCheck ==
  /\ status = "transcript_frozen"
  /\ issues' = [k \in CheckEligibility(transcript, auth.uses) |-> Opened(k)]
  /\ status' = StatusAfter(issues')
  /\ Mutate("run_check")
  /\ UNCHANGED <<consentVars, transcript, decisionVars, packages>>

-----------------------------------------------------------------------------
(***************************************************************************)
(* Remediation.                                                            *)
(***************************************************************************)
\* One issue under the fix submitted for it, with the resolution on record.
Snapshots_Overwritten(issue, fix) == <<[round |-> issue.round, repl |-> fix.repl]>>
Snapshots_TakenEarly(issue, fix) ==
  Append(issue.history, [round |-> issue.round, repl |-> issue.repl])
Snapshots(issue, fix) ==
  Append(issue.history, [round |-> issue.round, repl |-> fix.repl])

ResolvedWith(issue, fix) ==
  [status  |-> "resolved",
   start   |-> fix.start,
   end     |-> fix.end,
   repl    |-> fix.repl,
   round   |-> issue.round,
   history |-> Snapshots(issue, fix)]

\* The ranges as ResolveIssues checks them: those submitted lie inside their
\* segment, and no two fixes of a segment overlap, those in force included.
\* The code scans the neighbours in start order, which for nonempty ranges
\* finds an overlap exactly when two ranges overlap (ScanIsExact).
RangesAccepted_BatchOnly(K, is) ==
  /\ \A k \in K : RangeIn(is[k], Len(transcript[k.seg].text))
  /\ \A k, l \in K : k # l /\ k.seg = l.seg => ~Overlap(is[k], is[l])
RangesAccepted_Unbounded(K, is) ==
  \A k, l \in Resolved(is) : k # l /\ k.seg = l.seg => ~Overlap(is[k], is[l])
RangesAccepted(K, is) ==
  /\ \A k \in K : RangeIn(is[k], Len(transcript[k.seg].text))
  /\ \A k, l \in Resolved(is) :
       k # l /\ k.seg = l.seg => ~Overlap(is[k], is[l])

\* ResolveIssues: items gives the fix of every issue the client names, basis
\* is the transcript whose text digests the client sends along.
ResolveIssues(items, basis) ==
  LET K == DOMAIN items
      resolved == [k \in DOMAIN issues |-> IF k \in K
                                             THEN ResolvedWith(issues[k], items[k])
                                             ELSE issues[k]]
  IN  /\ status = "remediation"
      /\ K # {}
      /\ K \subseteq Open(issues)
      /\ \A k \in K : /\ basis[k.seg].text = transcript[k.seg].text
                      /\ items[k].repl # <<>>
      /\ RangesAccepted(K, resolved)
      /\ issues' = resolved
      /\ status' = StatusAfter(resolved)

\* Resolve takes the text digest from the dossier itself.
Resolve(k, fix) ==
  /\ ResolveIssues([j \in {k} |-> fix], transcript)
  /\ Mutate("resolve_issue")
  /\ UNCHANGED <<consentVars, transcript, decisionVars, packages>>

ResolveBatch(items, basis) ==
  /\ ResolveIssues(items, basis)
  /\ Mutate("resolve_issues_batch")
  /\ UNCHANGED <<consentVars, transcript, decisionVars, packages>>

\* What reopening does to an issue: the status, the replacement, the round.
\* The range stays as it was last edited.
Reopen(issue, round) ==
  [status  |-> "open",
   start   |-> issue.start,
   end     |-> issue.end,
   repl    |-> <<>>,
   round   |-> round,
   history |-> issue.history]

\* A rejected confirmation reopens the issues named and starts no round.
Reopened_All(names) ==
  [k \in DOMAIN issues |->
     IF k \in Resolved(issues) THEN Reopen(issues[k], issues[k].round) ELSE issues[k]]
Reopened(names) ==
  [k \in DOMAIN issues |->
     IF k \in names THEN Reopen(issues[k], issues[k].round) ELSE issues[k]]

-----------------------------------------------------------------------------
(***************************************************************************)
(* The subject's confirmation.                                             *)
(***************************************************************************)
\* activeRound: the last round that has not ended.
IsActive(i) == /\ rounds[i].outcome = "open"
               /\ \A j \in i+1..Len(rounds) : rounds[j].outcome # "open"

\* ConfirmStructured wants every issue of the active round resolved.
RoundComplete_Blockers ==
  \A i \in DOMAIN rounds :
    IsActive(i) => \A k \in rounds[i].issues : IsBlocker(k) => k \in Resolved(issues)
RoundComplete ==
  \A i \in DOMAIN rounds : IsActive(i) => rounds[i].issues \subseteq Resolved(issues)

EndRound(decision, candidate) ==
  [i \in DOMAIN rounds |->
     IF IsActive(i)
       THEN [issues   |-> rounds[i].issues,
             rejected |-> rounds[i].rejected,
             outcome  |-> decision,
             changed  |-> Digest(rounds[i].rejected) # Digest(candidate)]
       ELSE rounds[i]]

\* The candidate the client answers for is the one the dossier yields now.
IsCurrent_Unchecked(candidate) == candidate \in Candidate
IsCurrent(candidate) == Digest(candidate) = Digest(CurrentCandidate)

\* validateConfirmationExceptions: parts of the masked text that the subject
\* leaves to one of the allowed uses.  Scanning neighbours in start order finds
\* the overlaps, as it does for fixes.
ExceptionsAccepted_Unmasked(E) ==
  /\ \A e \in E : /\ e.seg \in Present(transcript)
                  /\ RangeIn(e, Len(transcript[e.seg].text))
                  /\ e.use \in auth.uses
  /\ \A e, f \in E : e # f /\ e.seg = f.seg => ~Overlap(e, f)
ExceptionsAccepted(E) ==
  /\ \A e \in E : /\ e.seg \in Present(transcript)
                  /\ RangeIn(e, Len(Spelled(CurrentCandidate[e.seg])))
                  /\ e.use \in auth.uses
  /\ \A e, f \in E : e # f /\ e.seg = f.seg => ~Overlap(e, f)

\* The part both decisions share; candidate is what the subject was shown.
Answer(decision, candidate, exceptions) ==
  /\ status = "awaiting_confirmation"
  /\ ~HasOpenBlockers(issues)
  /\ IsCurrent(candidate)
  /\ ExceptionsAccepted(exceptions)
  /\ RoundComplete
  /\ rounds' = EndRound(decision, candidate)
  /\ confirmations' =
       Append(confirmations, [decision   |-> decision,
                              candidate  |-> candidate,
                              exceptions |-> exceptions])
  /\ Mutate("subject_confirmation")
  /\ UNCHANGED <<consentVars, transcript, reviews, packages>>

ConfirmApproved(candidate, exceptions) ==
  /\ Answer("approved", candidate, exceptions)
  /\ status' = "awaiting_review"
  /\ UNCHANGED issues

\* The service refuses a rejection that names no issue.
ConfirmRejected(candidate, exceptions, names) ==
  /\ names # {}
  /\ names \subseteq Resolved(issues)
  /\ Answer("rejected", candidate, exceptions)
  /\ issues' = Reopened(names)
  /\ status' = "remediation"

-----------------------------------------------------------------------------
(***************************************************************************)
(* Review and release.                                                     *)
(***************************************************************************)
\* The five materials a checklist cites; transcript and issues are cited
\* together by one of them and the issues alone by another.
ReviewMaterials ==
  [auth         |-> auth,
   transcript   |-> transcript,
   issues       |-> {[key |-> k, issue |-> issues[k]] : k \in DOMAIN issues},
   confirmation |-> LatestConfirmation,
   editor       |-> editor]

\* The checks SubmitReview makes for both decisions; submitted is what the
\* checklist cites, names are the issues the review names.
Reviewable(reviewer, submitted, names) ==
  /\ status = "awaiting_review"
  /\ reviewer # editor
  /\ confirmations # <<>>
  /\ submitted = ReviewMaterials
  /\ ~HasOpenBlockers(issues)
  /\ LatestConfirmation.decision = "approved"
  /\ Digest(LatestConfirmation.candidate) = Digest(CurrentCandidate)
  /\ names \subseteq Resolved(issues)

Snapshot(decision, reviewer, names) ==
  [decision  |-> decision,
   reviewer  |-> reviewer,
   materials |-> ReviewMaterials,
   issues    |-> names,
   candidate |-> CurrentCandidate,
   revision  |-> revision]

\* release.Generate, in the dossier the approval has already been recorded in.
ReleasePackage_Unmasked(reviewer, snapshot, log) ==
  [text     |-> [id \in SegmentIds |-> Pieces(transcript[id].text, {})],
   consent  |-> auth,
   reviewer |-> reviewer,
   review   |-> snapshot,
   audit    |-> log]
ReleasePackage(reviewer, snapshot, log) ==
  [text     |-> CurrentCandidate,
   consent  |-> auth,
   reviewer |-> reviewer,
   review   |-> snapshot,
   audit    |-> log]

ReviewApproved(reviewer, submitted, names) ==
  LET snapshot == Snapshot("approved", reviewer, names)
  IN  /\ Reviewable(reviewer, submitted, names)
      /\ reviews' = Append(reviews, snapshot)
      /\ Mutate("review_approved")
      /\ packages' =
           {ReleasePackage(reviewer, snapshot, AuditOfChange("review_approved"))}
      /\ status' = "sealed"
      /\ UNCHANGED <<consentVars, transcript, issues, confirmations, rounds>>

\* A rejected review opens the next remediation round on the issues it names.
NewRound(names) == [issues   |-> names,
                    rejected |-> CurrentCandidate,
                    outcome  |-> "open",
                    changed  |-> FALSE]

ReopenedInRound_All(names, n) ==
  [k \in DOMAIN issues |->
     IF k \in Resolved(issues) THEN Reopen(issues[k], n) ELSE issues[k]]
ReopenedInRound(names, n) ==
  [k \in DOMAIN issues |->
     IF k \in names THEN Reopen(issues[k], n) ELSE issues[k]]

ReviewRejected(reviewer, submitted, names) ==
  /\ Reviewable(reviewer, submitted, names)
  /\ names # {}
  /\ reviews' = Append(reviews, Snapshot("rejected", reviewer, names))
  /\ rounds' = Append(rounds, NewRound(names))
  /\ issues' = ReopenedInRound(names, Len(rounds) + 1)
  /\ status' = "remediation"
  /\ Mutate("review_rejected")
  /\ UNCHANGED <<consentVars, transcript, confirmations, packages>>

-----------------------------------------------------------------------------
(***************************************************************************)
(* The specification.  A client answers with the candidate or the          *)
(* materials it was shown, which may be those of an earlier round.         *)
(***************************************************************************)
ShownCandidates ==
  {CurrentCandidate} \cup {confirmations[i].candidate : i \in DOMAIN confirmations}

ShownMaterials ==
  {ReviewMaterials} \cup {reviews[i].materials : i \in DOMAIN reviews}

Authoring ==
  \/ \E who \in Identity, granted \in Authorization : Create(who, granted)
  \/ \E granted \in Authorization : ReviseAuthorization(granted)
  \/ LockConsent
  \/ \E t \in Submissions : SaveTranscript(t)
  \/ \E t \in Submissions, put, drop \in SUBSET SegmentIds :
       UpdateTranscript(put, drop, t)
  \/ FreezeTranscript
  \/ RunCheck

Remediating ==
  /\ status = "remediation"
  /\ revision < MaxRevision
  /\ \/ \E k \in DOMAIN issues, fix \in Fixes : Resolve(k, fix)
     \/ \E K \in SUBSET Open(issues), basis \in Submissions \cup {transcript} :
          \E items \in [K -> Fixes] : ResolveBatch(items, basis)

Deciding ==
  \/ \E candidate \in ShownCandidates, exceptions \in SUBSET Exceptions :
       /\ status = "awaiting_confirmation"
       /\ \/ ConfirmApproved(candidate, exceptions)
          \/ \E names \in SUBSET DOMAIN issues :
               ConfirmRejected(candidate, exceptions, names)
  \/ \E reviewer \in Identity, names \in SUBSET DOMAIN issues :
       /\ status = "awaiting_review"
       /\ \E submitted \in ShownMaterials :
            \/ ReviewApproved(reviewer, submitted, names)
            \/ ReviewRejected(reviewer, submitted, names)

Next == Authoring \/ Remediating \/ Deciding

Spec == Init /\ [][Next]_dossierVars

-----------------------------------------------------------------------------
(***************************************************************************)
(* Invariants.                                                             *)
(***************************************************************************)
\* The shape of every part of the dossier.
Confirmation == [decision   : Decisions,
                 candidate  : Candidate,
                 exceptions : SUBSET Exceptions]

Round == [issues   : SUBSET IssueKey,
          rejected : Candidate,
          outcome  : {"open"} \cup Decisions,
          changed  : BOOLEAN]

Materials == [auth         : Authorization,
              transcript   : Transcript,
              issues       : SUBSET [key : IssueKey, issue : Issue],
              confirmation : Confirmation,
              editor       : Identity]

Review == [decision  : Decisions,
           reviewer  : Identity,
           materials : Materials,
           issues    : SUBSET IssueKey,
           candidate : Candidate,
           revision  : Nat]

Package == [text     : Candidate,
            consent  : Authorization,
            reviewer : Identity,
            review   : Review,
            audit    : Seq(Operations)]

TypeOK ==
  /\ status \in Statuses
  /\ revision \in Nat
  /\ audit \in Seq(Operations)
  /\ IF status = "absent"
       THEN editor = NoIdentity /\ auth = NoAuthorization
       ELSE editor \in Identity /\ auth \in Authorization
  /\ authRevisions \in Seq([before : Authorization, after : Authorization])
  /\ transcript \in Transcript
  /\ DOMAIN issues \subseteq IssueKey
  /\ issues \in [DOMAIN issues -> Issue]
  /\ confirmations \in Seq(Confirmation)
  /\ rounds \in Seq(Round)
  /\ reviews \in Seq(Review)
  /\ packages \subseteq Package

\* Every accepted operation leaves exactly one audit event: the event count and
\* the revision never drift apart, although the approval writes its event
\* itself and the other operations leave it to mutateWithBody.
AuditTracksRevision == Len(audit) = revision

\* While a dossier is under review, and once it is sealed, the subject's last
\* word is a yes to exactly the text the dossier now yields: no reopening, no
\* new fix and no earlier confirmation can slip in between.
ReviewedTextIsConfirmed ==
  status \in {"awaiting_review", "sealed"} =>
    /\ confirmations # <<>>
    /\ LatestConfirmation.decision = "approved"
    /\ Digest(LatestConfirmation.candidate) = Digest(CurrentCandidate)

\* The status agrees with the issues: nobody is asked to confirm, review or
\* publish over an open blocker, and a dossier is in remediation only while
\* some issue is open.  (Whether an open issue can still be resolved is
\* another matter: RemediationIsPossible, below.)
StatusMatchesIssues ==
  /\ status \in {"awaiting_confirmation", "awaiting_review", "sealed"} =>
       ~HasOpenBlockers(issues)
  /\ status = "remediation" => Open(issues) # {}

\* The fixes in force lie inside their segment and never mask the same rune
\* twice, however often issues are reopened and resolved with other ranges: so
\* CandidateText never fails and does not depend on the order of the fixes.
FixesFit ==
  /\ \A k \in Resolved(issues) : RangeIn(issues[k], Len(transcript[k.seg].text))
  /\ \A k, l \in Resolved(issues) :
       k # l /\ k.seg = l.seg => ~Overlap(issues[k], issues[l])

\* Remediation rounds follow each other: only the last can be open, only
\* between a rejected review and the subject's next answer, and every issue it
\* names carries the round's number, so that a resolution recorded since then
\* is attributed to this round.
RoundsInOrder ==
  \A i \in DOMAIN rounds :
    /\ rounds[i].outcome = "open" =>
         /\ i = Len(rounds)
         /\ status \in {"remediation", "awaiting_confirmation"}
         /\ \A k \in rounds[i].issues :
              /\ k \in DOMAIN issues
              /\ issues[k].round = i
              /\ k \in Resolved(issues) =>
                   issues[k].history[Len(issues[k].history)].round = i
    /\ (/\ rounds[i].outcome = "approved"
        /\ i = Len(rounds)
        /\ status \in {"awaiting_review", "sealed"}) =>
         rounds[i].issues \subseteq Resolved(issues)

\* What is published for an issue is its last recorded resolution: the history
\* and the fix in force agree, through rejections that clear the replacement.
HistoryMatchesFix ==
  \A k \in Resolved(issues) :
    /\ issues[k].history # <<>>
    /\ issues[k].history[Len(issues[k].history)].repl = issues[k].repl

\* The authorization revisions replay: each starts where the one before ended,
\* each changes something, and the last ends at the authorization in force.
AuthorizationReplays ==
  \A i \in DOMAIN authRevisions :
    /\ authRevisions[i].before # authRevisions[i].after
    /\ authRevisions[i].after =
         IF i = Len(authRevisions) THEN auth ELSE authRevisions[i+1].before

\* VerifyDossierRecords, which recomputes the components of a release package
\* from the dossier's current records, finds them all equal.
Verifies(p) ==
  /\ Digest(p.text) = Digest(CurrentCandidate)
  /\ p.consent = auth
  /\ p.audit = audit
  /\ p.review = LatestReview

\* A sealed dossier has one package, and the package verifies: the approval is
\* the last audit event and the last review, and sealing changes nothing the
\* package was generated from.
SealedPackageVerifies ==
  status = "sealed" => /\ packages # {}
                       /\ \A p \in packages : Verifies(p)

\* The exceptions a package was reviewed under fit what it publishes: each lies
\* inside its segment of the published text, for a use of the published consent,
\* and no two cover one rune.  The subject made them on a text shown before.
ExceptionsFit ==
  \A p \in packages :
    LET E == p.review.materials.confirmation.exceptions
    IN  /\ \A e \in E : /\ RangeIn(e, Len(Spelled(p.text[e.seg])))
                        /\ e.use \in p.consent.uses
        /\ \A e, f \in E : e # f /\ e.seg = f.seg => ~Overlap(e, f)

\* The transcript in force is one timeline of declared speakers, whether it
\* was saved whole or put together by batches of operations.
TranscriptWellFormed ==
  Present(transcript) # {} => /\ TimelineFits(transcript)
                              /\ \A id \in Present(transcript) :
                                   transcript[id].speaker # Blank

\* Until the seal the issues on file are those the check reports for the
\* transcript and the consent on file: no finding is lost to a later change of
\* either, and none is about text or uses that are no longer there.
FindingsStand ==
  status \in {"remediation", "awaiting_confirmation", "awaiting_review", "sealed"} =>
    DOMAIN issues = CheckEligibility(transcript, auth.uses)

(***************************************************************************)
(* The loops the code runs over the ranges of a segment.                   *)
(***************************************************************************)
\* The scan over neighbours is exact: in whichever order the sort leaves the
\* ranges, it refuses a batch when two of the ranges then in force overlap, and
\* only then, so that ranges that merely touch are let through.
ScanIsExact ==
  status = "remediation" =>
    \A id \in Present(transcript) :
      \A K \in SUBSET {k \in Open(issues) : k.seg = id} :
        \A items \in [K -> {RangeOf(f) : f \in {g \in Fixes :
                              RangeIn(g, Len(transcript[id].text))}}] :
          LET inForce == K \cup {k \in Resolved(issues) : k.seg = id}
              is == [k \in inForce |-> IF k \in K THEN items[k] ELSE RangeOf(issues[k])]
          IN  \A s \in Ascending(is) :
                NeighboursOverlap(s) <=>
                  \E k, l \in inForce : k # l /\ Overlap(is[k], is[l])

\* CandidateText is right: splicing the fixes in, from the last to the first,
\* refuses none of them, because each still lies inside what the others have
\* left, and masks every range where it lies in the original text, over every
\* history of resolutions and rejections.
SplicesSpellPieces ==
  \A id \in Present(transcript) :
    LET text == transcript[id].text
        inForce == {k \in Resolved(issues) : k.seg = id}
    IN  \A s \in Descending([k \in inForce |-> FixOf(issues, k)]) :
          /\ \A i \in DOMAIN s : RangeIn(s[i], Len(Splicing(text, s)[i-1]))
          /\ Splicing(text, s)[Len(s)] = Spelled(CurrentCandidate[id])

(***************************************************************************)
(* Action properties.                                                      *)
(***************************************************************************)
\* Consent is fixed once locked and the transcript once frozen; whatever the
\* later rounds of remediation do, they never touch either.
FrozenParts ==
  [][ /\ status \notin {"absent", "draft"} => UNCHANGED consentVars
      /\ status \notin {"absent", "draft", "consent_locked"} =>
           UNCHANGED transcript ]_dossierVars

\* The subject rejects a text it was shown and names these issues; the
\* confirmation on file does not keep the names, the request has them.
SubjectRejects(names) ==
  \E candidate \in ShownCandidates, exceptions \in SUBSET Exceptions :
    ConfirmRejected(candidate, exceptions, names)

\* The issues a step reopens: those a rejected review names, which are those of
\* the round it starts; those a rejection by the subject names, whichever names
\* it may have come with; after any other step, none.
ReopensOnlyNamed ==
  LET reopenedNow == {k \in Resolved(issues) : k \in Open(issues')}
      reviewRejected == Len(reviews') > Len(reviews) /\ status' = "remediation"
      subjectRejected ==
        Len(confirmations') > Len(confirmations) /\ status' = "remediation"
  IN  /\ reviewRejected =>
           /\ reopenedNow = reviews'[Len(reviews')].issues
           /\ reopenedNow = rounds'[Len(rounds')].issues
      /\ subjectRejected =>
           \A names \in SUBSET DOMAIN issues :
             SubjectRejects(names) => reopenedNow = names
      /\ ~reviewRejected /\ ~subjectRejected => reopenedNow = {}

\* A decision reopens the issues it names and no others, whether it is a
\* rejected review or a rejection by the subject, and nothing else the subject,
\* the reviewer or the editor does reopens any.
OnlyNamedIssuesReopen == [][ReopensOnlyNamed]_dossierVars

IsPrefixOf(s, t) == Len(s) <= Len(t) /\ \A i \in DOMAIN s : t[i] = s[i]

RecordsGrow ==
  /\ IsPrefixOf(audit, audit')
  /\ IsPrefixOf(confirmations, confirmations')
  /\ IsPrefixOf(reviews, reviews')
  /\ \A i \in DOMAIN rounds : rounds[i].outcome # "open" => rounds'[i] = rounds[i]
  /\ \A k \in DOMAIN issues : /\ k \in DOMAIN issues'
                             /\ IsPrefixOf(issues[k].history, issues'[k].history)

\* The records of past decisions are never rewritten: the audit events, the
\* confirmations, the reviews and the resolutions of an issue only grow, and a
\* round that has ended keeps its outcome.
RecordsOnlyGrow == [][RecordsGrow]_dossierVars

(***************************************************************************)
(* The promise of Publication, kept by the dossier.                        *)
(***************************************************************************)
StageOf ==
  CASE status = "absent" -> "none"
    [] status = "draft" -> "consenting"
    [] status = "awaiting_confirmation" -> "offered"
    [] status = "awaiting_review" -> "agreed"
    [] status = "sealed" -> "published"
    [] OTHER -> "editing"

P == INSTANCE Publication
       WITH Texts <- Candidate,
            Consents <- Authorization \cup {NoAuthorization},
            stage <- StageOf,
            consent <- auth,
            text <- CurrentCandidate,
            published <- {[text |-> p.text, consent |-> p.consent] : p \in packages}

\* A text is published only under the locked consent and exactly as the
\* subject agreed to it, whatever rounds of remediation came before.
ImplementsPublication == P!Spec

-----------------------------------------------------------------------------
(***************************************************************************)
(* What the documents say and the code does not do.                        *)
(***************************************************************************)
\* A dossier waiting for the subject can be answered: every issue the active
\* round names is resolved by then.  (README.md: the process is a closed loop
\* that ends in a sealed package.)
ConfirmationIsPossible == status = "awaiting_confirmation" => RoundComplete

\* Remediation can go on: for some open issue there is a range that the check of
\* ResolveIssues accepts.  (BENZHI_README.md: after the check the sensitive
\* contents are masked one by one.)
Acceptable(k, fix) ==
  RangesAccepted({k}, [issues EXCEPT ![k] = ResolvedWith(issues[k], fix)])

CanBeResolved(k, repl) ==
  \E start, end \in 0..Len(transcript[k.seg].text) :
    Acceptable(k, [start |-> start, end |-> end, repl |-> repl])

RemediationIsPossible ==
  status = "remediation" =>
    \E k \in Open(issues), repl \in Replacements : CanBeResolved(k, repl)
=============================================================================
