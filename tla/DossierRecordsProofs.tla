------------------------ MODULE DossierRecordsProofs ------------------------
(***************************************************************************)
(* More about a dossier, for every value of the constants: its rounds      *)
(* follow each other, its transcript stays one timeline, the exceptions of *)
(* a package fit the published text, its records only grow, and it keeps   *)
(* the promise of Publication.                                             *)
(*                                                                         *)
(* The invariant of DossierProofs carries most of it.  What it lacks       *)
(* is said by two parts: the last round is only approved while its review  *)
(* is under way or won, and the exceptions of the latest confirmation fit  *)
(* as long as the text they were made on is under review.  The loops over  *)
(* the ranges of a segment are right because the fixes in force fit        *)
(* (FixesFit), by what RedactionProofs shows of texts and ranges.          *)
(***************************************************************************)
EXTENDS DossierProofs, RedactionProofs

-----------------------------------------------------------------------------
(***************************************************************************)
(* The transcript.                                                         *)
(***************************************************************************)
LEMMA DeclaredFits ==
  ASSUME NEW t \in Transcript, TimelineFits(t)
  PROVE  /\ TimelineFits(Declared(t))
         /\ \A id \in Present(Declared(t)) : Declared(t)[id].speaker # Blank
<1>1. ASSUME NEW id \in SegmentIds
      PROVE  /\ Declared(t)[id].text = t[id].text
             /\ Declared(t)[id].start = t[id].start
             /\ Declared(t)[id].end = t[id].end
             /\ id \in Present(t) => Declared(t)[id].speaker # Blank
  <2>1. t[id] \in Segment
    BY DEF Transcript
  <2>2. Undeclared # Blank
    BY DEF Undeclared, Blank
  <2>3. QED
    BY <2>1, <2>2 DEF Declared, Segment
<1>2. Present(Declared(t)) = Present(t)
  BY <1>1 DEF Present
<1>3. \A id \in Present(t) : id \in SegmentIds
  BY DEF Present
<1>4. \A id \in Present(t) : 0 <= Declared(t)[id].start
                             /\ Declared(t)[id].start < Declared(t)[id].end
  BY <1>1, <1>3 DEF TimelineFits
<1>5. \A a, b \in Present(t) : a # b => ~Overlap(Declared(t)[a], Declared(t)[b])
  BY <1>1, <1>3 DEF TimelineFits, Overlap
<1>6. TimelineFits(Declared(t))
  BY <1>2, <1>4, <1>5 DEF TimelineFits
<1>7. QED
  BY <1>1, <1>2, <1>3, <1>6

LEMMA WellFormedNext ==
  ASSUME TypeOK, TranscriptWellFormed, Next
  PROVE  TranscriptWellFormed'
<1>1. CASE UNCHANGED transcript
  BY <1>1 DEF TranscriptWellFormed, TimelineFits, Present
<1>2. ASSUME NEW t \in Submissions, SaveTranscript(t)
      PROVE  TranscriptWellFormed'
  <2>1. t \in Transcript
    BY DossierAssumption
  <2>2. /\ TimelineFits(t)
        /\ transcript' = Declared(t)
    BY <1>2 DEF SaveTranscript
  <2>3. /\ TimelineFits(transcript')
        /\ \A id \in Present(transcript') : transcript'[id].speaker # Blank
    BY <2>1, <2>2, DeclaredFits
  <2>4. QED
    BY <2>3 DEF TranscriptWellFormed
<1>3. ASSUME NEW t \in Submissions, NEW put \in SUBSET SegmentIds,
             NEW drop \in SUBSET SegmentIds, UpdateTranscript(put, drop, t)
      PROVE  TranscriptWellFormed'
  <2>1. /\ TimelineFits(transcript')
        /\ transcript' = Merged(put, drop, t)
        /\ \A id \in put : t[id].speaker # Blank
    BY <1>3 DEF UpdateTranscript, MergeFits
  <2>2. ASSUME NEW id \in Present(transcript')
        PROVE  transcript'[id].speaker # Blank
    <3>1. id \in SegmentIds /\ transcript'[id].text # <<>>
      BY DEF Present
    <3>2. id \notin drop
      BY <2>1, <3>1 DEF Merged, NoSegment
    <3>3. CASE id \in put
      BY <2>1, <3>1, <3>2, <3>3 DEF Merged
    <3>4. CASE id \notin put
      <4>1. transcript'[id] = transcript[id]
        BY <2>1, <3>1, <3>2, <3>4 DEF Merged
      <4>2. id \in Present(transcript)
        BY <3>1, <4>1 DEF Present
      <4>3. QED
        BY <4>1, <4>2 DEF TranscriptWellFormed
    <3>5. QED
      BY <3>3, <3>4
  <2>3. QED
    BY <2>1, <2>2 DEF TranscriptWellFormed
<1>4. CASE Authoring
  <2>1. ASSUME ~(\E t \in Submissions : SaveTranscript(t)),
               ~(\E t \in Submissions, put, drop \in SUBSET SegmentIds :
                   UpdateTranscript(put, drop, t))
        PROVE  UNCHANGED transcript
    BY <1>4, <2>1 DEF Authoring, Create, ReviseAuthorization, LockConsent,
       FreezeTranscript, RunCheck
  <2>2. QED
    BY <1>1, <1>2, <1>3, <2>1
<1>5. CASE Remediating
  BY <1>1, <1>5, RemediatingResolves
<1>6. CASE Deciding
  BY <1>1, <1>6, DecidingReopens
<1>7. QED
  BY <1>4, <1>5, <1>6 DEF Next

-----------------------------------------------------------------------------
(***************************************************************************)
(* The exceptions.                                                         *)
(***************************************************************************)
\* Under review, the exceptions of the latest confirmation fit the text.
ReviewedExceptionsFit ==
  status = "awaiting_review" => ExceptionsAccepted(LatestConfirmation.exceptions)

LEMMA ExceptionsStay ==
  ASSUME NEW E, UNCHANGED <<transcript, issues, auth>>, ExceptionsAccepted(E)
  PROVE  ExceptionsAccepted(E)'
<1>1. CurrentCandidate' = CurrentCandidate
  BY CandidateStays
<1>2. QED
  BY <1>1 DEF ExceptionsAccepted

\* What the exceptions accepted for the text at hand are to a package of it.
LEMMA PackageExceptions ==
  ASSUME NEW p, p.text = CurrentCandidate, p.consent = auth,
         p.review.materials.confirmation = LatestConfirmation,
         ExceptionsAccepted(LatestConfirmation.exceptions)
  PROVE  LET E == p.review.materials.confirmation.exceptions
         IN  /\ \A e \in E : /\ RangeIn(e, Len(Spelled(p.text[e.seg])))
                             /\ e.use \in p.consent.uses
             /\ \A e, f \in E : e # f /\ e.seg = f.seg => ~Overlap(e, f)
BY DEF ExceptionsAccepted

LEMMA ExceptionsNext ==
  ASSUME TypeOK, ReviewedExceptionsFit, ExceptionsFit, Next
  PROVE  ReviewedExceptionsFit' /\ ExceptionsFit'
<1>1. CASE status' # "awaiting_review" /\ UNCHANGED packages
  BY <1>1 DEF ReviewedExceptionsFit, ExceptionsFit
<1>2. CASE Authoring
  <2>1. /\ status' # "awaiting_review"
        /\ UNCHANGED packages
    BY <1>2 DEF Authoring, Create, ReviseAuthorization, AuthorizationIsOpen, LockConsent,
       SaveTranscript, UpdateTranscript, TranscriptIsOpen, FreezeTranscript, RunCheck,
       StatusAfter
  <2>2. QED
    BY <1>1, <2>1
<1>3. CASE Remediating
  BY <1>1, <1>3, RemediatingResolves, ResolveStep, StatusAfterMatches
<1>4. ASSUME NEW candidate, NEW exceptions, ConfirmApproved(candidate, exceptions)
      PROVE  ReviewedExceptionsFit' /\ ExceptionsFit'
  <2>1. Answer("approved", candidate, exceptions) /\ UNCHANGED issues
    BY <1>4 DEF ConfirmApproved
  <2>2. /\ ExceptionsAccepted(exceptions)
        /\ LatestConfirmation' = [decision   |-> "approved",
                                  candidate  |-> candidate,
                                  exceptions |-> exceptions]
        /\ UNCHANGED <<transcript, auth, packages>>
    BY <2>1, AnswerStep DEF consentVars
  <2>3. LatestConfirmation'.exceptions = exceptions
    BY <2>2
  <2>4. ExceptionsAccepted(exceptions)'
    BY <2>1, <2>2, ExceptionsStay
  <2>5. ExceptionsAccepted(LatestConfirmation.exceptions)'
    BY <2>3, <2>4 DEF ExceptionsAccepted
  <2>6. QED
    BY <2>2, <2>5 DEF ReviewedExceptionsFit, ExceptionsFit
<1>5. ASSUME NEW reviewer, NEW names, NEW submitted,
             ReviewApproved(reviewer, submitted, names)
      PROVE  ReviewedExceptionsFit' /\ ExceptionsFit'
  <2> DEFINE snapshot == Snapshot("approved", reviewer, names)
             package == ReleasePackage(reviewer, snapshot,
                                       AuditOfChange("review_approved"))
  <2>1. /\ status = "awaiting_review"
        /\ status' = "sealed"
        /\ packages' = {package}
    BY <1>5 DEF ReviewApproved, Reviewable
  <2>2. /\ package.text = CurrentCandidate
        /\ package.consent = auth
        /\ package.review = snapshot
    BY DEF ReleasePackage
  <2>3. snapshot.materials.confirmation = LatestConfirmation
    BY DEF Snapshot, ReviewMaterials
  <2>4. ExceptionsAccepted(LatestConfirmation.exceptions)
    BY <2>1 DEF ReviewedExceptionsFit
  <2> HIDE DEF snapshot, package
  <2>5. package.review.materials.confirmation = LatestConfirmation
    BY <2>2, <2>3
  <2>6. ExceptionsFit'
    BY <2>1, <2>2, <2>4, <2>5, PackageExceptions DEF ExceptionsFit
  <2>7. QED
    BY <2>1, <2>6 DEF ReviewedExceptionsFit
<1>6. CASE Deciding
  BY <1>1, <1>4, <1>5, <1>6 DEF Deciding, ConfirmRejected, ReviewRejected, Answer
<1>7. QED
  BY <1>2, <1>3, <1>6 DEF Next
-----------------------------------------------------------------------------
(***************************************************************************)
(* The rounds.                                                             *)
(***************************************************************************)
\* The last round has been approved only if its text is under review since.
ApprovedRoundIsReviewed ==
  rounds # <<>> /\ rounds[Len(rounds)].outcome = "approved" =>
    status \in {"awaiting_review", "sealed"}

\* What the end of a round leaves.
LEMMA EndRoundStep ==
  ASSUME NEW decision \in Decisions, NEW candidate, rounds \in Seq(Round),
         \A i \in DOMAIN rounds : rounds[i].outcome = "open" => i = Len(rounds),
         rounds' = EndRound(decision, candidate)
  PROVE  /\ Len(rounds') = Len(rounds)
         /\ DOMAIN rounds' = DOMAIN rounds
         /\ \A i \in DOMAIN rounds :
              /\ rounds'[i].issues = rounds[i].issues
              /\ rounds'[i].outcome # "open"
              /\ IF IsActive(i) THEN rounds'[i].outcome = decision
                                ELSE rounds'[i] = rounds[i]
<1>1. /\ Len(rounds) \in Nat
      /\ DOMAIN rounds = 1..Len(rounds)
  OBVIOUS
<1>2. DOMAIN rounds' = DOMAIN rounds
  BY DEF EndRound
<1>3. Len(rounds') = Len(rounds)
  BY <1>1 DEF EndRound
<1>4. ASSUME NEW i \in DOMAIN rounds
      PROVE  /\ rounds'[i].issues = rounds[i].issues
             /\ rounds'[i].outcome # "open"
             /\ IF IsActive(i) THEN rounds'[i].outcome = decision
                               ELSE rounds'[i] = rounds[i]
  <2>1. CASE IsActive(i)
    BY <2>1 DEF EndRound, Decisions
  <2>2. CASE ~IsActive(i)
    <3>1. rounds'[i] = rounds[i]
      BY <2>2 DEF EndRound
    <3>2. rounds[i].outcome # "open"
      BY <1>1, <2>2 DEF IsActive
    <3>3. QED
      BY <2>2, <3>1, <3>2
  <2>3. QED
    BY <2>1, <2>2
<1>5. QED
  BY <1>2, <1>3, <1>4

\* No round is open outside remediation and the vote.
LEMMA RoundsClosed ==
  ASSUME RoundsInOrder, status \notin {"remediation", "awaiting_confirmation"}
  PROVE  \A i \in DOMAIN rounds : rounds[i].outcome # "open"
BY DEF RoundsInOrder

\* Steps that leave the rounds alone, outside review and its two neighbours.
LEMMA RoundsUntouched ==
  ASSUME RoundsInOrder, ApprovedRoundIsReviewed, UNCHANGED rounds,
         status \notin {"remediation", "awaiting_confirmation", "awaiting_review",
                        "sealed"},
         status' \notin {"awaiting_review", "sealed"}
  PROVE  RoundsInOrder' /\ ApprovedRoundIsReviewed'
<1>1. \A i \in DOMAIN rounds : rounds[i].outcome # "open"
  BY RoundsClosed
<1>2. RoundsInOrder'
  BY <1>1 DEF RoundsInOrder
<1>3. ApprovedRoundIsReviewed'
  BY DEF ApprovedRoundIsReviewed
<1>4. QED
  BY <1>2, <1>3

LEMMA RoundsNext ==
  ASSUME TypeOK, RoundsInOrder, ApprovedRoundIsReviewed, Next
  PROVE  RoundsInOrder' /\ ApprovedRoundIsReviewed'
<1>1. /\ rounds \in Seq(Round)
      /\ Len(rounds) \in Nat
      /\ DOMAIN rounds = 1..Len(rounds)
  BY DEF TypeOK
<1>2. CASE Authoring
  <2>1. /\ UNCHANGED rounds
        /\ status \notin {"remediation", "awaiting_confirmation", "awaiting_review",
                          "sealed"}
        /\ status' \notin {"awaiting_review", "sealed"}
    BY <1>2 DEF Authoring, Create, ReviseAuthorization, AuthorizationIsOpen, LockConsent,
       SaveTranscript, UpdateTranscript, TranscriptIsOpen, FreezeTranscript, RunCheck,
       StatusAfter, decisionVars
  <2>2. QED
    BY <2>1, RoundsUntouched
<1>3. CASE Remediating
  <2>1. PICK basis, items : /\ items \in [DOMAIN items -> Fixes]
                            /\ ResolveIssues(items, basis)
    BY <1>3, RemediatingResolves
  <2>2. /\ status = "remediation"
        /\ status' = StatusAfter(issues')
        /\ DOMAIN issues' = DOMAIN issues
        /\ \A k \in DOMAIN items : issues'[k] = ResolvedWith(issues[k], items[k])
        /\ \A k \in DOMAIN issues \ DOMAIN items : issues'[k] = issues[k]
        /\ DOMAIN items \subseteq DOMAIN issues
    BY <2>1, ResolveStep
  <2>3. status' \in {"remediation", "awaiting_confirmation"}
    BY <2>2, StatusAfterMatches
  <2>4. UNCHANGED rounds
    BY <1>3, RemediatingResolves DEF decisionVars
  <2>5. \A k \in DOMAIN items : items[k].repl # <<>>
    BY <2>1 DEF ResolveIssues
  <2>6. ASSUME NEW i \in DOMAIN rounds, NEW k \in rounds[i].issues,
               rounds[i].outcome = "open"
        PROVE  /\ k \in DOMAIN issues'
               /\ issues'[k].round = i
               /\ k \in Resolved(issues') =>
                    issues'[k].history[Len(issues'[k].history)].round = i
    <3>1. /\ k \in DOMAIN issues
          /\ issues[k].round = i
          /\ k \in Resolved(issues) =>
               issues[k].history[Len(issues[k].history)].round = i
      BY <2>6 DEF RoundsInOrder
    <3>2. issues[k] \in Issue
      BY <3>1 DEF TypeOK
    <3>3. CASE k \in DOMAIN items
      <4>1. issues'[k] = ResolvedWith(issues[k], items[k])
        BY <2>2, <3>3
      <4> DEFINE record == [round |-> issues[k].round, repl |-> items[k].repl]
      <4>2. /\ issues'[k].round = issues[k].round
            /\ issues'[k].history = Append(issues[k].history, record)
        BY <4>1 DEF ResolvedWith, Snapshots
      <4>3. record.round = i
        BY <3>1
      <4>4. issues[k].history \in Seq([round : Nat, repl : Replacements])
        BY <3>2 DEF Issue
      <4> HIDE DEF record
      <4>5. issues'[k].history[Len(issues'[k].history)] = record
        BY <4>2, <4>4
      <4>6. QED
        BY <2>2, <3>1, <4>2, <4>3, <4>5
    <3>4. CASE k \notin DOMAIN items
      <4>1. issues'[k] = issues[k]
        BY <2>2, <3>1, <3>4
      <4>2. k \in Resolved(issues') => k \in Resolved(issues)
        BY <2>2, <3>1, <4>1 DEF Resolved
      <4>3. QED
        BY <2>2, <3>1, <4>1, <4>2
    <3>5. QED
      BY <3>3, <3>4
  <2>7. RoundsInOrder'
    BY <2>3, <2>4, <2>6 DEF RoundsInOrder
  <2>8. ApprovedRoundIsReviewed'
    BY <2>2, <2>4 DEF ApprovedRoundIsReviewed
  <2>9. QED
    BY <2>7, <2>8
<1>4. ASSUME NEW decision \in Decisions, NEW candidate, NEW exceptions,
             Answer(decision, candidate, exceptions)
      PROVE  /\ \A i \in DOMAIN rounds' : rounds'[i].outcome # "open"
             /\ rounds' # <<>> => /\ rounds # <<>>
                                  /\ Len(rounds') = Len(rounds)
                                  /\ rounds'[Len(rounds')].outcome = "approved" =>
                                       /\ decision = "approved"
                                       /\ rounds'[Len(rounds')].issues
                                            \subseteq Resolved(issues)
  <2>1. /\ rounds' = EndRound(decision, candidate)
        /\ RoundComplete
        /\ status = "awaiting_confirmation"
    BY <1>4 DEF Answer
  <2>2. \A i \in DOMAIN rounds : rounds[i].outcome = "open" => i = Len(rounds)
    BY DEF RoundsInOrder
  <2>3. /\ Len(rounds') = Len(rounds)
        /\ DOMAIN rounds' = DOMAIN rounds
        /\ \A i \in DOMAIN rounds :
              /\ rounds'[i].issues = rounds[i].issues
              /\ rounds'[i].outcome # "open"
              /\ IF IsActive(i) THEN rounds'[i].outcome = decision
                                ELSE rounds'[i] = rounds[i]
    BY <1>1, <2>1, <2>2, EndRoundStep
  <2>4. ASSUME rounds' # <<>>
        PROVE  /\ rounds # <<>>
               /\ Len(rounds) \in DOMAIN rounds
    <3>1. rounds' = EndRound(decision, candidate)
      BY <2>1
    <3>2. rounds' \in Seq(Round)
      BY <3>1, RoundsType
    <3>3. Len(rounds') # 0
      BY <2>4, <3>2
    <3>4. QED
      BY <1>1, <2>3, <3>3
  <2>5. ASSUME rounds' # <<>>, rounds'[Len(rounds')].outcome = "approved"
        PROVE  /\ decision = "approved"
               /\ rounds'[Len(rounds')].issues \subseteq Resolved(issues)
    <3> DEFINE n == Len(rounds)
    <3>1. n \in DOMAIN rounds /\ rounds'[n].outcome = "approved" /\ rounds # <<>>
      BY <2>3, <2>4, <2>5
    <3>2. CASE IsActive(n)
      <4>1. rounds[n].issues \subseteq Resolved(issues)
        BY <2>1, <3>1, <3>2 DEF RoundComplete
      <4>2. QED
        BY <2>3, <3>1, <3>2, <4>1
    <3>3. CASE ~IsActive(n)
      BY <2>1, <2>3, <3>1, <3>3 DEF ApprovedRoundIsReviewed
    <3>4. QED
      BY <3>2, <3>3
  <2>6. QED
    BY <2>3, <2>4, <2>5
<1>5. ASSUME NEW candidate, NEW exceptions, ConfirmApproved(candidate, exceptions)
      PROVE  RoundsInOrder' /\ ApprovedRoundIsReviewed'
  <2>1. /\ Answer("approved", candidate, exceptions)
        /\ status' = "awaiting_review"
        /\ UNCHANGED issues
    BY <1>5 DEF ConfirmApproved
  <2>2. /\ \A i \in DOMAIN rounds' : rounds'[i].outcome # "open"
        /\ rounds' # <<>> /\ rounds'[Len(rounds')].outcome = "approved" =>
             rounds'[Len(rounds')].issues \subseteq Resolved(issues)
    BY <1>4, <2>1 DEF Decisions
  <2>3. ASSUME NEW i \in DOMAIN rounds', i = Len(rounds')
        PROVE  rounds' # <<>>
    BY <2>3
  <2>4. RoundsInOrder'
    BY <2>1, <2>2, <2>3 DEF RoundsInOrder, Resolved
  <2>5. QED
    BY <2>1, <2>4 DEF ApprovedRoundIsReviewed
<1>6. ASSUME NEW candidate, NEW exceptions, NEW names,
             ConfirmRejected(candidate, exceptions, names)
      PROVE  RoundsInOrder' /\ ApprovedRoundIsReviewed'
  <2>1. /\ Answer("rejected", candidate, exceptions)
        /\ status' = "remediation"
    BY <1>6 DEF ConfirmRejected
  <2>2. /\ \A i \in DOMAIN rounds' : rounds'[i].outcome # "open"
        /\ rounds' # <<>> => rounds'[Len(rounds')].outcome # "approved"
    BY <1>4, <2>1 DEF Decisions
  <2>3. QED
    BY <2>1, <2>2 DEF RoundsInOrder, ApprovedRoundIsReviewed
<1>7. ASSUME NEW reviewer, NEW names, NEW submitted,
             ReviewApproved(reviewer, submitted, names)
      PROVE  RoundsInOrder' /\ ApprovedRoundIsReviewed'
  <2>1. /\ status = "awaiting_review"
        /\ status' = "sealed"
        /\ UNCHANGED <<issues, rounds>>
    BY <1>7 DEF ReviewApproved, Reviewable
  <2>2. \A i \in DOMAIN rounds : rounds[i].outcome # "open"
    BY <2>1, RoundsClosed
  <2>3. QED
    BY <2>1, <2>2 DEF RoundsInOrder, ApprovedRoundIsReviewed, Resolved
<1>8. ASSUME NEW reviewer, NEW names, NEW submitted,
             ReviewRejected(reviewer, submitted, names)
      PROVE  RoundsInOrder' /\ ApprovedRoundIsReviewed'
  <2> DEFINE n == Len(rounds)
             new == NewRound(names)
  <2>1. /\ status = "awaiting_review"
        /\ status' = "remediation"
        /\ rounds' = Append(rounds, new)
        /\ issues' = ReopenedInRound(names, n + 1)
    BY <1>8 DEF ReviewRejected, Reviewable
  <2>2. new.issues = names /\ new.outcome = "open"
    BY DEF NewRound
  <2>3. /\ names \subseteq DOMAIN issues
        /\ DOMAIN issues' = DOMAIN issues
    BY <1>8, <2>1 DEF ReviewRejected, Reviewable, Resolved, ReopenedInRound
  <2>4. \A k \in names : /\ issues'[k].round = n + 1
                         /\ issues'[k].status = "open"
    BY <2>1, <2>3 DEF ReopenedInRound, Reopen
  <2>5. \A i \in DOMAIN rounds : rounds[i].outcome # "open"
    BY <2>1, RoundsClosed
  <2> HIDE DEF new
  <2>6. /\ Len(rounds') = n + 1
        /\ DOMAIN rounds' = 1..(n + 1)
        /\ \A i \in 1..n : rounds'[i] = rounds[i]
        /\ rounds'[n + 1] = new
    BY <1>1, <2>1
  <2>7. ASSUME NEW i \in DOMAIN rounds', rounds'[i].outcome = "open"
        PROVE  i = n + 1
    BY <1>1, <2>5, <2>6, <2>7
  <2>8. \A k \in names : k \notin Resolved(issues')
    BY <2>4 DEF Resolved
  <2>9. ASSUME NEW i \in DOMAIN rounds', rounds'[i].outcome = "open"
        PROVE  /\ i = Len(rounds')
               /\ \A k \in rounds'[i].issues : /\ k \in DOMAIN issues'
                                               /\ issues'[k].round = i
                                               /\ k \notin Resolved(issues')
    BY <2>2, <2>3, <2>4, <2>6, <2>7, <2>8, <2>9
  <2>10. RoundsInOrder'
    BY <2>1, <2>9 DEF RoundsInOrder
  <2>11. ApprovedRoundIsReviewed'
    BY <2>2, <2>6 DEF ApprovedRoundIsReviewed
  <2>12. QED
    BY <2>10, <2>11
<1>9. CASE Deciding
  BY <1>5, <1>6, <1>7, <1>8, <1>9 DEF Deciding
<1>10. QED
  BY <1>2, <1>3, <1>9 DEF Next

-----------------------------------------------------------------------------
(***************************************************************************)
(* The records.                                                            *)
(***************************************************************************)
LEMMA PrefixOfAppend ==
  ASSUME NEW S, NEW s \in Seq(S), NEW x \in S
  PROVE  IsPrefixOf(s, Append(s, x))
<1>1. /\ Len(Append(s, x)) = Len(s) + 1
      /\ Len(s) \in Nat
      /\ DOMAIN s = 1..Len(s)
      /\ \A i \in 1..Len(s) : Append(s, x)[i] = s[i]
  OBVIOUS
<1>2. QED
  BY <1>1 DEF IsPrefixOf

LEMMA PrefixOfItself ==
  ASSUME NEW S, NEW s \in Seq(S)
  PROVE  IsPrefixOf(s, s)
<1>1. Len(s) \in Nat
  OBVIOUS
<1>2. QED
  BY <1>1 DEF IsPrefixOf

\* Before a dossier is created it has no event.
NothingRecorded == status = "absent" => audit = <<>>

LEMMA NothingRecordedNext ==
  ASSUME Next
  PROVE  NothingRecorded'
<1>1. status' # "absent"
  <2>1. CASE Authoring
    BY <2>1 DEF Authoring, Create, ReviseAuthorization, AuthorizationIsOpen, LockConsent,
       SaveTranscript, UpdateTranscript, TranscriptIsOpen, FreezeTranscript, RunCheck,
       StatusAfter
  <2>2. ASSUME NEW items, NEW basis, ResolveIssues(items, basis)
        PROVE  status' # "absent"
    BY <2>2 DEF ResolveIssues, StatusAfter
  <2>3. CASE Remediating
    BY <2>2, <2>3, RemediatingResolves
  <2>4. CASE Deciding
    BY <2>4 DEF Deciding, ConfirmApproved, ConfirmRejected, ReviewApproved, ReviewRejected
  <2>5. QED
    BY <2>1, <2>3, <2>4 DEF Next
<1>2. QED
  BY <1>1 DEF NothingRecorded

\* Every operation adds to the events.
LEMMA AuditGrows ==
  ASSUME TypeOK, NothingRecorded, Next
  PROVE  IsPrefixOf(audit, audit')
<1>1. audit \in Seq(Operations) /\ revision \in Nat
  BY DEF TypeOK
<1>2. ASSUME NEW op \in Operations, Mutate(op)
      PROVE  IsPrefixOf(audit, audit')
  BY <1>1, <1>2, MutateStep, PrefixOfAppend
<1>3. ASSUME NEW who, NEW granted, Create(who, granted)
      PROVE  IsPrefixOf(audit, audit')
  <2>1. audit = <<>> /\ audit' = <<"dossier_created">>
    BY <1>3 DEF Create, NothingRecorded
  <2>2. QED
    BY <2>1 DEF IsPrefixOf
<1>4. QED
  BY <1>2, <1>3, NextMutates

\* What a step does to confirmations, reviews and rounds.
LEMMA DecisionsGrow ==
  ASSUME TypeOK, Next
  PROVE  /\ IsPrefixOf(confirmations, confirmations')
         /\ IsPrefixOf(reviews, reviews')
         /\ \A i \in DOMAIN rounds : rounds[i].outcome # "open" => rounds'[i] = rounds[i]
<1>1. /\ confirmations \in Seq(Confirmation)
      /\ reviews \in Seq(Review)
      /\ rounds \in Seq(Round)
  BY DEF TypeOK
<1>2. CASE UNCHANGED decisionVars
  BY <1>1, <1>2, PrefixOfItself DEF decisionVars
<1>3. CASE Authoring
  BY <1>2, <1>3 DEF Authoring, Create, ReviseAuthorization, LockConsent,
     SaveTranscript, UpdateTranscript, FreezeTranscript, RunCheck
<1>4. CASE Remediating
  BY <1>2, <1>4, RemediatingResolves
<1>5. ASSUME NEW decision \in Decisions, NEW candidate \in Candidate,
             NEW exceptions \in SUBSET Exceptions,
             Answer(decision, candidate, exceptions)
      PROVE  /\ IsPrefixOf(confirmations, confirmations')
             /\ IsPrefixOf(reviews, reviews')
             /\ \A i \in DOMAIN rounds : rounds[i].outcome # "open" => rounds'[i] = rounds[i]
  <2> DEFINE answer == [decision   |-> decision,
                        candidate  |-> candidate,
                        exceptions |-> exceptions]
  <2>1. /\ confirmations' = Append(confirmations, answer)
        /\ reviews' = reviews
        /\ rounds' = EndRound(decision, candidate)
    BY <1>5 DEF Answer
  <2>2. answer \in Confirmation
    BY DEF Confirmation
  <2>3. \A i \in DOMAIN rounds : rounds[i].outcome # "open" => rounds'[i] = rounds[i]
    BY <2>1 DEF EndRound, IsActive
  <2> HIDE DEF answer
  <2>4. IsPrefixOf(confirmations, confirmations')
    BY <1>1, <2>1, <2>2, PrefixOfAppend
  <2>5. IsPrefixOf(reviews, reviews')
    BY <1>1, <2>1, PrefixOfItself
  <2>6. QED
    BY <2>3, <2>4, <2>5
<1>6. ShownCandidates \subseteq Candidate
  <2>1. CurrentCandidate \in Candidate
    BY CandidateType DEF CurrentCandidate, TypeOK
  <2>2. ASSUME NEW i \in DOMAIN confirmations
        PROVE  confirmations[i].candidate \in Candidate
    <3>1. confirmations[i] \in Confirmation
      BY <1>1
    <3>2. QED
      BY <3>1 DEF Confirmation
  <2>3. QED
    BY <2>1, <2>2 DEF ShownCandidates
<1>7. ASSUME NEW decision \in Decisions, NEW reviewer \in Identity, NEW submitted,
             NEW names, Reviewable(reviewer, submitted, names),
             reviews' = Append(reviews, Snapshot(decision, reviewer, names)),
             UNCHANGED confirmations,
             UNCHANGED rounds \/ rounds' = Append(rounds, NewRound(names))
      PROVE  /\ IsPrefixOf(confirmations, confirmations')
             /\ IsPrefixOf(reviews, reviews')
             /\ \A i \in DOMAIN rounds : rounds[i].outcome # "open" => rounds'[i] = rounds[i]
  <2>1. Snapshot(decision, reviewer, names) \in Review
    BY <1>7, SnapshotType
  <2>2. IsPrefixOf(reviews, reviews')
    BY <1>1, <1>7, <2>1, PrefixOfAppend
  <2>3. IsPrefixOf(confirmations, confirmations')
    BY <1>1, <1>7, PrefixOfItself
  <2>4. \A i \in DOMAIN rounds : rounds'[i] = rounds[i]
    <3>1. CASE UNCHANGED rounds
      BY <3>1
    <3>2. CASE rounds' = Append(rounds, NewRound(names))
      <4> DEFINE new == NewRound(names)
      <4>1. rounds \in Seq(Round) /\ rounds' = Append(rounds, new)
        BY <1>1, <3>2
      <4> HIDE DEF new
      <4>2. QED
        BY <4>1
    <3>3. QED
      BY <1>7, <3>1, <3>2
  <2>5. QED
    BY <2>2, <2>3, <2>4
<1>8. CASE Deciding
  <2>1. ASSUME NEW candidate \in ShownCandidates, NEW exceptions \in SUBSET Exceptions,
               \/ ConfirmApproved(candidate, exceptions)
               \/ \E names : ConfirmRejected(candidate, exceptions, names)
        PROVE  \E decision \in Decisions : Answer(decision, candidate, exceptions)
    BY <2>1 DEF ConfirmApproved, ConfirmRejected, Decisions
  <2>2. ASSUME NEW reviewer \in Identity, NEW names, NEW submitted,
               \/ ReviewApproved(reviewer, submitted, names)
               \/ ReviewRejected(reviewer, submitted, names)
        PROVE  /\ Reviewable(reviewer, submitted, names)
               /\ \E decision \in Decisions :
                    reviews' = Append(reviews, Snapshot(decision, reviewer, names))
               /\ UNCHANGED confirmations
               /\ UNCHANGED rounds \/ rounds' = Append(rounds, NewRound(names))
    BY <2>2 DEF ReviewApproved, ReviewRejected, Decisions
  <2>3. QED
    BY <1>5, <1>6, <1>7, <1>8, <2>1, <2>2 DEF Deciding
<1>9. QED
  BY <1>3, <1>4, <1>8 DEF Next

\* No issue is lost, and of its resolutions none.
LEMMA HistoriesGrow ==
  ASSUME TypeOK, NothingEarly, Next
  PROVE  \A k \in DOMAIN issues :
           k \in DOMAIN issues' /\ IsPrefixOf(issues[k].history, issues'[k].history)
<1> DEFINE H == [round : Nat, repl : Replacements]
<1>1. \A k \in DOMAIN issues : issues[k] \in Issue /\ issues[k].history \in Seq(H)
  BY DEF TypeOK, Issue
<1>2. ASSUME NEW k \in DOMAIN issues, k \in DOMAIN issues',
             issues'[k].history = issues[k].history
      PROVE  k \in DOMAIN issues' /\ IsPrefixOf(issues[k].history, issues'[k].history)
  BY <1>1, <1>2, PrefixOfItself
<1>3. CASE Authoring
  <2>1. UNCHANGED issues \/ DOMAIN issues = {}
    BY <1>3 DEF Authoring, Create, ReviseAuthorization, LockConsent,
       SaveTranscript, UpdateTranscript, FreezeTranscript, RunCheck, NothingEarly
  <2>2. QED
    BY <1>2, <2>1
<1>4. CASE Remediating
  <2>1. PICK basis, items : /\ items \in [DOMAIN items -> Fixes]
                            /\ ResolveIssues(items, basis)
    BY <1>4, RemediatingResolves
  <2>2. /\ DOMAIN issues' = DOMAIN issues
        /\ \A k \in DOMAIN items : issues'[k] = ResolvedWith(issues[k], items[k])
        /\ \A k \in DOMAIN issues \ DOMAIN items : issues'[k] = issues[k]
    BY <2>1, ResolveStep
  <2>3. \A k \in DOMAIN items : items[k].repl # <<>>
    BY <2>1 DEF ResolveIssues
  <2>4. ASSUME NEW k \in DOMAIN items, k \in DOMAIN issues
        PROVE  IsPrefixOf(issues[k].history, issues'[k].history)
    <3> DEFINE record == [round |-> issues[k].round, repl |-> items[k].repl]
    <3>1. issues'[k].history = Append(issues[k].history, record)
      <4>1. issues'[k] = ResolvedWith(issues[k], items[k])
        BY <2>2
      <4>2. QED
        BY <4>1 DEF ResolvedWith, Snapshots
    <3>2. items[k].repl \in Replacements
      BY <2>1, <2>3, DossierAssumption
    <3>3. record \in H
      BY <1>1, <2>4, <3>2 DEF Issue
    <3> HIDE DEF record, H
    <3>4. QED
      BY <1>1, <2>4, <3>1, <3>3, PrefixOfAppend
  <2>5. QED
    BY <1>2, <2>2, <2>4
<1>5. CASE Deciding
  <2>1. ASSUME NEW names,
               \/ issues' = Reopened(names)
               \/ \E n : issues' = ReopenedInRound(names, n)
        PROVE  \A k \in DOMAIN issues : /\ k \in DOMAIN issues'
                                        /\ issues'[k].history = issues[k].history
    BY <2>1 DEF Reopened, ReopenedInRound, Reopen
  <2>2. \/ UNCHANGED issues
        \/ \E names : \/ issues' = Reopened(names)
                      \/ \E n : issues' = ReopenedInRound(names, n)
    BY <1>5 DEF Deciding, ConfirmApproved, ConfirmRejected, ReviewApproved,
       ReviewRejected
  <2>3. QED
    BY <1>2, <2>1, <2>2
<1>6. QED
  BY <1>3, <1>4, <1>5 DEF Next

-----------------------------------------------------------------------------
(***************************************************************************)
(* The invariant, with what this module adds to DossierInv.                *)
(***************************************************************************)
RecordsInv ==
  /\ DossierInv
  /\ NothingRecorded
  /\ TranscriptWellFormed
  /\ ReviewedExceptionsFit
  /\ ExceptionsFit
  /\ RoundsInOrder
  /\ ApprovedRoundIsReviewed

LEMMA RecordsInit == Init => RecordsInv
<1> SUFFICES ASSUME Init PROVE RecordsInv
  OBVIOUS
<1>1. DossierInv
  BY InvInit
<1>2. NothingRecorded /\ ReviewedExceptionsFit
  BY DEF Init, NothingRecorded, ReviewedExceptionsFit
<1>3. TranscriptWellFormed
  BY DEF Init, TranscriptWellFormed, Present, NoSegment
<1>4. ExceptionsFit
  BY DEF Init, ExceptionsFit
<1>5. RoundsInOrder /\ ApprovedRoundIsReviewed
  BY DEF Init, RoundsInOrder, ApprovedRoundIsReviewed
<1>6. QED
  BY <1>1, <1>2, <1>3, <1>4, <1>5 DEF RecordsInv

LEMMA RecordsStutter ==
  ASSUME RecordsInv, UNCHANGED dossierVars
  PROVE  RecordsInv'
<1> USE DEF dossierVars, consentVars, decisionVars
<1>1. DossierInv'
  BY StutterKeeps DEF RecordsInv
<1>2. NothingRecorded'
  BY DEF RecordsInv, NothingRecorded
<1>3. TranscriptWellFormed'
  BY DEF RecordsInv, TranscriptWellFormed, TimelineFits, Present
<1>4. ExceptionsFit'
  BY DEF RecordsInv, ExceptionsFit
<1>5. ReviewedExceptionsFit'
  <2>1. CurrentCandidate' = CurrentCandidate
    BY CandidateStays
  <2>2. QED
    BY <2>1 DEF RecordsInv, ReviewedExceptionsFit, ExceptionsAccepted, LatestConfirmation
<1>6. RoundsInOrder' /\ ApprovedRoundIsReviewed'
  BY DEF RecordsInv, RoundsInOrder, ApprovedRoundIsReviewed, Resolved
<1>7. QED
  BY <1>1, <1>2, <1>3, <1>4, <1>5, <1>6 DEF RecordsInv

LEMMA DossierInvNext ==
  ASSUME DossierInv, Next
  PROVE  DossierInv'
BY TypeNext, NothingEarlyNext, AuditNext, AuthorizationNext, StatusNext,
   FixesNext, HistoryNext, ReviewedNext, SealedNext, FindingsNext DEF DossierInv

LEMMA RecordsInvariant == Spec => []RecordsInv
<1>1. ASSUME RecordsInv, Next
      PROVE  RecordsInv'
  <2>1. DossierInv /\ TypeOK
    BY <1>1 DEF RecordsInv, DossierInv
  <2>2. DossierInv' /\ NothingRecorded'
    BY <1>1, <2>1, DossierInvNext, NothingRecordedNext
  <2>3. TranscriptWellFormed'
    BY <1>1, <2>1, WellFormedNext DEF RecordsInv
  <2>4. ReviewedExceptionsFit' /\ ExceptionsFit'
    BY <1>1, <2>1, ExceptionsNext DEF RecordsInv
  <2>5. RoundsInOrder' /\ ApprovedRoundIsReviewed'
    BY <1>1, <2>1, RoundsNext DEF RecordsInv
  <2>6. QED
    BY <2>2, <2>3, <2>4, <2>5 DEF RecordsInv
<1>2. RecordsInv /\ [Next]_dossierVars => RecordsInv'
  BY <1>1, RecordsStutter
<1>3. QED
  BY RecordsInit, <1>2, PTL DEF Spec

-----------------------------------------------------------------------------
\* The transcript in force is one timeline of declared speakers.
THEOREM TranscriptStaysOneTimeline == Spec => []TranscriptWellFormed
<1>1. RecordsInv => TranscriptWellFormed
  BY DEF RecordsInv
<1>2. QED
  BY <1>1, RecordsInvariant, PTL

\* The exceptions a package was reviewed under fit what it publishes.
THEOREM ExceptionsFitWhatIsPublished == Spec => []ExceptionsFit
<1>1. RecordsInv => ExceptionsFit
  BY DEF RecordsInv
<1>2. QED
  BY <1>1, RecordsInvariant, PTL

\* Remediation rounds follow each other, and resolutions count for theirs.
THEOREM RoundsFollowEachOther == Spec => []RoundsInOrder
<1>1. RecordsInv => RoundsInOrder
  BY DEF RecordsInv
<1>2. QED
  BY <1>1, RecordsInvariant, PTL

\* Events, confirmations, reviews, resolutions and ended rounds stay on file.
THEOREM NothingOnFileIsRewritten == Spec => RecordsOnlyGrow
<1>1. ASSUME RecordsInv, Next
      PROVE  RecordsGrow
  <2>1. TypeOK /\ NothingRecorded /\ NothingEarly
    BY <1>1 DEF RecordsInv, DossierInv
  <2>2. QED
    BY <1>1, <2>1, AuditGrows, DecisionsGrow, HistoriesGrow DEF RecordsGrow
<1>2. QED
  BY <1>1, RecordsInvariant, PTL DEF Spec, RecordsOnlyGrow

\* A step that is no rejection and reopens no issue.
LEMMA NothingReopened ==
  ASSUME TypeOK,
         UNCHANGED <<reviews, confirmations>> \/ status' # "remediation",
         \A k \in Resolved(issues) : k \notin Open(issues')
  PROVE  ReopensOnlyNamed
<1>1. Len(reviews) \in Nat /\ Len(confirmations) \in Nat
  BY DEF TypeOK
<1>2. /\ ~(Len(reviews') > Len(reviews) /\ status' = "remediation")
      /\ ~(Len(confirmations') > Len(confirmations) /\ status' = "remediation")
  BY <1>1
<1>3. {k \in Resolved(issues) : k \in Open(issues')} = {}
  OBVIOUS
<1>4. QED
  BY <1>2, <1>3 DEF ReopensOnlyNamed

\* The issues reopened are the resolved ones among those named.
LEMMA ReopenedAreNamed ==
  ASSUME NEW names, names \subseteq Resolved(issues), Reopening(names)
  PROVE  {k \in Resolved(issues) : k \in Open(issues')} = names
<1>1. /\ \A k \in names : k \in DOMAIN issues' /\ issues'[k].status = "open"
      /\ \A k \in DOMAIN issues \ names : issues'[k] = issues[k]
  BY DEF Reopening
<1>2. \A k \in Resolved(issues) : k \in DOMAIN issues /\ issues[k].status = "resolved"
  BY DEF Resolved
<1>3. QED
  BY <1>1, <1>2 DEF Open

LEMMA IssuesStay ==
  ASSUME UNCHANGED issues
  PROVE  \A k \in Resolved(issues) : k \notin Open(issues')
BY DEF Resolved, Open

\* A decision reopens exactly the issues it names: those of a rejected review and
\* those of a rejection by the subject; no other step reopens any.
THEOREM ReopeningIsDecided == Spec => OnlyNamedIssuesReopen
<1>1. ASSUME RecordsInv, Authoring
      PROVE  ReopensOnlyNamed
  <2>1. TypeOK /\ NothingEarly
    BY <1>1 DEF RecordsInv, DossierInv
  <2>2. UNCHANGED <<reviews, confirmations>>
    BY <1>1 DEF Authoring, Create, ReviseAuthorization, LockConsent, SaveTranscript,
       UpdateTranscript, FreezeTranscript, RunCheck, decisionVars
  <2>3. UNCHANGED issues \/ DOMAIN issues = {}
    BY <1>1, <2>1 DEF Authoring, Create, ReviseAuthorization, LockConsent,
       SaveTranscript, UpdateTranscript, FreezeTranscript, RunCheck, NothingEarly
  <2>4. \A k \in Resolved(issues) : k \notin Open(issues')
    BY <2>3, IssuesStay DEF Resolved
  <2>5. QED
    BY <2>1, <2>2, <2>4, NothingReopened
<1>2. ASSUME RecordsInv, Remediating
      PROVE  ReopensOnlyNamed
  <2>1. TypeOK
    BY <1>2 DEF RecordsInv, DossierInv
  <2>2. PICK basis, items : /\ items \in [DOMAIN items -> Fixes]
                            /\ ResolveIssues(items, basis)
    BY <1>2, RemediatingResolves
  <2>3. /\ \A k \in DOMAIN items : issues'[k] = ResolvedWith(issues[k], items[k])
        /\ \A k \in DOMAIN issues \ DOMAIN items : issues'[k] = issues[k]
    BY <2>1, <2>2, ResolveStep
  <2>4. ASSUME NEW k \in Resolved(issues)
        PROVE  k \notin Open(issues')
    <3>1. CASE k \in DOMAIN items
      <4>1. issues'[k] = ResolvedWith(issues[k], items[k])
        BY <2>3, <3>1
      <4>2. issues'[k].status = "resolved"
        BY <4>1 DEF ResolvedWith
      <4>3. QED
        BY <4>2 DEF Open
    <3>2. CASE k \notin DOMAIN items
      BY <2>3, <3>2 DEF Open, Resolved
    <3>3. QED
      BY <3>1, <3>2
  <2>5. UNCHANGED <<reviews, confirmations>>
    BY <1>2, RemediatingResolves DEF decisionVars
  <2>6. QED
    BY <2>1, <2>4, <2>5, NothingReopened
<1>3. ASSUME NEW candidate, NEW exceptions, TypeOK, ConfirmApproved(candidate, exceptions)
      PROVE  ReopensOnlyNamed
  BY <1>3, NothingReopened, IssuesStay DEF ConfirmApproved, Answer
<1>4. ASSUME NEW candidate, NEW exceptions, NEW names, TypeOK,
             ConfirmRejected(candidate, exceptions, names)
      PROVE  ReopensOnlyNamed
  <2>1. Len(reviews) \in Nat /\ Len(confirmations) \in Nat
    BY <1>4 DEF TypeOK
  <2>2. UNCHANGED reviews /\ Len(confirmations') > Len(confirmations)
    <3>1. Answer("rejected", candidate, exceptions)
      BY <1>4 DEF ConfirmRejected
    <3> DEFINE answer == [decision   |-> "rejected",
                          candidate  |-> candidate,
                          exceptions |-> exceptions]
    <3>2. UNCHANGED reviews /\ confirmations' = Append(confirmations, answer)
      BY <3>1 DEF Answer
    <3> HIDE DEF answer
    <3>3. QED
      BY <1>4, <3>2 DEF TypeOK
  <2>3. status' = "remediation"
    BY <1>4 DEF ConfirmRejected
  <2>4. ASSUME NEW given \in SUBSET DOMAIN issues, SubjectRejects(given)
        PROVE  {k \in Resolved(issues) : k \in Open(issues')} = given
    <3>1. PICK shown \in ShownCandidates, parts \in SUBSET Exceptions :
            ConfirmRejected(shown, parts, given)
      BY <2>4 DEF SubjectRejects
    <3>2. Reopening(given)
      BY <1>4, <3>1, ConfirmRejectedStep
    <3>3. given \subseteq Resolved(issues)
      BY <3>1 DEF ConfirmRejected
    <3>4. QED
      BY <3>2, <3>3, ReopenedAreNamed
  <2>5. ~(Len(reviews') > Len(reviews))
    BY <2>1, <2>2
  <2>6. QED
    BY <2>2, <2>3, <2>4, <2>5 DEF ReopensOnlyNamed
<1>5. ASSUME NEW reviewer, NEW names, NEW submitted, TypeOK,
             ReviewApproved(reviewer, submitted, names)
      PROVE  ReopensOnlyNamed
  <2>1. status' = "sealed" /\ UNCHANGED issues
    BY <1>5 DEF ReviewApproved
  <2>2. QED
    BY <1>5, <2>1, IssuesStay, NothingReopened
<1>6. ASSUME NEW reviewer, NEW names, NEW submitted, TypeOK,
             ReviewRejected(reviewer, submitted, names)
      PROVE  ReopensOnlyNamed
  <2> DEFINE snapshot == Snapshot("rejected", reviewer, names)
             round == NewRound(names)
  <2>1. /\ reviews' = Append(reviews, snapshot)
        /\ rounds' = Append(rounds, round)
        /\ issues' = ReopenedInRound(names, Len(rounds) + 1)
        /\ status' = "remediation"
        /\ names \subseteq Resolved(issues)
    BY <1>6 DEF ReviewRejected, Reviewable
  <2>2. snapshot.issues = names /\ round.issues = names
    BY DEF Snapshot, NewRound
  <2> HIDE DEF snapshot, round
  <2>3. /\ Len(reviews') > Len(reviews)
        /\ reviews'[Len(reviews')].issues = names
        /\ rounds'[Len(rounds')].issues = names
    BY <1>6, <2>1, <2>2 DEF TypeOK
  <2>4. {k \in Resolved(issues) : k \in Open(issues')} = names
    BY <1>6, <2>1, ReviewRejectedStep, ReopenedAreNamed
  <2>5. ~(Len(confirmations') > Len(confirmations))
    <3>1. UNCHANGED confirmations /\ Len(confirmations) \in Nat
      BY <1>6 DEF ReviewRejected, TypeOK
    <3>2. QED
      BY <3>1
  <2>6. QED
    BY <2>1, <2>3, <2>4, <2>5 DEF ReopensOnlyNamed
<1>7. ASSUME RecordsInv, Next
      PROVE  ReopensOnlyNamed
  <2>1. TypeOK
    BY <1>7 DEF RecordsInv, DossierInv
  <2>2. CASE Deciding
    BY <1>3, <1>4, <1>5, <1>6, <2>1, <2>2 DEF Deciding
  <2>3. QED
    BY <1>1, <1>2, <1>7, <2>2 DEF Next
<1>8. QED
  BY <1>7, RecordsInvariant, PTL DEF Spec, OnlyNamedIssuesReopen

-----------------------------------------------------------------------------
(***************************************************************************)
(* The promise of Publication.                                             *)
(***************************************************************************)
\* The text of a dossier is one of the texts an interview can become, and its
\* consent one of the consents.
LEMMA MappedTypes ==
  ASSUME TypeOK
  PROVE  /\ CurrentCandidate \in Candidate
         /\ auth \in Authorization \cup {NoAuthorization}
BY CandidateType DEF CurrentCandidate, TypeOK

LEMMA PublicationInit == Init => P!Init
<1> SUFFICES ASSUME Init PROVE P!Init
  OBVIOUS
<1>1. TypeOK
  BY TypeInit
<1>2. StageOf = "none" /\ packages = {}
  BY DEF Init, StageOf
<1>3. QED
  BY <1>1, <1>2, MappedTypes DEF P!Init

LEMMA PublicationStep ==
  ASSUME TypeOK, TypeOK', Next
  PROVE  P!Next
<1> USE DEF P!Next
<1>1. /\ CurrentCandidate' \in Candidate
      /\ auth' \in Authorization \cup {NoAuthorization}
  BY CandidateType DEF CurrentCandidate, TypeOK
<1>2. ASSUME NEW who, NEW granted, Create(who, granted)
      PROVE  P!Next
  <2>1. StageOf = "none" /\ StageOf' = "consenting"
    BY <1>2 DEF Create, StageOf
  <2>2. CurrentCandidate' = CurrentCandidate /\ UNCHANGED packages
    BY <1>2, CandidateStays DEF Create
  <2>3. QED
    BY <1>1, <2>1, <2>2 DEF P!Register
<1>3. ASSUME NEW granted, ReviseAuthorization(granted)
      PROVE  P!Next
  <2>1. StageOf = "consenting" /\ StageOf' = "consenting"
    BY <1>3 DEF ReviseAuthorization, AuthorizationIsOpen, StageOf
  <2>2. CurrentCandidate' = CurrentCandidate /\ UNCHANGED packages
    BY <1>3, CandidateStays DEF ReviseAuthorization
  <2>3. QED
    BY <1>1, <2>1, <2>2 DEF P!Amend
<1>4. CASE LockConsent
  <2>1. StageOf = "consenting" /\ StageOf' = "editing"
    BY <1>4 DEF LockConsent, StageOf
  <2>2. CurrentCandidate' = CurrentCandidate /\ UNCHANGED <<auth, packages>>
    BY <1>4, CandidateStays DEF LockConsent, consentVars
  <2>3. QED
    BY <2>1, <2>2 DEF P!FixConsent
<1>5. ASSUME status \in {"consent_locked", "transcript_frozen", "remediation"},
             status' \in {"consent_locked", "transcript_frozen", "remediation",
                          "awaiting_confirmation"},
             UNCHANGED <<auth, packages>>
      PROVE  P!Next
  <2>1. StageOf = "editing" /\ StageOf' \in {"editing", "offered"}
    BY <1>5 DEF StageOf
  <2>2. QED
    BY <1>1, <1>5, <2>1 DEF P!Edit
<1>6. CASE Authoring
  <2>1. ASSUME \/ \E t \in Submissions : SaveTranscript(t)
               \/ \E t \in Submissions, put, drop \in SUBSET SegmentIds :
                    UpdateTranscript(put, drop, t)
               \/ FreezeTranscript
               \/ RunCheck
        PROVE  P!Next
    BY <1>5, <2>1 DEF SaveTranscript, UpdateTranscript, TranscriptIsOpen, FreezeTranscript,
       RunCheck, StatusAfter, consentVars
  <2>2. QED
    BY <1>2, <1>3, <1>4, <1>6, <2>1 DEF Authoring
<1>7. CASE Remediating
  <2>1. PICK basis, items : ResolveIssues(items, basis)
    BY <1>7, RemediatingResolves
  <2>2. /\ status = "remediation"
        /\ status' \in {"remediation", "awaiting_confirmation"}
    BY <2>1 DEF ResolveIssues, StatusAfter
  <2>3. QED
    BY <1>5, <1>7, <2>2, RemediatingResolves DEF consentVars
<1>8. ASSUME NEW candidate, NEW exceptions, ConfirmApproved(candidate, exceptions)
      PROVE  P!Next
  <2>1. StageOf = "offered" /\ StageOf' = "agreed"
    BY <1>8 DEF ConfirmApproved, Answer, StageOf
  <2>2. CurrentCandidate' = CurrentCandidate /\ UNCHANGED <<auth, packages>>
    BY <1>8, CandidateStays DEF ConfirmApproved, Answer, consentVars
  <2>3. QED
    BY <2>1, <2>2 DEF P!Agree
<1>9. ASSUME status \in {"awaiting_confirmation", "awaiting_review"},
             status' = "remediation",
             UNCHANGED <<auth, packages>>
      PROVE  P!Next
  <2>1. StageOf \in {"offered", "agreed"} /\ StageOf' = "editing"
    BY <1>9 DEF StageOf
  <2>2. QED
    BY <1>1, <1>9, <2>1 DEF P!SendBack
<1>10. ASSUME NEW reviewer, NEW names, NEW submitted,
              ReviewApproved(reviewer, submitted, names)
       PROVE  P!Next
  <2> DEFINE package == ReleasePackage(reviewer, Snapshot("approved", reviewer, names),
                                       AuditOfChange("review_approved"))
  <2>1. StageOf = "agreed" /\ StageOf' = "published"
    BY <1>10 DEF ReviewApproved, Reviewable, StageOf
  <2>2. CurrentCandidate' = CurrentCandidate /\ UNCHANGED auth
    BY <1>10, CandidateStays DEF ReviewApproved, consentVars
  <2>3. packages' = {package}
    BY <1>10 DEF ReviewApproved
  <2>4. package.text = CurrentCandidate /\ package.consent = auth
    BY DEF ReleasePackage
  <2> HIDE DEF package
  <2>5. {[text |-> p.text, consent |-> p.consent] : p \in packages'}
          = {[text |-> CurrentCandidate, consent |-> auth]}
    BY <2>3, <2>4
  <2>6. QED
    BY <2>1, <2>2, <2>5 DEF P!Publish
<1>11. CASE Deciding
  BY <1>8, <1>9, <1>10, <1>11 DEF Deciding, ConfirmRejected, Answer, ReviewRejected,
     Reviewable, consentVars
<1>12. QED
  BY <1>6, <1>7, <1>11 DEF Next

LEMMA PublicationStutter ==
  ASSUME UNCHANGED dossierVars
  PROVE  UNCHANGED P!vars
BY CandidateStays DEF dossierVars, consentVars, StageOf, P!vars

\* A text is published only under the consent it was prepared under, only as the
\* subject agreed to it, and only once.
THEOREM DossierPublishes == Spec => ImplementsPublication
<1>1. RecordsInv => TypeOK
  BY DEF RecordsInv, DossierInv
<1>2. TypeOK /\ TypeOK' /\ [Next]_dossierVars => [P!Next]_(P!vars)
  BY PublicationStep, PublicationStutter
<1>3. QED
  BY <1>1, <1>2, PublicationInit, RecordsInvariant, PTL
     DEF Spec, ImplementsPublication, P!Spec

-----------------------------------------------------------------------------
(***************************************************************************)
(* What can keep a dossier from its confirmation.                          *)
(***************************************************************************)
\* The issues of the active round that stand in the way of an answer are gaps
\* of the timeline, the one rule that does not block.
OnlyGapsAreInTheWay ==
  status = "awaiting_confirmation" =>
    \A i \in DOMAIN rounds :
      IsActive(i) => \A k \in rounds[i].issues \ Resolved(issues) :
                       k \in Open(issues) /\ k.rule = "TIMELINE_GAP"

\* ConfirmStructured can refuse every answer for ever, because ResolveIssues
\* ends a remediation over open warnings of its round.  That is the only way: a
\* round over blockers alone is always complete when the subject is asked.
THEOREM OnlyWarningsStop == Spec => []OnlyGapsAreInTheWay
<1>1. ASSUME RecordsInv PROVE OnlyGapsAreInTheWay
  <2> SUFFICES ASSUME status = "awaiting_confirmation",
                      NEW i \in DOMAIN rounds, IsActive(i),
                      NEW k \in rounds[i].issues, k \notin Resolved(issues)
               PROVE  k \in Open(issues) /\ k.rule = "TIMELINE_GAP"
    BY DEF OnlyGapsAreInTheWay
  <2>1. k \in DOMAIN issues
    BY <1>1 DEF RecordsInv, RoundsInOrder, IsActive
  <2>2. issues[k].status \in {"open", "resolved"}
    BY <1>1, <2>1 DEF RecordsInv, DossierInv, TypeOK, Issue
  <2>3. k \in Open(issues)
    BY <2>1, <2>2 DEF Open, Resolved
  <2>4. ~HasOpenBlockers(issues)
    BY <1>1 DEF RecordsInv, DossierInv, StatusMatchesIssues
  <2>5. QED
    BY <2>3, <2>4 DEF HasOpenBlockers, IsBlocker
<1>2. RecordsInv => OnlyGapsAreInTheWay
  BY <1>1
<1>3. QED
  BY <1>2, RecordsInvariant, PTL

-----------------------------------------------------------------------------
(***************************************************************************)
(* What can keep a dossier in remediation.                                 *)
(***************************************************************************)
\* The fixes in force leave no rune of the issue's segment in the clear.
MaskedOver(k) ==
  \A i \in 1..Len(transcript[k.seg].text) :
    \E l \in Resolved(issues) :
      /\ l.seg = k.seg
      /\ issues[l].start < i
      /\ i <= issues[l].end

\* ResolveIssues accepts some range for an open issue unless the segment is
\* masked over, and then it accepts none.
OnlyMaskedOverStops ==
  status = "remediation" =>
    \A k \in Open(issues), repl \in Replacements :
      CanBeResolved(k, repl) <=> ~MaskedOver(k)

\* What RangesAccepted sees of an open issue under a fix: the ranges of the
\* issues resolved before, and the range of the fix.
LEMMA OneMore ==
  ASSUME NEW k \in Open(issues), NEW fix, NEW is,
         is = [issues EXCEPT ![k] = ResolvedWith(issues[k], fix)]
  PROVE  /\ Resolved(is) = Resolved(issues) \cup {k}
         /\ k \notin Resolved(issues)
         /\ is[k].start = fix.start /\ is[k].end = fix.end
         /\ \A l \in Resolved(issues) : is[l] = issues[l]
<1>1. k \in DOMAIN issues /\ issues[k].status = "open"
  BY DEF Open
<1>2. is[k] = ResolvedWith(issues[k], fix) /\ DOMAIN is = DOMAIN issues
  BY <1>1
<1>3. \A l \in DOMAIN issues \ {k} : is[l] = issues[l]
  OBVIOUS
<1>4. is[k].status = "resolved" /\ is[k].start = fix.start /\ is[k].end = fix.end
  BY <1>2 DEF ResolvedWith
<1>5. k \notin Resolved(issues)
  BY <1>1 DEF Resolved
<1>6. QED
  BY <1>1, <1>2, <1>3, <1>4, <1>5 DEF Resolved

\* The overlap check can refuse every further fix of an open issue, because a
\* fix already accepted may span the whole segment.  That is the only way: while
\* a rune is in the clear, the issue can be resolved with it.
THEOREM OnlyMaskedSegmentsStop == Spec => []OnlyMaskedOverStops
<1>1. ASSUME TypeOK, FixesFit, NEW k \in Open(issues), NEW repl \in Replacements,
             ~MaskedOver(k)
      PROVE  CanBeResolved(k, repl)
  <2> DEFINE n == Len(transcript[k.seg].text)
  <2>1. PICK i \in 1..n : \A l \in Resolved(issues) :
                            l.seg = k.seg => ~(issues[l].start < i /\ i <= issues[l].end)
    BY <1>1 DEF MaskedOver
  <2> DEFINE fix == [start |-> i - 1, end |-> i, repl |-> repl]
             is == [issues EXCEPT ![k] = ResolvedWith(issues[k], fix)]
  <2>2. n \in Nat
    <3>1. k.seg \in SegmentIds
      BY <1>1 DEF TypeOK, Open, IssueKey
    <3>2. QED
      BY <1>1, <3>1 DEF TypeOK, Transcript, Segment
  <2>3. fix.start = i - 1 /\ fix.end = i
    OBVIOUS
  <2>4. /\ Resolved(is) = Resolved(issues) \cup {k}
        /\ is[k].start = i - 1 /\ is[k].end = i
        /\ \A l \in Resolved(issues) : is[l] = issues[l]
    BY <2>3, OneMore
  <2>5. \A l \in Resolved(issues) : issues[l].start \in Nat /\ issues[l].end \in Nat
    BY <1>1 DEF TypeOK, Resolved, Issue
  <2> HIDE DEF n, fix, is
  <2>6. RangeIn(is[k], n)
    BY <2>1, <2>2, <2>4 DEF RangeIn
  <2>7. ASSUME NEW l \in Resolved(issues), l.seg = k.seg
        PROVE  ~Overlap(is[k], is[l]) /\ ~Overlap(is[l], is[k])
    <3>1. ~(issues[l].start < i /\ i <= issues[l].end)
      BY <2>1, <2>7
    <3>2. QED
      BY <2>2, <2>4, <2>5, <3>1 DEF Overlap
  <2>8. ASSUME NEW l \in Resolved(issues), NEW m \in Resolved(issues),
               l # m, l.seg = m.seg
        PROVE  ~Overlap(is[l], is[m])
    BY <1>1, <2>4, <2>8 DEF FixesFit
  <2>9. RangesAccepted({k}, is)
    BY <2>4, <2>6, <2>7, <2>8 DEF RangesAccepted, n
  <2>10. Acceptable(k, fix)
    BY <2>9 DEF Acceptable, is
  <2>11. i - 1 \in 0..n /\ i \in 0..n
    BY <2>1, <2>2
  <2>12. QED
    BY <2>10, <2>11 DEF CanBeResolved, fix, n
<1>2. ASSUME TypeOK, NEW k \in Open(issues), NEW repl \in Replacements,
             NEW start, NEW end,
             start \in 0..Len(transcript[k.seg].text),
             end \in 0..Len(transcript[k.seg].text),
             Acceptable(k, [start |-> start, end |-> end, repl |-> repl])
      PROVE  ~MaskedOver(k)
  <2> DEFINE n == Len(transcript[k.seg].text)
             fix == [start |-> start, end |-> end, repl |-> repl]
             is == [issues EXCEPT ![k] = ResolvedWith(issues[k], fix)]
  <2>1. fix.start = start /\ fix.end = end
    OBVIOUS
  <2>2. /\ Resolved(is) = Resolved(issues) \cup {k}
        /\ k \notin Resolved(issues)
        /\ is[k].start = start /\ is[k].end = end
        /\ \A l \in Resolved(issues) : is[l] = issues[l]
    BY <2>1, OneMore
  <2>3. RangesAccepted({k}, is)
    BY <1>2 DEF Acceptable
  <2>4. n \in Nat
    <3>1. k.seg \in SegmentIds
      BY <1>2 DEF TypeOK, Open, IssueKey
    <3>2. QED
      BY <1>2, <3>1 DEF TypeOK, Transcript, Segment
  <2> HIDE DEF fix, is
  <2>5. RangeIn(is[k], n)
    BY <2>3 DEF RangesAccepted
  <2>6. start \in 0..n /\ end \in 0..n
    BY <1>2
  <2> HIDE DEF n
  <2>7. start + 1 \in 1..n /\ start + 1 <= end
    BY <2>2, <2>4, <2>5, <2>6 DEF RangeIn
  <2>8. ASSUME NEW l \in Resolved(issues), l.seg = k.seg,
               issues[l].start < start + 1, start + 1 <= issues[l].end
        PROVE  FALSE
    <3>1. ~Overlap(is[k], is[l])
      BY <2>2, <2>3, <2>8 DEF RangesAccepted
    <3>2. issues[l].start \in Nat /\ issues[l].end \in Nat
      BY <1>2 DEF TypeOK, Resolved, Issue
    <3>3. QED
      BY <2>2, <2>6, <2>7, <2>8, <3>1, <3>2 DEF Overlap
  <2>9. QED
    BY <2>7, <2>8 DEF MaskedOver, n
<1>3. RecordsInv => OnlyMaskedOverStops
  <2>1. SUFFICES ASSUME TypeOK, FixesFit, NEW k \in Open(issues), NEW repl \in Replacements
                 PROVE  CanBeResolved(k, repl) <=> ~MaskedOver(k)
    BY DEF RecordsInv, DossierInv, OnlyMaskedOverStops
  <2>2. CanBeResolved(k, repl) => ~MaskedOver(k)
    BY <1>2, <2>1 DEF CanBeResolved
  <2>3. QED
    BY <1>1, <2>1, <2>2
<1>4. QED
  BY <1>3, RecordsInvariant, PTL

-----------------------------------------------------------------------------
(***************************************************************************)
(* Who can review the own dossier.                                         *)
(***************************************************************************)
\* Whoever seals a dossier under a name without padding is not its editor.
OnlyPaddingPasses ==
  \A p \in packages : p.reviewer = Clean(p.reviewer) => p.reviewer.name # editor.name

\* The editor is on file without padding, and a package is there only once the
\* dossier is sealed, by somebody whose identity is not the one on file.
EditorIsClean == editor = Clean(editor)
ReviewerDiffers ==
  \A p \in packages : status = "sealed" /\ p.reviewer # editor

EditorInv == EditorIsClean /\ ReviewerDiffers

LEMMA EditorNext ==
  ASSUME EditorInv, Next
  PROVE  EditorInv'
<1>1. packages = {}
  BY SealedStops DEF EditorInv, ReviewerDiffers
<1>2. ASSUME NEW who \in Identity, NEW granted \in Authorization, Create(who, granted)
      PROVE  EditorInv'
  BY <1>1, <1>2 DEF Create, Clean, EditorInv, EditorIsClean, ReviewerDiffers
<1>3. ASSUME NEW reviewer \in Identity, NEW names, NEW submitted,
             ReviewApproved(reviewer, submitted, names)
      PROVE  EditorInv'
  <2>1. reviewer # editor /\ editor' = editor /\ status' = "sealed"
    BY <1>3 DEF ReviewApproved, Reviewable, consentVars
  <2>2. \A p \in packages' : p.reviewer = reviewer
    BY <1>3 DEF ReviewApproved, ReleasePackage
  <2>3. QED
    BY <2>1, <2>2 DEF EditorInv, EditorIsClean, ReviewerDiffers
<1>4. CASE UNCHANGED <<editor, packages>>
  BY <1>1, <1>4 DEF EditorInv, EditorIsClean, ReviewerDiffers
<1>5. CASE Authoring
  BY <1>2, <1>4, <1>5 DEF Authoring, ReviseAuthorization, LockConsent, SaveTranscript,
     UpdateTranscript, FreezeTranscript, RunCheck, consentVars
<1>6. CASE Remediating
  BY <1>4, <1>6, RemediatingResolves DEF consentVars
<1>7. CASE Deciding
  BY <1>3, <1>4, <1>7 DEF Deciding, ConfirmApproved, ConfirmRejected, Answer,
     ReviewRejected, consentVars
<1>8. QED
  BY <1>5, <1>6, <1>7 DEF Next

\* SubmitReview compares the names as they are typed with the trimmed one on
\* file, so an editor can pass as a reviewer.  Padding is the only way: whoever
\* reviews under a trimmed name has another name than the editor.
THEOREM OnlyPaddingDeceives == Spec => []OnlyPaddingPasses
<1>1. Init => EditorInv
  <2>1. Init => editor = NoIdentity /\ packages = {}
    BY DEF Init
  <2>2. Clean(NoIdentity) = NoIdentity
    BY DEF Clean, NoIdentity
  <2>3. QED
    BY <2>1, <2>2 DEF EditorInv, EditorIsClean, ReviewerDiffers
<1>2. EditorInv /\ [Next]_dossierVars => EditorInv'
  <2>1. CASE UNCHANGED dossierVars
    BY <2>1 DEF EditorInv, EditorIsClean, ReviewerDiffers, dossierVars, consentVars
  <2>2. QED
    BY <2>1, EditorNext
<1>3. EditorInv => OnlyPaddingPasses
  <2> SUFFICES ASSUME EditorInv, NEW p \in packages, p.reviewer = Clean(p.reviewer),
                      p.reviewer.name = editor.name
               PROVE  FALSE
    BY DEF OnlyPaddingPasses
  <2>1. Clean(p.reviewer) = Clean(editor)
    BY DEF Clean
  <2>2. QED
    BY <2>1 DEF EditorInv, EditorIsClean, ReviewerDiffers
<1>4. QED
  BY <1>1, <1>2, <1>3, PTL DEF Spec

-----------------------------------------------------------------------------
(***************************************************************************)
(* The loops over the ranges of a segment.                                 *)
(***************************************************************************)
IssuesOf(id) == {k \in DOMAIN issues : k.seg = id}

\* A segment has finitely many issues: each is about a place in its text.
LEMMA FindingsAreFinite ==
  ASSUME NEW t \in Transcript, NEW uses, NEW id \in SegmentIds
  PROVE  IsFiniteSet({k \in CheckEligibility(t, uses) : k.seg = id})
<1> DEFINE n == Len(t[id].text)
           At(rule) == [i \in 1..n |-> Finding(id, rule, i - 1, i)]
           Reported(rule) == {At(rule)[i] : i \in 1..n}
           whole == {Finding(id, "TIMELINE_GAP", 0, 0),
                     Finding(id, "UNDECLARED_SPEAKER", 0, n)}
           identifiers == Reported("DIRECT_IDENTIFIER")
           unauthorized == Reported("UNAUTHORIZED_USE")
           all == (whole \cup identifiers) \cup unauthorized
<1>1. n \in Nat /\ IsFiniteSet(1..n)
  <2>1. t[id].text \in Seq(Token)
    BY DEF Transcript, Segment
  <2>2. n \in Nat
    BY <2>1
  <2> HIDE DEF n
  <2>3. QED
    BY <2>2, FS_Interval
<1>2. ASSUME NEW rule PROVE IsFiniteSet(Reported(rule))
  <2> DEFINE f == At(rule)
             R == {f[i] : i \in 1..n}
  <2>1. f \in Surjection(1..n, R)
    <3> HIDE DEF n
    <3>1. f \in [1..n -> R]
      OBVIOUS
    <3> HIDE DEF f
    <3>2. QED
      BY <3>1 DEF Surjection
  <2>2. IsFiniteSet(R)
    <3> HIDE DEF f, R, n
    <3>1. QED
      BY <1>1, <2>1, FS_Surjection
  <2>3. QED
    BY <2>2
<1>3. IsFiniteSet(whole)
  <2> DEFINE gap == Finding(id, "TIMELINE_GAP", 0, 0)
             speaker == Finding(id, "UNDECLARED_SPEAKER", 0, n)
  <2>1. whole = {gap} \cup {speaker}
    OBVIOUS
  <2> HIDE DEF gap, speaker
  <2>2. IsFiniteSet({gap}) /\ IsFiniteSet({speaker})
    BY FS_Singleton
  <2>3. IsFiniteSet({gap} \cup {speaker})
    BY <2>2, FS_Union
  <2>4. QED
    BY <2>1, <2>3
<1>4. IsFiniteSet(all)
  <2>1. IsFiniteSet(identifiers) /\ IsFiniteSet(unauthorized)
    BY <1>2
  <2> HIDE DEF whole, identifiers, unauthorized
  <2>2. IsFiniteSet(whole \cup identifiers)
    BY <1>3, <2>1, FS_Union
  <2>3. QED
    BY <2>1, <2>2, FS_Union
<1>5. ASSUME NEW k \in CheckEligibility(t, uses), k.seg = id
      PROVE  k \in all
  <2> USE DEF Finding
  <2>1. CASE k \in Gaps(t)
    BY <1>5, <2>1 DEF Gaps
  <2>2. CASE k \in UndeclaredSpeakers(t)
    BY <1>5, <2>2 DEF UndeclaredSpeakers
  <2>3. ASSUME NEW toks, NEW rule, k \in TokenFindings(t, toks, rule)
        PROVE  k \in Reported(rule)
    <3>1. PICK s \in Present(t) : \E i \in 1..Len(t[s].text) :
            k = Finding(s, rule, i - 1, i)
      BY <2>3 DEF TokenFindings
    <3>2. s = id
      BY <1>5, <3>1
    <3>3. \E i \in 1..n : k = At(rule)[i]
      BY <3>1, <3>2
    <3>4. QED
      BY <3>3
  <2>4. QED
    BY <2>1, <2>2, <2>3 DEF CheckEligibility
<1>6. {k \in CheckEligibility(t, uses) : k.seg = id} \in SUBSET all
  BY <1>5
<1> HIDE DEF all
<1>7. QED
  BY <1>4, <1>6, FS_Subset

LEMMA IssuesAreFinite ==
  ASSUME DossierInv, NEW id \in SegmentIds, NEW K \in SUBSET IssuesOf(id)
  PROVE  IsFiniteSet(K)
<1>1. IsFiniteSet(IssuesOf(id))
  <2>1. CASE status \in {"absent", "draft", "consent_locked", "transcript_frozen"}
    <3>1. IssuesOf(id) = {}
      BY <2>1 DEF DossierInv, NothingEarly, IssuesOf
    <3>2. QED
      BY <3>1, FS_EmptySet
  <2>2. CASE status \in {"remediation", "awaiting_confirmation", "awaiting_review",
                         "sealed"}
    <3>1. DOMAIN issues = CheckEligibility(transcript, auth.uses)
      BY <2>2 DEF DossierInv, FindingsStand
    <3>2. transcript \in Transcript
      BY DEF DossierInv, TypeOK
    <3>3. IssuesOf(id) = {k \in CheckEligibility(transcript, auth.uses) : k.seg = id}
      BY <3>1 DEF IssuesOf
    <3>4. QED
      BY <3>2, <3>3, FindingsAreFinite
  <2>3. QED
    BY <2>1, <2>2 DEF DossierInv, TypeOK, Statuses
<1>2. QED
  BY <1>1, FS_Subset

\* What is in force of an issue: its place in the text, and the replacement.
LEMMA FixInForce ==
  ASSUME DossierInv, NEW k \in Resolved(issues)
  PROVE  /\ issues[k].start \in Nat /\ issues[k].end \in Nat
         /\ issues[k].start < issues[k].end
         /\ RangeIn(issues[k], Len(transcript[k.seg].text))
         /\ issues[k].repl \in Seq(Token)
<1>1. k \in DOMAIN issues /\ issues[k] \in Issue
  BY DEF Resolved, DossierInv, TypeOK
<1>2. RangeIn(issues[k], Len(transcript[k.seg].text))
  BY DEF DossierInv, FixesFit
<1>3. QED
  BY <1>1, <1>2 DEF Issue, RangeIn

\* The scan over sorted neighbours finds an overlap of the ranges then in force
\* exactly when there is one, for any batch of fixes.
THEOREM ScansAreExact == Spec => []ScanIsExact
<1>1. ASSUME DossierInv PROVE ScanIsExact
  <2> SUFFICES ASSUME NEW id \in Present(transcript),
                      NEW K \in SUBSET {k \in Open(issues) : k.seg = id},
                      NEW items \in [K -> {RangeOf(f) : f \in {g \in Fixes :
                                       RangeIn(g, Len(transcript[id].text))}}]
               PROVE  LET inForce == K \cup {k \in Resolved(issues) : k.seg = id}
                          is == [k \in inForce |-> IF k \in K THEN items[k]
                                                   ELSE RangeOf(issues[k])]
                      IN  \A s \in Ascending(is) :
                            NeighboursOverlap(s) <=>
                              \E k, l \in inForce : k # l /\ Overlap(is[k], is[l])
    BY DEF ScanIsExact
  <2> DEFINE inForce == K \cup {k \in Resolved(issues) : k.seg = id}
             is == [k \in inForce |-> IF k \in K THEN items[k]
                                      ELSE RangeOf(issues[k])]
             R == [start : Int, end : Int]
  <2>1. id \in SegmentIds
    BY DEF Present
  <2>2. inForce \in SUBSET IssuesOf(id)
    BY DEF IssuesOf, Open, Resolved
  <2>3. IsFiniteSet(inForce)
    <3> HIDE DEF inForce
    <3>1. QED
      BY <1>1, <2>1, <2>2, IssuesAreFinite
  <2>4. ASSUME NEW k \in inForce
        PROVE  is[k] \in R /\ is[k].start < is[k].end
    <3>1. CASE k \in K
      <4>1. PICK f \in Fixes : /\ RangeIn(f, Len(transcript[id].text))
                               /\ items[k] = RangeOf(f)
        BY <3>1
      <4>2. f.start \in Int /\ f.end \in Int /\ f.start < f.end
        BY <4>1, DossierAssumption DEF RangeIn
      <4>3. is[k] = RangeOf(f)
        BY <3>1, <4>1
      <4>4. QED
        BY <4>2, <4>3 DEF RangeOf
    <3>2. CASE k \notin K
      <4>1. k \in Resolved(issues) /\ is[k] = RangeOf(issues[k])
        BY <3>2
      <4>2. /\ issues[k].start \in Nat /\ issues[k].end \in Nat
            /\ issues[k].start < issues[k].end
        BY <1>1, <4>1, FixInForce
      <4>3. QED
        BY <4>1, <4>2 DEF RangeOf
    <3>3. QED
      BY <3>1, <3>2
  <2>5. is \in [inForce -> R] /\ IsRanges(is)
    BY <2>4 DEF IsRanges
  <2> HIDE DEF is, inForce, R
  <2>6. \A s \in Ascending(is) :
          NeighboursOverlap(s) <=>
            \E k, l \in inForce : k # l /\ Overlap(is[k], is[l])
    BY <2>3, <2>5, ScanFindsOverlaps
  <2>7. QED
    BY <2>6 DEF is, inForce
<1>2. DossierInv => ScanIsExact
  BY <1>1
<1>3. QED
  BY <1>2, DossierInvariant, PTL

\* Splicing in the fixes in force, from the last to the first, is never refused
\* and yields the candidate text.
THEOREM SplicesAreRight == Spec => []SplicesSpellPieces
<1>1. ASSUME DossierInv PROVE SplicesSpellPieces
  <2> SUFFICES ASSUME NEW id \in Present(transcript)
               PROVE  LET text == transcript[id].text
                          inForce == {k \in Resolved(issues) : k.seg = id}
                      IN  \A s \in Descending([k \in inForce |-> FixOf(issues, k)]) :
                            /\ \A i \in DOMAIN s :
                                 RangeIn(s[i], Len(Splicing(text, s)[i-1]))
                            /\ Splicing(text, s)[Len(s)] = Spelled(CurrentCandidate[id])
    BY DEF SplicesSpellPieces
  <2> DEFINE text == transcript[id].text
             inForce == {k \in Resolved(issues) : k.seg = id}
             is == [k \in inForce |-> FixOf(issues, k)]
             R == [start : Int, end : Int, repl : Seq(Token)]
  <2>1. id \in SegmentIds /\ text \in Seq(Token)
    BY <1>1 DEF Present, DossierInv, TypeOK, Transcript, Segment
  <2>2. inForce \in SUBSET IssuesOf(id)
    BY DEF IssuesOf, Resolved
  <2>3. IsFiniteSet(inForce)
    <3> HIDE DEF inForce
    <3>1. QED
      BY <1>1, <2>1, <2>2, IssuesAreFinite
  <2>4. ASSUME NEW k \in inForce
        PROVE  /\ is[k] \in R /\ is[k].start < is[k].end
               /\ RangeIn(is[k], Len(text))
    <3>1. k \in Resolved(issues) /\ k.seg = id /\ is[k] = FixOf(issues, k)
      OBVIOUS
    <3>2. /\ issues[k].start \in Nat /\ issues[k].end \in Nat
          /\ issues[k].start < issues[k].end
          /\ RangeIn(issues[k], Len(transcript[k.seg].text))
          /\ issues[k].repl \in Seq(Token)
      BY <1>1, <3>1, FixInForce
    <3>3. QED
      BY <3>1, <3>2 DEF FixOf, RangeIn
  <2>5. is \in [inForce -> R]
    BY <2>4
  <2>6. Apart(is)
    <3>1. ASSUME NEW k \in inForce, NEW l \in inForce, k # l
          PROVE  ~Overlap(FixOf(issues, k), FixOf(issues, l))
      <4>1. ~Overlap(issues[k], issues[l])
        BY <1>1, <3>1 DEF DossierInv, FixesFit
      <4>2. QED
        BY <4>1 DEF Overlap, FixOf
    <3>2. QED
      BY <3>1 DEF Apart
  <2>7. Pieces(text, Range(is)) = CurrentCandidate[id]
    <3>1. Range(is) = {FixOf(issues, k) : k \in inForce}
      BY DEF Range
    <3>2. CurrentCandidate[id] = Pieces(text, {FixOf(issues, k) : k \in inForce})
      BY <2>1 DEF CurrentCandidate, CandidateText
    <3>3. QED
      BY <3>1, <3>2
  <2> HIDE DEF is, inForce, text
  <2>8. AreFixes(is, text, Token)
    BY <2>4, <2>5 DEF AreFixes
  <2> HIDE DEF R
  <2>9. ASSUME NEW s, s \in Descending(is)
        PROVE  /\ \A i \in DOMAIN s : RangeIn(s[i], Len(Splicing(text, s)[i-1]))
               /\ Splicing(text, s)[Len(s)] = Spelled(CurrentCandidate[id])
    <3>1. /\ \A i \in DOMAIN s : RangeIn(s[i], Len(Splicing(text, s)[i-1]))
          /\ Splicing(text, s)[Len(s)] = Spelled(Pieces(text, Range(is)))
      BY ONLY <2>1, <2>3, <2>5, <2>6, <2>8, <2>9, LoopSpellsPieces
    <3>2. QED
      BY <2>7, <3>1
  <2>10. QED
    BY <2>9 DEF is, inForce, text
<1>2. DossierInv => SplicesSpellPieces
  BY <1>1
<1>3. QED
  BY <1>2, DossierInvariant, PTL
=============================================================================
