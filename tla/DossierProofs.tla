---------------------------- MODULE DossierProofs ----------------------------
(***************************************************************************)
(* The safety of a dossier for every value of the constants: its types,    *)
(* and that what is under review or published is what the subject agreed   *)
(* to, the records agree with each other, fixes never collide and packages *)
(* verify.                                                                 *)
(*                                                                         *)
(* The parts of the invariant are proved one by one.  Each has a lemma     *)
(* that goes through the steps which can disturb it; the only part that is *)
(* there for the sake of another is NothingEarly: a transcript can still   *)
(* change when no fix can refer to it, because no issue exists yet.        *)
(***************************************************************************)
EXTENDS Dossier, TLAPS

-----------------------------------------------------------------------------
(***************************************************************************)
(* Lemmas about the operators of the model.                                *)
(***************************************************************************)

\* The event of an operation is appended exactly once, by the change itself or
\* by mutateWithBody.
LEMMA MutateStep ==
  ASSUME NEW op \in Operations, audit \in Seq(Operations), revision \in Nat,
         Mutate(op)
  PROVE  /\ status \notin {"absent", "sealed"}
         /\ revision' = revision + 1
         /\ audit' = Append(audit, op)
<1>1. Append(audit, op) \o <<>> = Append(audit, op)
  OBVIOUS
<1>2. audit \o <<op>> = Append(audit, op)
  OBVIOUS
<1>3. AuditOfChange(op) \o ServiceEvent(op) = Append(audit, op)
  <2>1. CASE op = "review_approved"
    BY <1>1, <2>1 DEF AuditOfChange, ServiceEvent
  <2>2. CASE op # "review_approved"
    BY <1>2, <2>2 DEF AuditOfChange, ServiceEvent
  <2>3. QED
    BY <2>1, <2>2
<1>4. QED
  BY <1>3 DEF Mutate

\* A text whose fixes replace by texts falls into texts.
LEMMA PiecesType ==
  ASSUME NEW t \in Seq(Token), NEW F, \A f \in F : f.repl \in Seq(Token)
  PROVE  Pieces(t, F) \in Seq(Seq(Token))
<1> DEFINE piece(i) == IF \E f \in F : f.start = i - 1
                         THEN (CHOOSE f \in F : f.start = i - 1).repl
                       ELSE IF \E f \in F : f.start < i - 1 /\ i - 1 < f.end
                         THEN <<>>
                       ELSE <<t[i]>>
<1>1. ASSUME NEW i \in 1..Len(t)
      PROVE  piece(i) \in Seq(Token)
  <2>1. CASE \E f \in F : f.start = i - 1
    <3>1. (CHOOSE f \in F : f.start = i - 1) \in F
      BY <2>1
    <3>2. QED
      BY <2>1, <3>1
  <2>2. CASE ~(\E f \in F : f.start = i - 1)
    <3>1. t[i] \in Token
      OBVIOUS
    <3>2. <<t[i]>> \in Seq(Token) /\ <<>> \in Seq(Token)
      BY <3>1
    <3>3. QED
      BY <2>2, <3>2
  <2>3. QED
    BY <2>1, <2>2
<1>2. Pieces(t, F) = [i \in 1..Len(t) |-> piece(i)]
  BY DEF Pieces
<1>3. [i \in 1..Len(t) |-> piece(i)] \in [1..Len(t) -> Seq(Token)]
  BY <1>1
<1>4. Len(t) \in Nat
  OBVIOUS
<1> HIDE DEF piece
<1>5. QED
  BY <1>2, <1>3, <1>4

\* The candidate text of a transcript under some issues is well-formed.
LEMMA CandidateType ==
  ASSUME NEW t \in Transcript, NEW is, is \in [DOMAIN is -> Issue]
  PROVE  CandidateText(t, is) \in Candidate
<1> DEFINE fixes(id) == {FixOf(is, k) : k \in {r \in Resolved(is) : r.seg = id}}
<1>1. ASSUME NEW id \in SegmentIds
      PROVE  Pieces(t[id].text, fixes(id)) \in Seq(Seq(Token))
  <2>1. t[id].text \in Seq(Token)
    BY DEF Transcript, Segment
  <2>2. \A f \in fixes(id) : f.repl \in Seq(Token)
    BY DEF FixOf, Resolved, Issue
  <2> HIDE DEF fixes
  <2>3. QED
    BY <2>1, <2>2, PiecesType
<1>2. QED
  BY <1>1 DEF CandidateText, Candidate

\* Resolving an issue with an accepted fix yields an issue.
LEMMA ResolvedWithType ==
  ASSUME NEW issue \in Issue, NEW fix,
         fix.start \in Nat, fix.end \in Nat, fix.repl \in Replacements
  PROVE  /\ ResolvedWith(issue, fix) \in Issue
         /\ ResolvedWith(issue, fix).status = "resolved"
         /\ ResolvedWith(issue, fix).start = fix.start
         /\ ResolvedWith(issue, fix).end = fix.end
         /\ ResolvedWith(issue, fix).repl = fix.repl
         /\ ResolvedWith(issue, fix).round = issue.round
         /\ ResolvedWith(issue, fix).history =
              Append(issue.history, [round |-> issue.round, repl |-> fix.repl])
<1>1. fix.repl \in Seq(Token)
  BY DossierAssumption
<1>2. [round |-> issue.round, repl |-> fix.repl] \in [round : Nat, repl : Replacements]
  BY DEF Issue
<1>3. issue.history \in Seq([round : Nat, repl : Replacements])
  BY DEF Issue
<1>4. Append(issue.history, [round |-> issue.round, repl |-> fix.repl])
        \in Seq([round : Nat, repl : Replacements])
  BY <1>2, <1>3
<1>5. QED
  BY <1>1, <1>4 DEF ResolvedWith, Snapshots, Issue

\* Reopening an issue yields an issue.
LEMMA ReopenType ==
  ASSUME NEW issue \in Issue, NEW n \in Nat
  PROVE  Reopen(issue, n) \in Issue
  BY DEF Reopen, Issue

\* The timeline checks keep a transcript a transcript.
LEMMA DeclaredType ==
  ASSUME NEW t \in Transcript
  PROVE  Declared(t) \in Transcript
  BY DEF Declared, Transcript, Segment, Undeclared

LEMMA MergedType ==
  ASSUME NEW t \in Transcript, NEW put, NEW drop, transcript \in Transcript
  PROVE  Merged(put, drop, t) \in Transcript
<1>1. NoSegment \in Segment
  BY DEF NoSegment, Segment
<1>2. QED
  BY <1>1 DEF Merged, Transcript

\* The check yields issue keys.
LEMMA CheckType ==
  ASSUME NEW t \in Transcript, NEW uses
  PROVE  CheckEligibility(t, uses) \subseteq IssueKey
<1>1. ASSUME NEW id \in SegmentIds
      PROVE  /\ t[id].text \in Seq(Token)
             /\ Len(t[id].text) \in Nat
  BY DEF Transcript, Segment
<1>2. Gaps(t) \subseteq IssueKey
  BY DEF Gaps, Finding, IssueKey, Rules, Present
<1>3. UndeclaredSpeakers(t) \subseteq IssueKey
  BY <1>1 DEF UndeclaredSpeakers, Finding, IssueKey, Rules, Present
<1>4. ASSUME NEW toks, NEW rule \in Rules
      PROVE  TokenFindings(t, toks, rule) \subseteq IssueKey
  <2>1. ASSUME NEW id \in Present(t), NEW i \in 1..Len(t[id].text)
        PROVE  Finding(id, rule, i - 1, i) \in IssueKey
    BY <1>1 DEF Finding, IssueKey, Present
  <2>2. QED
    BY <2>1 DEF TokenFindings
<1>5. "DIRECT_IDENTIFIER" \in Rules /\ "UNAUTHORIZED_USE" \in Rules
  BY DEF Rules
<1>6. QED
  BY <1>2, <1>3, <1>4, <1>5 DEF CheckEligibility

-----------------------------------------------------------------------------
(***************************************************************************)
(* Type correctness.                                                       *)
(***************************************************************************)
LEMMA TypeInit == Init => TypeOK
<1> SUFFICES ASSUME Init PROVE TypeOK
  OBVIOUS
<1>1. transcript \in Transcript
  BY DEF Init, Transcript, NoSegment, Segment
<1>2. DOMAIN issues \subseteq IssueKey /\ issues \in [DOMAIN issues -> Issue]
  BY DEF Init
<1>3. QED
  BY <1>1, <1>2 DEF Init, TypeOK, Statuses

\* What the steps of remediation leave of the issues.
LEMMA ResolveType ==
  ASSUME TypeOK, NEW items, NEW basis, ResolveIssues(items, basis),
         items \in [DOMAIN items -> Fixes]
  PROVE  /\ DOMAIN issues' = DOMAIN issues
         /\ issues' \in [DOMAIN issues -> Issue]
         /\ status' \in Statuses
<1> DEFINE resolved == [k \in DOMAIN issues |-> IF k \in DOMAIN items
                                               THEN ResolvedWith(issues[k], items[k])
                                               ELSE issues[k]]
<1>1. /\ DOMAIN items \subseteq DOMAIN issues
      /\ RangesAccepted(DOMAIN items, resolved)
      /\ \A k \in DOMAIN items : items[k].repl # <<>>
      /\ issues' = resolved
      /\ status' = StatusAfter(resolved)
  BY DEF ResolveIssues, Open
<1>2. ASSUME NEW k \in DOMAIN items
      PROVE  /\ ResolvedWith(issues[k], items[k]) \in Issue
             /\ issues[k] \in Issue
  <2>1. issues[k] \in Issue
    BY <1>1 DEF TypeOK
  <2>2. /\ items[k].start \in Int /\ items[k].end \in Int
        /\ items[k].repl \in Replacements
    BY <1>1, DossierAssumption
  <2>3. RangeIn(resolved[k], Len(transcript[k.seg].text))
    BY <1>1 DEF RangesAccepted
  <2>4. resolved[k] = ResolvedWith(issues[k], items[k])
    BY <1>1
  <2>5. /\ ResolvedWith(issues[k], items[k]).start = items[k].start
        /\ ResolvedWith(issues[k], items[k]).end = items[k].end
    BY DEF ResolvedWith
  <2>6. items[k].start >= 0 /\ items[k].start < items[k].end
    BY <2>3, <2>4, <2>5, <2>2 DEF RangeIn
  <2>7. items[k].start \in Nat /\ items[k].end \in Nat
    BY <2>2, <2>6
  <2>8. QED
    BY <2>1, <2>2, <2>7, ResolvedWithType
<1>3. resolved \in [DOMAIN issues -> Issue]
  BY <1>2 DEF TypeOK
<1>4. StatusAfter(resolved) \in Statuses
  BY DEF StatusAfter, Statuses
<1> HIDE DEF resolved
<1>5. QED
  BY <1>1, <1>3, <1>4

\* What the materials of a review are made of.
LEMMA MaterialsType ==
  ASSUME TypeOK, status # "absent", confirmations # <<>>
  PROVE  ReviewMaterials \in Materials
<1>1. LatestConfirmation \in Confirmation
  BY DEF LatestConfirmation, TypeOK
<1>2. ASSUME NEW k \in DOMAIN issues
      PROVE  [key |-> k, issue |-> issues[k]] \in [key : IssueKey, issue : Issue]
  BY DEF TypeOK
<1>3. {[key |-> k, issue |-> issues[k]] : k \in DOMAIN issues}
        \in SUBSET [key : IssueKey, issue : Issue]
  BY <1>2
<1>4. auth \in Authorization /\ editor \in Identity /\ transcript \in Transcript
  BY DEF TypeOK
<1>5. QED
  BY <1>1, <1>3, <1>4 DEF ReviewMaterials, Materials

LEMMA SnapshotType ==
  ASSUME TypeOK, NEW decision \in Decisions, NEW reviewer \in Identity,
         NEW submitted, NEW names, Reviewable(reviewer, submitted, names)
  PROVE  /\ Snapshot(decision, reviewer, names) \in Review
         /\ names \subseteq DOMAIN issues
         /\ names \subseteq IssueKey
<1>1. /\ ReviewMaterials \in Materials
      /\ names \subseteq Resolved(issues)
  BY MaterialsType DEF Reviewable
<1>2. /\ names \subseteq DOMAIN issues
      /\ names \subseteq IssueKey
  BY <1>1 DEF Resolved, TypeOK
<1>3. CurrentCandidate \in Candidate
  BY CandidateType DEF TypeOK, CurrentCandidate
<1>4. revision \in Nat
  BY DEF TypeOK
<1>5. QED
  BY <1>1, <1>2, <1>3, <1>4 DEF Snapshot, Review

LEMMA RoundsType ==
  ASSUME TypeOK, NEW decision \in Decisions, NEW candidate
  PROVE  /\ EndRound(decision, candidate) \in Seq(Round)
         /\ Len(EndRound(decision, candidate)) = Len(rounds)
<1>1. ASSUME NEW i \in DOMAIN rounds
      PROVE  EndRound(decision, candidate)[i] \in Round
  <2>1. rounds[i] \in Round
    BY DEF TypeOK
  <2>2. QED
    BY <2>1 DEF EndRound, Round
<1>2. /\ Len(rounds) \in Nat
      /\ DOMAIN rounds = 1..Len(rounds)
  BY DEF TypeOK
<1>3. EndRound(decision, candidate) \in [1..Len(rounds) -> Round]
  BY <1>1, <1>2 DEF EndRound
<1>4. QED
  BY <1>2, <1>3

\* Every step keeps the types.
LEMMA TypeNext == TypeOK /\ [Next]_dossierVars => TypeOK'
<1> SUFFICES ASSUME TypeOK, [Next]_dossierVars PROVE TypeOK'
  OBVIOUS
<1> USE DEF consentVars, decisionVars
<1>0. \A op \in Operations : Mutate(op) =>
         /\ status \notin {"absent", "sealed"}
         /\ revision' \in Nat
         /\ audit' \in Seq(Operations)
  <2> SUFFICES ASSUME NEW op \in Operations, Mutate(op)
               PROVE  /\ status \notin {"absent", "sealed"}
                      /\ revision' \in Nat
                      /\ audit' \in Seq(Operations)
    OBVIOUS
  <2>1. audit \in Seq(Operations) /\ revision \in Nat
    BY DEF TypeOK
  <2>2. QED
    BY <2>1, MutateStep
<1>1. ASSUME NEW who \in Identity, NEW granted \in Authorization, Create(who, granted)
      PROVE  TypeOK'
  <2>1. Clean(who) \in Identity
    BY DEF Clean, Identity
  <2>2. <<"dossier_created">> \in Seq(Operations)
    BY DEF Operations
  <2>3. QED
    BY <1>1, <2>1, <2>2 DEF Create, TypeOK, Statuses
<1>2. ASSUME NEW granted \in Authorization, ReviseAuthorization(granted)
      PROVE  TypeOK'
  <2>1. /\ Mutate("revise_authorization")
        /\ status = "draft"
    BY <1>2 DEF ReviseAuthorization, AuthorizationIsOpen
  <2>2. AuthorizationRevision(granted)
          \in [before : Authorization, after : Authorization]
    BY <2>1 DEF AuthorizationRevision, TypeOK
  <2>3. authRevisions' \in Seq([before : Authorization, after : Authorization])
    BY <1>2, <2>2 DEF ReviseAuthorization, TypeOK
  <2>4. revision' \in Nat /\ audit' \in Seq(Operations)
    BY <1>0, <2>1 DEF Operations
  <2>5. QED
    BY <1>2, <2>1, <2>3, <2>4 DEF ReviseAuthorization, TypeOK
<1>3. CASE LockConsent
  <2>1. revision' \in Nat /\ audit' \in Seq(Operations)
    BY <1>0, <1>3 DEF Operations, LockConsent
  <2>2. QED
    BY <1>3, <2>1 DEF LockConsent, TypeOK, Statuses
<1>4. ASSUME NEW t \in Submissions, SaveTranscript(t)
      PROVE  TypeOK'
  <2>1. Declared(t) \in Transcript
    BY DeclaredType, DossierAssumption
  <2>2. revision' \in Nat /\ audit' \in Seq(Operations)
    BY <1>0, <1>4 DEF Operations, SaveTranscript
  <2>3. QED
    BY <1>4, <2>1, <2>2 DEF SaveTranscript, TypeOK
<1>5. ASSUME NEW t \in Submissions, NEW put \in SUBSET SegmentIds,
             NEW drop \in SUBSET SegmentIds, UpdateTranscript(put, drop, t)
      PROVE  TypeOK'
  <2>1. transcript \in Transcript /\ t \in Transcript
    BY DossierAssumption DEF TypeOK
  <2>2. Merged(put, drop, t) \in Transcript
    BY <2>1, MergedType
  <2>3. revision' \in Nat /\ audit' \in Seq(Operations)
    BY <1>0, <1>5 DEF Operations, UpdateTranscript
  <2>4. QED
    BY <1>5, <2>2, <2>3 DEF UpdateTranscript, TypeOK
<1>6. CASE FreezeTranscript
  <2>1. revision' \in Nat /\ audit' \in Seq(Operations)
    BY <1>0, <1>6 DEF Operations, FreezeTranscript
  <2>2. QED
    BY <1>6, <2>1 DEF FreezeTranscript, TypeOK, Statuses
<1>7. CASE RunCheck
  <2>1. revision' \in Nat /\ audit' \in Seq(Operations) /\ status # "absent"
    BY <1>0, <1>7 DEF Operations, RunCheck
  <2>2. CheckEligibility(transcript, auth.uses) \subseteq IssueKey
    BY CheckType DEF TypeOK
  <2>3. ASSUME NEW k \in IssueKey
        PROVE  Opened(k) \in Issue
    BY DEF Opened, Issue, IssueKey
  <2>4. DOMAIN issues' \subseteq IssueKey /\ issues' \in [DOMAIN issues' -> Issue]
    BY <1>7, <2>2, <2>3 DEF RunCheck
  <2>5. status' \in Statuses /\ status' # "absent"
    BY <1>7 DEF RunCheck, StatusAfter, Statuses
  <2>6. QED
    BY <1>7, <2>1, <2>4, <2>5 DEF RunCheck, TypeOK
<1>8. ASSUME NEW items, NEW basis, items \in [DOMAIN items -> Fixes],
             ResolveIssues(items, basis),
             revision' \in Nat, audit' \in Seq(Operations),
             UNCHANGED <<consentVars, transcript, decisionVars, packages>>
      PROVE  TypeOK'
  <2>1. /\ DOMAIN issues' = DOMAIN issues
        /\ issues' \in [DOMAIN issues -> Issue]
        /\ status' \in Statuses
    BY <1>8, ResolveType
  <2>2. status = "remediation" /\ status' # "absent"
    BY <1>8 DEF ResolveIssues, StatusAfter
  <2>3. QED
    BY <1>8, <2>1, <2>2 DEF TypeOK
<1>9. ASSUME NEW k \in DOMAIN issues, NEW fix \in Fixes, Resolve(k, fix)
      PROVE  TypeOK'
  <2>1. revision' \in Nat /\ audit' \in Seq(Operations)
    BY <1>0, <1>9 DEF Operations, Resolve
  <2>2. QED
    BY <1>8, <1>9, <2>1 DEF Resolve
<1>10. ASSUME NEW K \in SUBSET Open(issues), NEW basis, NEW items \in [K -> Fixes],
              ResolveBatch(items, basis)
       PROVE  TypeOK'
  <2>1. revision' \in Nat /\ audit' \in Seq(Operations)
    BY <1>0, <1>10 DEF Operations, ResolveBatch
  <2>2. QED
    BY <1>8, <1>10, <2>1 DEF ResolveBatch
<1>11. ASSUME NEW candidate \in Candidate, NEW decision \in Decisions,
              NEW exceptions \in SUBSET Exceptions,
              Answer(decision, candidate, exceptions)
       PROVE  /\ revision' \in Nat /\ audit' \in Seq(Operations)
              /\ rounds' \in Seq(Round)
              /\ confirmations' \in Seq(Confirmation)
              /\ status = "awaiting_confirmation"
              /\ UNCHANGED <<consentVars, transcript, reviews, packages>>
  <2>1. revision' \in Nat /\ audit' \in Seq(Operations)
    BY <1>0, <1>11 DEF Operations, Answer
  <2>2. rounds' \in Seq(Round)
    BY <1>11, RoundsType DEF Answer
  <2>3. [decision |-> decision, candidate |-> candidate, exceptions |-> exceptions]
          \in Confirmation
    BY DEF Confirmation
  <2>4. confirmations' \in Seq(Confirmation)
    BY <1>11, <2>3 DEF Answer, TypeOK
  <2>5. QED
    BY <1>11, <2>1, <2>2, <2>4 DEF Answer
<1>12. ShownCandidates \subseteq Candidate
  <2>1. CurrentCandidate \in Candidate
    BY CandidateType DEF CurrentCandidate, TypeOK
  <2>2. ASSUME NEW i \in DOMAIN confirmations
        PROVE  confirmations[i].candidate \in Candidate
    <3>1. confirmations[i] \in Confirmation
      BY DEF TypeOK
    <3>2. QED
      BY <3>1 DEF Confirmation
  <2>3. QED
    BY <2>1, <2>2 DEF ShownCandidates
<1>13. ASSUME NEW candidate \in ShownCandidates, NEW exceptions \in SUBSET Exceptions,
              ConfirmApproved(candidate, exceptions)
       PROVE  TypeOK'
  <2>1. Answer("approved", candidate, exceptions)
    BY <1>13 DEF ConfirmApproved
  <2>2. QED
    BY <1>11, <1>12, <1>13, <2>1 DEF ConfirmApproved, Decisions, TypeOK, Statuses
<1>14. ASSUME NEW candidate \in ShownCandidates, NEW exceptions \in SUBSET Exceptions,
              NEW names \in SUBSET DOMAIN issues,
              ConfirmRejected(candidate, exceptions, names)
       PROVE  TypeOK'
  <2>1. Answer("rejected", candidate, exceptions)
    BY <1>14 DEF ConfirmRejected
  <2>2. ASSUME NEW k \in DOMAIN issues
        PROVE  Reopen(issues[k], issues[k].round) \in Issue
    <3>1. issues[k] \in Issue /\ issues[k].round \in Nat
      BY DEF TypeOK, Issue
    <3>2. QED
      BY <3>1, ReopenType
  <2>3. /\ DOMAIN issues' = DOMAIN issues
        /\ issues' \in [DOMAIN issues -> Issue]
    BY <1>14, <2>2 DEF ConfirmRejected, Reopened, TypeOK
  <2>4. QED
    BY <1>11, <1>12, <1>14, <2>1, <2>3 DEF ConfirmRejected, Decisions, TypeOK, Statuses
<1>15. ASSUME NEW reviewer \in Identity, NEW names, NEW submitted,
              ReviewApproved(reviewer, submitted, names)
       PROVE  TypeOK'
  <2>1. Reviewable(reviewer, submitted, names)
    BY <1>15 DEF ReviewApproved
  <2>2. Snapshot("approved", reviewer, names) \in Review
    BY <2>1, SnapshotType DEF Decisions
  <2>3. reviews' \in Seq(Review)
    BY <1>15, <2>2 DEF ReviewApproved, TypeOK
  <2>4. revision' \in Nat /\ audit' \in Seq(Operations) /\ status # "absent"
    BY <1>0, <1>15 DEF Operations, ReviewApproved
  <2>5. AuditOfChange("review_approved") \in Seq(Operations)
    BY DEF AuditOfChange, TypeOK, Operations
  <2>6. CurrentCandidate \in Candidate
    BY CandidateType DEF CurrentCandidate, TypeOK
  <2>7. ReleasePackage(reviewer, Snapshot("approved", reviewer, names),
                       AuditOfChange("review_approved")) \in Package
    BY <2>2, <2>4, <2>5, <2>6 DEF ReleasePackage, Package, TypeOK
  <2>8. packages' \subseteq Package
    BY <1>15, <2>7 DEF ReviewApproved
  <2>9. QED
    BY <1>15, <2>3, <2>4, <2>8 DEF ReviewApproved, TypeOK, Statuses
<1>16. ASSUME NEW reviewer \in Identity, NEW names, NEW submitted,
              ReviewRejected(reviewer, submitted, names)
       PROVE  TypeOK'
  <2>1. Reviewable(reviewer, submitted, names)
    BY <1>16 DEF ReviewRejected
  <2>2. Snapshot("rejected", reviewer, names) \in Review /\ names \subseteq IssueKey
    BY <2>1, SnapshotType DEF Decisions
  <2>3. reviews' \in Seq(Review)
    BY <1>16, <2>2 DEF ReviewRejected, TypeOK
  <2>4. revision' \in Nat /\ audit' \in Seq(Operations) /\ status # "absent"
    BY <1>0, <1>16 DEF Operations, ReviewRejected
  <2>5. CurrentCandidate \in Candidate
    BY CandidateType DEF CurrentCandidate, TypeOK
  <2>6. NewRound(names) \in Round
    BY <2>2, <2>5 DEF NewRound, Round
  <2>7. rounds' \in Seq(Round)
    BY <1>16, <2>6 DEF ReviewRejected, TypeOK
  <2>8. Len(rounds) + 1 \in Nat
    BY DEF TypeOK
  <2>9. ASSUME NEW k \in DOMAIN issues
        PROVE  Reopen(issues[k], Len(rounds) + 1) \in Issue
    BY <2>8, ReopenType DEF TypeOK
  <2>10. /\ DOMAIN issues' = DOMAIN issues
         /\ issues' \in [DOMAIN issues -> Issue]
    BY <1>16, <2>9 DEF ReviewRejected, ReopenedInRound, TypeOK
  <2>11. QED
    BY <1>16, <2>3, <2>4, <2>7, <2>10 DEF ReviewRejected, TypeOK, Statuses
<1>17. CASE UNCHANGED dossierVars
  BY <1>17 DEF dossierVars, TypeOK
<1>18. QED
  BY <1>1, <1>2, <1>3, <1>4, <1>5, <1>6, <1>7, <1>9, <1>10, <1>13, <1>14, <1>15,
     <1>16, <1>17
     DEF Next, Authoring, Remediating, Deciding

\* Whatever requests a dossier is put through, every part of it keeps its type.
THEOREM TypeCorrect == Spec => []TypeOK
  BY TypeInit, TypeNext, PTL DEF Spec

-----------------------------------------------------------------------------
(***************************************************************************)
(* The inductive invariant.                                                *)
(***************************************************************************)
\* Before the check has run there is no issue, and before there is a dossier
\* no revision of its authorization.
NothingEarly ==
  /\ status \in {"absent", "draft", "consent_locked", "transcript_frozen"} =>
       DOMAIN issues = {}
  /\ status = "absent" => authRevisions = <<>>

\* All of it together.
DossierInv ==
  /\ TypeOK
  /\ NothingEarly
  /\ AuditTracksRevision
  /\ AuthorizationReplays
  /\ StatusMatchesIssues
  /\ FixesFit
  /\ HistoryMatchesFix
  /\ ReviewedTextIsConfirmed
  /\ SealedPackageVerifies
  /\ FindingsStand

-----------------------------------------------------------------------------
(***************************************************************************)
(* The steps, by what they have in common.                                 *)
(***************************************************************************)
\* The dossier is created, or an operation on it is recorded.
LEMMA NextMutates ==
  ASSUME Next
  PROVE  \/ \E who \in Identity, granted \in Authorization : Create(who, granted)
         \/ \E op \in Operations : Mutate(op)
<1>1. CASE Authoring
  BY <1>1 DEF Authoring, ReviseAuthorization, LockConsent, SaveTranscript,
              UpdateTranscript, FreezeTranscript, RunCheck, Operations
<1>2. CASE Remediating
  BY <1>2 DEF Remediating, Resolve, ResolveBatch, Operations
<1>3. CASE Deciding
  BY <1>3 DEF Deciding, ConfirmApproved, ConfirmRejected, Answer, ReviewApproved,
              ReviewRejected, Operations
<1>4. QED
  BY <1>1, <1>2, <1>3 DEF Next

\* Issues are resolved, one or many at a time.
LEMMA RemediatingResolves ==
  ASSUME Remediating
  PROVE  /\ \E basis, items : /\ items \in [DOMAIN items -> Fixes]
                              /\ ResolveIssues(items, basis)
         /\ UNCHANGED <<consentVars, transcript, decisionVars, packages>>
<1>1. ASSUME NEW k \in DOMAIN issues, NEW fix \in Fixes, Resolve(k, fix)
      PROVE  /\ \E basis, items : /\ items \in [DOMAIN items -> Fixes]
                                  /\ ResolveIssues(items, basis)
             /\ UNCHANGED <<consentVars, transcript, decisionVars, packages>>
  <2>1. [j \in {k} |-> fix] \in [DOMAIN [j \in {k} |-> fix] -> Fixes]
    OBVIOUS
  <2>2. QED
    BY <1>1, <2>1 DEF Resolve
<1>2. ASSUME NEW K \in SUBSET Open(issues), NEW basis, NEW items \in [K -> Fixes],
             ResolveBatch(items, basis)
      PROVE  /\ \E b, i : /\ i \in [DOMAIN i -> Fixes]
                          /\ ResolveIssues(i, b)
             /\ UNCHANGED <<consentVars, transcript, decisionVars, packages>>
  <2>1. items \in [DOMAIN items -> Fixes]
    OBVIOUS
  <2>2. QED
    BY <1>2, <2>1 DEF ResolveBatch
<1>3. QED
  BY <1>1, <1>2 DEF Remediating

\* What a resolution does to the issues.
LEMMA ResolveStep ==
  ASSUME TypeOK, NEW items, NEW basis, ResolveIssues(items, basis)
  PROVE  /\ status = "remediation"
         /\ status' = StatusAfter(issues')
         /\ DOMAIN issues' = DOMAIN issues
         /\ DOMAIN items \subseteq DOMAIN issues
         /\ RangesAccepted(DOMAIN items, issues')
         /\ \A k \in DOMAIN items : issues'[k] = ResolvedWith(issues[k], items[k])
         /\ \A k \in DOMAIN issues \ DOMAIN items : issues'[k] = issues[k]
<1> DEFINE resolved == [k \in DOMAIN issues |-> IF k \in DOMAIN items
                                               THEN ResolvedWith(issues[k], items[k])
                                               ELSE issues[k]]
<1>1. /\ status = "remediation"
      /\ DOMAIN items \subseteq DOMAIN issues
      /\ issues' = resolved
      /\ status' = StatusAfter(resolved)
      /\ RangesAccepted(DOMAIN items, resolved)
  BY DEF ResolveIssues, Open
<1>2. QED
  BY <1>1

\* What a decision of the subject does.
LEMMA AnswerStep ==
  ASSUME TypeOK, NEW decision, NEW candidate, NEW exceptions,
         Answer(decision, candidate, exceptions)
  PROVE  /\ status = "awaiting_confirmation"
         /\ ~HasOpenBlockers(issues)
         /\ Digest(candidate) = Digest(CurrentCandidate)
         /\ confirmations' # <<>>
         /\ ExceptionsAccepted(exceptions)
         /\ LatestConfirmation' = [decision   |-> decision,
                                   candidate  |-> candidate,
                                   exceptions |-> exceptions]
         /\ UNCHANGED <<consentVars, transcript, reviews, packages>>
<1> DEFINE answer == [decision   |-> decision,
                      candidate  |-> candidate,
                      exceptions |-> exceptions]
<1>1. confirmations' = Append(confirmations, answer)
  BY DEF Answer
<1>2. /\ Len(confirmations') = Len(confirmations) + 1
      /\ confirmations'[Len(confirmations) + 1] = answer
      /\ confirmations' # <<>>
  BY <1>1 DEF TypeOK
<1>3. LatestConfirmation' = answer
  BY <1>2 DEF LatestConfirmation
<1>4. QED
  BY <1>2, <1>3 DEF Answer, IsCurrent

\* Sealed is final: no operation is accepted any more.
LEMMA SealedStops == ASSUME Next PROVE status # "sealed"
<1>1. ASSUME NEW who, NEW granted, Create(who, granted)
      PROVE  status # "sealed"
  BY <1>1 DEF Create
<1>2. ASSUME NEW op, Mutate(op)
      PROVE  status # "sealed"
  BY <1>2 DEF Mutate
<1>3. QED
  BY <1>1, <1>2, NextMutates

-----------------------------------------------------------------------------
(***************************************************************************)
(* The parts of the invariant, one by one.                                 *)
(***************************************************************************)
LEMMA InvInit == Init => DossierInv
<1> SUFFICES ASSUME Init PROVE DossierInv
  OBVIOUS
<1>1. /\ TypeOK
      /\ Resolved(issues) = {}
      /\ status = "absent"
  BY TypeInit DEF Init, Resolved
<1>2. NothingEarly /\ AuditTracksRevision /\ AuthorizationReplays
  BY DEF Init, NothingEarly, AuditTracksRevision, AuthorizationReplays
<1>3. /\ StatusMatchesIssues /\ ReviewedTextIsConfirmed /\ SealedPackageVerifies
      /\ FindingsStand
  BY <1>1 DEF StatusMatchesIssues, ReviewedTextIsConfirmed, SealedPackageVerifies,
              FindingsStand
<1>4. FixesFit /\ HistoryMatchesFix
  BY <1>1 DEF FixesFit, HistoryMatchesFix
<1>5. QED
  BY <1>1, <1>2, <1>3, <1>4 DEF DossierInv

LEMMA NothingEarlyNext ==
  ASSUME TypeOK, NothingEarly, Next
  PROVE  NothingEarly'
<1>1. CASE Authoring
  <2>1. ASSUME NEW who, NEW granted, Create(who, granted)
        PROVE  NothingEarly'
    BY <2>1 DEF Create, NothingEarly
  <2>2. ASSUME NEW granted, ReviseAuthorization(granted)
        PROVE  NothingEarly'
    BY <2>2 DEF ReviseAuthorization, AuthorizationIsOpen, NothingEarly
  <2>3. CASE LockConsent
    BY <2>3 DEF LockConsent, NothingEarly
  <2>4. ASSUME NEW t, SaveTranscript(t)
        PROVE  NothingEarly'
    BY <2>4 DEF SaveTranscript, TranscriptIsOpen, consentVars, NothingEarly
  <2>5. ASSUME NEW t, NEW put, NEW drop, UpdateTranscript(put, drop, t)
        PROVE  NothingEarly'
    BY <2>5 DEF UpdateTranscript, TranscriptIsOpen, consentVars, NothingEarly
  <2>6. CASE FreezeTranscript
    BY <2>6 DEF FreezeTranscript, NothingEarly
  <2>7. CASE RunCheck
    BY <2>7 DEF RunCheck, StatusAfter, NothingEarly
  <2>8. QED
    BY <1>1, <2>1, <2>2, <2>3, <2>4, <2>5, <2>6, <2>7 DEF Authoring
<1>2. CASE Remediating
  <2>1. PICK basis, items : ResolveIssues(items, basis)
    BY <1>2, RemediatingResolves
  <2>2. status' = StatusAfter(issues')
    BY <2>1, ResolveStep
  <2>3. QED
    BY <2>2 DEF StatusAfter, NothingEarly
<1>3. CASE Deciding
  <2>1. status' \in {"awaiting_review", "remediation", "sealed"}
    BY <1>3 DEF Deciding, ConfirmApproved, ConfirmRejected, ReviewApproved, ReviewRejected
  <2>2. QED
    BY <2>1 DEF NothingEarly
<1>4. QED
  BY <1>1, <1>2, <1>3 DEF Next

\* Every operation is recorded once.
LEMMA AuditNext ==
  ASSUME TypeOK, AuditTracksRevision, Next
  PROVE  AuditTracksRevision'
<1>1. audit \in Seq(Operations) /\ revision \in Nat
  BY DEF TypeOK
<1>2. ASSUME NEW who, NEW granted, Create(who, granted)
      PROVE  AuditTracksRevision'
  BY <1>2 DEF Create, AuditTracksRevision
<1>3. ASSUME NEW op \in Operations, Mutate(op)
      PROVE  AuditTracksRevision'
  <2>1. revision' = revision + 1 /\ audit' = Append(audit, op)
    BY <1>1, <1>3, MutateStep
  <2>2. Len(audit') = Len(audit) + 1
    BY <1>1, <2>1
  <2>3. QED
    BY <2>1, <2>2 DEF AuditTracksRevision
<1>4. QED
  BY <1>2, <1>3, NextMutates

\* Only a draft revises its authorization, and from what is on file.
LEMMA AuthorizationNext ==
  ASSUME TypeOK, NothingEarly, AuthorizationReplays, Next
  PROVE  AuthorizationReplays'
<1>1. ASSUME NEW who, NEW granted, Create(who, granted)
      PROVE  AuthorizationReplays'
  BY <1>1 DEF Create, NothingEarly, AuthorizationReplays
<1>2. ASSUME NEW granted, ReviseAuthorization(granted)
      PROVE  AuthorizationReplays'
  <2> DEFINE n == Len(authRevisions)
             new == AuthorizationRevision(granted)
  <2>1. /\ authRevisions' = Append(authRevisions, new)
        /\ new.before = auth /\ new.after = granted
        /\ auth' = granted /\ granted # auth
    BY <1>2 DEF ReviseAuthorization, AuthorizationRevision
  <2>2. n \in Nat /\ DOMAIN authRevisions = 1..n
    BY DEF TypeOK
  <2>3. /\ Len(authRevisions') = n + 1
        /\ DOMAIN authRevisions' = 1..(n + 1)
        /\ \A i \in 1..n : authRevisions'[i] = authRevisions[i]
        /\ authRevisions'[n + 1] = new
    BY <2>1 DEF TypeOK
  <2> HIDE DEF new, n
  <2>4. ASSUME NEW i \in 1..(n + 1)
        PROVE  /\ authRevisions'[i].before # authRevisions'[i].after
               /\ authRevisions'[i].after =
                    IF i = n + 1 THEN auth' ELSE authRevisions'[i+1].before
    <3>1. CASE i = n + 1
      BY <2>1, <2>3, <3>1
    <3>2. CASE i = n
      <4>1. i \in 1..n /\ i # n + 1 /\ i + 1 = n + 1
        BY <2>2, <3>2
      <4>2. /\ authRevisions[i].before # authRevisions[i].after
            /\ authRevisions[i].after = auth
        BY <2>2, <3>2, <4>1 DEF AuthorizationReplays, n
      <4>3. QED
        BY <2>1, <2>3, <4>1, <4>2
    <3>3. CASE i < n
      <4>1. i \in 1..n /\ i + 1 \in 1..n /\ i # n /\ i # n + 1
        BY <2>2, <3>3
      <4>2. /\ authRevisions[i].before # authRevisions[i].after
            /\ authRevisions[i].after = authRevisions[i+1].before
        BY <2>2, <4>1 DEF AuthorizationReplays, n
      <4>3. QED
        BY <2>3, <4>1, <4>2
    <3>4. QED
      BY <2>2, <3>1, <3>2, <3>3
  <2>5. QED
    BY <2>3, <2>4 DEF AuthorizationReplays
<1>3. CASE UNCHANGED consentVars
  BY <1>3 DEF consentVars, AuthorizationReplays
<1>4. CASE Authoring
  BY <1>1, <1>2, <1>3, <1>4 DEF Authoring, LockConsent, SaveTranscript,
     UpdateTranscript, FreezeTranscript, RunCheck
<1>5. CASE Remediating
  BY <1>3, <1>5, RemediatingResolves
<1>6. CASE Deciding
  BY <1>3, <1>6 DEF Deciding, ConfirmApproved, ConfirmRejected, Answer,
     ReviewApproved, ReviewRejected
<1>7. QED
  BY <1>4, <1>5, <1>6 DEF Next

\* What a rejection leaves of the issues: those named are open, the others and
\* every range and history are as they were.
Reopening(names) ==
  /\ DOMAIN issues' = DOMAIN issues
  /\ \A k \in names : k \in DOMAIN issues /\ issues'[k].status = "open"
  /\ \A k \in DOMAIN issues \ names : issues'[k] = issues[k]

LEMMA ConfirmRejectedStep ==
  ASSUME NEW candidate, NEW exceptions, NEW names,
             ConfirmRejected(candidate, exceptions, names)
  PROVE  Reopening(names) /\ names # {}
<1>1. names \subseteq DOMAIN issues
  BY DEF ConfirmRejected, Resolved
<1>2. issues' = Reopened(names)
  BY DEF ConfirmRejected
<1>3. QED
  BY <1>1, <1>2 DEF Reopening, Reopened, Reopen, ConfirmRejected

LEMMA ReviewRejectedStep ==
  ASSUME NEW reviewer, NEW submitted, NEW names,
         ReviewRejected(reviewer, submitted, names)
  PROVE  Reopening(names) /\ names # {}
<1>1. names \subseteq DOMAIN issues
  BY DEF ReviewRejected, Reviewable, Resolved
<1>2. issues' = ReopenedInRound(names, Len(rounds) + 1)
  BY DEF ReviewRejected
<1>3. QED
  BY <1>1, <1>2 DEF Reopening, ReopenedInRound, Reopen, ReviewRejected

\* An issue resolved after a rejection was resolved before, in the same way.
LEMMA ReopeningResolvesNothing ==
  ASSUME NEW names, Reopening(names)
  PROVE  \A k \in Resolved(issues') : k \in Resolved(issues) /\ issues'[k] = issues[k]
<1> SUFFICES ASSUME NEW k \in Resolved(issues')
             PROVE  k \in Resolved(issues) /\ issues'[k] = issues[k]
  OBVIOUS
<1>1. k \in DOMAIN issues' /\ issues'[k].status = "resolved"
  BY DEF Resolved
<1>2. k \in DOMAIN issues \ names
  BY <1>1 DEF Reopening
<1>3. QED
  BY <1>1, <1>2 DEF Reopening, Resolved

\* The deciding steps either keep the issues or reopen those they name.
LEMMA DecidingReopens ==
  ASSUME Deciding
  PROVE  /\ UNCHANGED transcript
         /\ \/ UNCHANGED issues
            \/ \E names : Reopening(names)
<1>1. ASSUME NEW candidate, NEW exceptions, ConfirmApproved(candidate, exceptions)
      PROVE  UNCHANGED <<transcript, issues>>
  BY <1>1 DEF ConfirmApproved, Answer
<1>2. ASSUME NEW candidate, NEW exceptions, NEW names,
             ConfirmRejected(candidate, exceptions, names)
      PROVE  UNCHANGED transcript /\ Reopening(names)
  BY <1>2, ConfirmRejectedStep DEF ConfirmRejected, Answer
<1>3. ASSUME NEW reviewer, NEW names, NEW submitted,
             ReviewApproved(reviewer, submitted, names)
      PROVE  UNCHANGED <<transcript, issues>>
  BY <1>3 DEF ReviewApproved
<1>4. ASSUME NEW reviewer, NEW names, NEW submitted,
             ReviewRejected(reviewer, submitted, names)
      PROVE  UNCHANGED transcript /\ Reopening(names)
  BY <1>4, ReviewRejectedStep DEF ReviewRejected
<1>5. QED
  BY <1>1, <1>2, <1>3, <1>4 DEF Deciding

\* Before the check nothing is resolved, and the check resolves nothing.
LEMMA AuthoringResolvesNothing ==
  ASSUME TypeOK, NothingEarly, Authoring
  PROVE  Resolved(issues') = {}
<1>1. CASE RunCheck
  <2>1. \A k \in DOMAIN issues' : issues'[k].status = "open"
    BY <1>1 DEF RunCheck, Opened
  <2>2. QED
    BY <2>1 DEF Resolved
<1>2. CASE ~RunCheck
  <2>1. UNCHANGED issues /\ DOMAIN issues = {}
    BY <1>2 DEF Authoring, Create, ReviseAuthorization, AuthorizationIsOpen, LockConsent,
       SaveTranscript, UpdateTranscript, TranscriptIsOpen, FreezeTranscript, NothingEarly
  <2>2. QED
    BY <2>1 DEF Resolved
<1>3. QED
  BY <1>1, <1>2

-----------------------------------------------------------------------------
LEMMA StatusAfterMatches ==
  ASSUME NEW is
  PROVE  /\ StatusAfter(is) = "awaiting_confirmation" => ~HasOpenBlockers(is)
         /\ StatusAfter(is) = "remediation" => Open(is) # {}
         /\ StatusAfter(is) \in {"remediation", "awaiting_confirmation"}
  BY DEF StatusAfter, HasOpenBlockers

\* Remediation is entered with an issue open and left without a blocker.
LEMMA StatusNext ==
  ASSUME TypeOK, StatusMatchesIssues, Next
  PROVE  StatusMatchesIssues'
<1>1. ASSUME status' = StatusAfter(issues')
      PROVE  StatusMatchesIssues'
  BY <1>1, StatusAfterMatches DEF StatusMatchesIssues
<1>2. ASSUME NEW names, names # {}, Reopening(names), status' = "remediation"
      PROVE  StatusMatchesIssues'
  <2>1. \A k \in names : k \in Open(issues')
    BY <1>2 DEF Reopening, Open
  <2>2. QED
    BY <1>2, <2>1 DEF StatusMatchesIssues
<1>3. ASSUME UNCHANGED issues, ~HasOpenBlockers(issues), status' # "remediation"
      PROVE  StatusMatchesIssues'
  BY <1>3 DEF StatusMatchesIssues
<1>4. CASE Authoring
  <2>1. CASE RunCheck
    BY <1>1, <2>1 DEF RunCheck
  <2>2. CASE ~RunCheck
    <3>1. status' \in {"draft", "consent_locked", "transcript_frozen"}
      BY <1>4, <2>2 DEF Authoring, Create, ReviseAuthorization, AuthorizationIsOpen,
         LockConsent, SaveTranscript, UpdateTranscript, TranscriptIsOpen, FreezeTranscript
    <3>2. QED
      BY <3>1 DEF StatusMatchesIssues
  <2>3. QED
    BY <2>1, <2>2
<1>5. CASE Remediating
  BY <1>1, <1>5, RemediatingResolves, ResolveStep
<1>6. CASE Deciding
  <2>1. ASSUME NEW candidate, NEW exceptions, ConfirmApproved(candidate, exceptions)
        PROVE  StatusMatchesIssues'
    BY <1>3, <2>1 DEF ConfirmApproved, Answer
  <2>2. ASSUME NEW candidate, NEW exceptions, NEW names,
             ConfirmRejected(candidate, exceptions, names)
        PROVE  StatusMatchesIssues'
    BY <1>2, <2>2, ConfirmRejectedStep DEF ConfirmRejected
  <2>3. ASSUME NEW reviewer, NEW names, NEW submitted,
               ReviewApproved(reviewer, submitted, names)
        PROVE  StatusMatchesIssues'
    BY <1>3, <2>3 DEF ReviewApproved, Reviewable
  <2>4. ASSUME NEW reviewer, NEW names, NEW submitted,
               ReviewRejected(reviewer, submitted, names)
        PROVE  StatusMatchesIssues'
    BY <1>2, <2>4, ReviewRejectedStep DEF ReviewRejected
  <2>5. QED
    BY <1>6, <2>1, <2>2, <2>3, <2>4 DEF Deciding
<1>7. QED
  BY <1>4, <1>5, <1>6 DEF Next

\* A resolution checks its ranges against all fixes in force, and a reopened
\* issue is not in force.
LEMMA FixesNext ==
  ASSUME TypeOK, NothingEarly, FixesFit, Next
  PROVE  FixesFit'
<1>1. CASE Authoring
  BY <1>1, AuthoringResolvesNothing DEF FixesFit
<1>2. CASE Remediating
  <2>1. PICK basis, items : ResolveIssues(items, basis)
    BY <1>2, RemediatingResolves
  <2>2. /\ RangesAccepted(DOMAIN items, issues')
        /\ DOMAIN issues' = DOMAIN issues
        /\ \A k \in DOMAIN issues \ DOMAIN items : issues'[k] = issues[k]
    BY <2>1, ResolveStep
  <2>3. UNCHANGED transcript
    BY <1>2, RemediatingResolves
  <2>4. ASSUME NEW k \in Resolved(issues')
        PROVE  RangeIn(issues'[k], Len(transcript[k.seg].text))
    <3>1. CASE k \in DOMAIN items
      BY <2>2, <3>1 DEF RangesAccepted
    <3>2. CASE k \notin DOMAIN items
      <4>1. k \in Resolved(issues) /\ issues'[k] = issues[k]
        BY <2>2, <2>4, <3>2 DEF Resolved
      <4>2. QED
        BY <4>1 DEF FixesFit
    <3>3. QED
      BY <3>1, <3>2
  <2>5. \A k, l \in Resolved(issues') :
          k # l /\ k.seg = l.seg => ~Overlap(issues'[k], issues'[l])
    BY <2>2 DEF RangesAccepted
  <2>6. QED
    BY <2>3, <2>4, <2>5 DEF FixesFit
<1>3. CASE Deciding
  <2>1. UNCHANGED transcript
    BY <1>3, DecidingReopens
  <2>2. CASE UNCHANGED issues
    BY <2>1, <2>2 DEF FixesFit
  <2>3. ASSUME NEW names, Reopening(names)
        PROVE  FixesFit'
    <3>1. \A k \in Resolved(issues') : k \in Resolved(issues) /\ issues'[k] = issues[k]
      BY <2>3, ReopeningResolvesNothing
    <3>2. QED
      BY <2>1, <3>1 DEF FixesFit
  <2>4. QED
    BY <1>3, <2>2, <2>3, DecidingReopens
<1>4. QED
  BY <1>1, <1>2, <1>3 DEF Next

\* A resolution is put on record as it is made, and no other step changes a
\* resolved issue and leaves it resolved.
LEMMA HistoryNext ==
  ASSUME TypeOK, NothingEarly, HistoryMatchesFix, Next
  PROVE  HistoryMatchesFix'
<1>1. CASE Authoring
  BY <1>1, AuthoringResolvesNothing DEF HistoryMatchesFix
<1>2. CASE Remediating
  <2>1. PICK basis, items : ResolveIssues(items, basis)
    BY <1>2, RemediatingResolves
  <2>2. /\ DOMAIN items \subseteq DOMAIN issues
        /\ DOMAIN issues' = DOMAIN issues
        /\ \A k \in DOMAIN items : issues'[k] = ResolvedWith(issues[k], items[k])
        /\ \A k \in DOMAIN issues \ DOMAIN items : issues'[k] = issues[k]
    BY <2>1, ResolveStep
  <2>3. ASSUME NEW k \in Resolved(issues')
        PROVE  /\ issues'[k].history # <<>>
               /\ issues'[k].history[Len(issues'[k].history)].repl = issues'[k].repl
    <3>1. CASE k \in DOMAIN items
      <4>1. issues[k] \in Issue
        BY <2>2, <3>1 DEF TypeOK
      <4> DEFINE old == issues[k].history
                 record == [round |-> issues[k].round, repl |-> items[k].repl]
      <4>2. old \in Seq([round : Nat, repl : Replacements])
        BY <4>1 DEF Issue
      <4>3. /\ issues'[k].history = Append(old, record)
            /\ issues'[k].repl = items[k].repl
        <5>1. issues'[k] = ResolvedWith(issues[k], items[k])
          BY <2>2, <3>1
        <5>2. /\ ResolvedWith(issues[k], items[k]).history = Append(old, record)
              /\ ResolvedWith(issues[k], items[k]).repl = items[k].repl
          BY DEF ResolvedWith, Snapshots
        <5>3. QED
          BY <5>1, <5>2
      <4>4. record.repl = items[k].repl
        OBVIOUS
      <4> HIDE DEF old, record
      <4>5. /\ Len(Append(old, record)) = Len(old) + 1
            /\ Append(old, record)[Len(old) + 1] = record
            /\ Append(old, record) # <<>>
        BY <4>2
      <4>6. QED
        BY <4>3, <4>4, <4>5
    <3>2. CASE k \notin DOMAIN items
      <4>1. k \in Resolved(issues) /\ issues'[k] = issues[k]
        BY <2>2, <2>3, <3>2 DEF Resolved
      <4>2. QED
        BY <4>1 DEF HistoryMatchesFix
    <3>3. QED
      BY <3>1, <3>2
  <2>4. QED
    BY <2>3 DEF HistoryMatchesFix
<1>3. CASE Deciding
  <2>1. CASE UNCHANGED issues
    BY <2>1 DEF HistoryMatchesFix
  <2>2. ASSUME NEW names, Reopening(names)
        PROVE  HistoryMatchesFix'
    <3>1. \A k \in Resolved(issues') : k \in Resolved(issues) /\ issues'[k] = issues[k]
      BY <2>2, ReopeningResolvesNothing
    <3>2. QED
      BY <3>1 DEF HistoryMatchesFix
  <2>3. QED
    BY <1>3, <2>1, <2>2, DecidingReopens
<1>4. QED
  BY <1>1, <1>2, <1>3 DEF Next

\* The texts compared stay the same while the transcript and the issues do.
LEMMA CandidateStays ==
  ASSUME UNCHANGED <<transcript, issues>>
  PROVE  CurrentCandidate' = CurrentCandidate
  BY DEF CurrentCandidate

\* Review is entered by a yes to the text at hand, and until it ends neither
\* the text nor the confirmations change.
LEMMA ReviewedNext ==
  ASSUME TypeOK, ReviewedTextIsConfirmed, Next
  PROVE  ReviewedTextIsConfirmed'
<1>1. CASE status' \notin {"awaiting_review", "sealed"}
  BY <1>1 DEF ReviewedTextIsConfirmed
<1>2. CASE Authoring
  <2>1. status' \notin {"awaiting_review", "sealed"}
    BY <1>2 DEF Authoring, Create, ReviseAuthorization, AuthorizationIsOpen, LockConsent,
       SaveTranscript, UpdateTranscript, TranscriptIsOpen, FreezeTranscript, RunCheck,
       StatusAfter
  <2>2. QED
    BY <1>1, <2>1
<1>3. CASE Remediating
  BY <1>1, <1>3, RemediatingResolves, ResolveStep, StatusAfterMatches
<1>4. ASSUME NEW candidate, NEW exceptions, ConfirmApproved(candidate, exceptions)
      PROVE  ReviewedTextIsConfirmed'
  <2>1. Answer("approved", candidate, exceptions)
    BY <1>4 DEF ConfirmApproved
  <2>2. /\ confirmations' # <<>>
        /\ LatestConfirmation' = [decision   |-> "approved",
                                  candidate  |-> candidate,
                                  exceptions |-> exceptions]
        /\ Digest(candidate) = Digest(CurrentCandidate)
        /\ UNCHANGED transcript
    BY <2>1, AnswerStep
  <2>3. CurrentCandidate' = CurrentCandidate
    BY <1>4, <2>2, CandidateStays DEF ConfirmApproved
  <2>4. /\ LatestConfirmation'.decision = "approved"
        /\ LatestConfirmation'.candidate = candidate
    BY <2>2
  <2>5. Digest(LatestConfirmation.candidate)' = Digest(CurrentCandidate)'
    BY <2>2, <2>3, <2>4 DEF Digest
  <2>6. QED
    BY <2>2, <2>4, <2>5 DEF ReviewedTextIsConfirmed
<1>5. ASSUME NEW reviewer, NEW names, NEW submitted,
             ReviewApproved(reviewer, submitted, names)
      PROVE  ReviewedTextIsConfirmed'
  <2>1. /\ UNCHANGED <<transcript, issues, confirmations>>
        /\ status = "awaiting_review"
    BY <1>5 DEF ReviewApproved, Reviewable
  <2>2. /\ CurrentCandidate' = CurrentCandidate
        /\ LatestConfirmation' = LatestConfirmation
    BY <2>1, CandidateStays DEF LatestConfirmation
  <2>3. /\ confirmations # <<>>
        /\ LatestConfirmation.decision = "approved"
        /\ Digest(LatestConfirmation.candidate) = Digest(CurrentCandidate)
    BY <2>1 DEF ReviewedTextIsConfirmed
  <2>4. Digest(LatestConfirmation.candidate)' = Digest(CurrentCandidate)'
    BY <2>2, <2>3 DEF Digest
  <2>5. QED
    BY <2>1, <2>2, <2>3, <2>4 DEF ReviewedTextIsConfirmed
<1>6. CASE Deciding
  BY <1>1, <1>4, <1>5, <1>6 DEF Deciding, ConfirmRejected, ReviewRejected
<1>7. QED
  BY <1>2, <1>3, <1>6 DEF Next

\* Only the approval seals, after its own event and its own review record.
LEMMA SealedNext ==
  ASSUME TypeOK, Next
  PROVE  SealedPackageVerifies'
<1>1. CASE status' # "sealed"
  BY <1>1 DEF SealedPackageVerifies
<1>2. CASE Authoring
  <2>1. status' # "sealed"
    BY <1>2, SealedStops DEF Authoring, Create, ReviseAuthorization, AuthorizationIsOpen,
       LockConsent, SaveTranscript, UpdateTranscript, TranscriptIsOpen, FreezeTranscript, RunCheck,
       StatusAfter
  <2>2. QED
    BY <1>1, <2>1
<1>3. CASE Remediating
  BY <1>1, <1>3, RemediatingResolves, ResolveStep, StatusAfterMatches
<1>4. ASSUME NEW reviewer, NEW names, NEW submitted,
             ReviewApproved(reviewer, submitted, names)
      PROVE  SealedPackageVerifies'
  <2> DEFINE log == AuditOfChange("review_approved")
             snapshot == Snapshot("approved", reviewer, names)
             package == ReleasePackage(reviewer, snapshot, log)
  <2>1. /\ UNCHANGED <<transcript, issues, auth>>
        /\ packages' = {package}
        /\ reviews' = Append(reviews, snapshot)
        /\ Mutate("review_approved")
    BY <1>4 DEF ReviewApproved, consentVars
  <2>2. CurrentCandidate' = CurrentCandidate
    BY <2>1, CandidateStays
  <2>3. audit' = log
    <3>1. audit' = Append(audit, "review_approved")
      BY <2>1, MutateStep DEF TypeOK, Operations
    <3>2. QED
      BY <3>1 DEF AuditOfChange
  <2>4. LatestReview' = snapshot
    <3> HIDE DEF snapshot
    <3>1. /\ Len(reviews') = Len(reviews) + 1
          /\ reviews'[Len(reviews) + 1] = snapshot
      BY <2>1 DEF TypeOK
    <3>2. QED
      BY <3>1 DEF LatestReview
  <2>5. /\ package.text = CurrentCandidate
        /\ package.consent = auth
        /\ package.audit = log
        /\ package.review = snapshot
    BY DEF ReleasePackage
  <2> HIDE DEF log, snapshot, package
  <2>6. ASSUME NEW p, p = package
        PROVE  Verifies(p)'
    <3>1. p.text = CurrentCandidate' /\ p.consent = auth'
          /\ p.audit = audit' /\ p.review = LatestReview'
      BY <2>1, <2>2, <2>3, <2>4, <2>5, <2>6
    <3>2. QED
      BY <3>1 DEF Verifies
  <2>7. QED
    BY <2>1, <2>6 DEF SealedPackageVerifies
<1>5. CASE Deciding
  BY <1>1, <1>4, <1>5 DEF Deciding, ConfirmApproved, ConfirmRejected, ReviewRejected
<1>6. QED
  BY <1>2, <1>3, <1>5 DEF Next

\* The check runs when transcript and consent are final, and from then on the
\* issues keep their keys.
LEMMA FindingsNext ==
  ASSUME TypeOK, FindingsStand, Next
  PROVE  FindingsStand'
<1>1. CASE Authoring
  <2>1. CASE RunCheck
    <3>1. /\ DOMAIN issues' = CheckEligibility(transcript, auth.uses)
          /\ UNCHANGED <<transcript, auth>>
      BY <2>1 DEF RunCheck, consentVars
    <3>2. QED
      BY <3>1 DEF FindingsStand
  <2>2. CASE ~RunCheck
    <3>1. status' \in {"draft", "consent_locked", "transcript_frozen"}
      BY <1>1, <2>2 DEF Authoring, Create, ReviseAuthorization, AuthorizationIsOpen,
         LockConsent, SaveTranscript, UpdateTranscript, TranscriptIsOpen, FreezeTranscript
    <3>2. QED
      BY <3>1 DEF FindingsStand
  <2>3. QED
    BY <2>1, <2>2
<1>2. ASSUME status \in {"remediation", "awaiting_confirmation", "awaiting_review"},
             DOMAIN issues' = DOMAIN issues, UNCHANGED <<transcript, auth>>
      PROVE  FindingsStand'
  BY <1>2 DEF FindingsStand
<1>3. CASE Remediating
  <2>1. PICK basis, items : ResolveIssues(items, basis)
    BY <1>3, RemediatingResolves
  <2>2. status = "remediation" /\ DOMAIN issues' = DOMAIN issues
    BY <2>1, ResolveStep
  <2>3. QED
    BY <1>2, <1>3, <2>2, RemediatingResolves DEF consentVars
<1>4. CASE Deciding
  <2>1. status \in {"awaiting_confirmation", "awaiting_review"}
    BY <1>4 DEF Deciding, ConfirmApproved, ConfirmRejected, Answer
  <2>2. UNCHANGED <<transcript, auth>>
    BY <1>4 DEF Deciding, ConfirmApproved, ConfirmRejected, Answer, ReviewApproved,
       ReviewRejected, consentVars
  <2>3. DOMAIN issues' = DOMAIN issues
    BY <1>4, DecidingReopens DEF Reopening
  <2>4. QED
    BY <1>2, <2>1, <2>2, <2>3
<1>5. QED
  BY <1>1, <1>3, <1>4 DEF Next

-----------------------------------------------------------------------------
LEMMA StutterKeeps ==
  ASSUME DossierInv, UNCHANGED dossierVars
  PROVE  DossierInv'
<1> USE DEF dossierVars, consentVars, decisionVars
<1>1. TypeOK'
  BY TypeNext DEF DossierInv
<1>2. NothingEarly' /\ AuditTracksRevision' /\ AuthorizationReplays'
  BY DEF DossierInv, NothingEarly, AuditTracksRevision, AuthorizationReplays
<1>3. StatusMatchesIssues' /\ FixesFit' /\ HistoryMatchesFix'
  BY DEF DossierInv, StatusMatchesIssues, FixesFit, HistoryMatchesFix
<1>4. CurrentCandidate' = CurrentCandidate
  BY CandidateStays
<1>5. ReviewedTextIsConfirmed'
  BY <1>4 DEF DossierInv, ReviewedTextIsConfirmed, LatestConfirmation, Digest
<1>6. SealedPackageVerifies'
  BY <1>4 DEF DossierInv, SealedPackageVerifies, Verifies, LatestReview, Digest
<1>7. FindingsStand'
  BY DEF DossierInv, FindingsStand
<1>8. QED
  BY <1>1, <1>2, <1>3, <1>5, <1>6, <1>7 DEF DossierInv

LEMMA DossierInvariant == Spec => []DossierInv
<1>1. ASSUME DossierInv, Next
      PROVE  DossierInv'
  BY <1>1, TypeNext, NothingEarlyNext, AuditNext, AuthorizationNext, StatusNext,
     FixesNext, HistoryNext, ReviewedNext, SealedNext, FindingsNext DEF DossierInv
<1>2. DossierInv /\ [Next]_dossierVars => DossierInv'
  BY <1>1, StutterKeeps
<1>3. QED
  BY InvInit, <1>2, PTL DEF Spec

-----------------------------------------------------------------------------
\* A text under review, and one that is sealed, is exactly the one the subject
\* said yes to last.
THEOREM SubjectAgreed == Spec => []ReviewedTextIsConfirmed
<1>1. DossierInv => ReviewedTextIsConfirmed
  BY DEF DossierInv
<1>2. QED
  BY <1>1, DossierInvariant, PTL

\* Nothing is put to the vote, reviewed or published over an open blocker, and
\* remediation always has something to do.
THEOREM StatusIsRight == Spec => []StatusMatchesIssues
<1>1. DossierInv => StatusMatchesIssues
  BY DEF DossierInv
<1>2. QED
  BY <1>1, DossierInvariant, PTL

\* Fixes in force lie inside their segment and mask no rune twice.
THEOREM FixesNeverCollide == Spec => []FixesFit
<1>1. DossierInv => FixesFit
  BY DEF DossierInv
<1>2. QED
  BY <1>1, DossierInvariant, PTL

\* What is published for an issue is its last recorded resolution.
THEOREM HistoryIsTrue == Spec => []HistoryMatchesFix
<1>1. DossierInv => HistoryMatchesFix
  BY DEF DossierInv
<1>2. QED
  BY <1>1, DossierInvariant, PTL

\* A sealed dossier has a package, and the package verifies against it.
THEOREM PackagesVerify == Spec => []SealedPackageVerifies
<1>1. DossierInv => SealedPackageVerifies
  BY DEF DossierInv
<1>2. QED
  BY <1>1, DossierInvariant, PTL

\* There is one audit event for every revision.
THEOREM EveryChangeIsAudited == Spec => []AuditTracksRevision
<1>1. DossierInv => AuditTracksRevision
  BY DEF DossierInv
<1>2. QED
  BY <1>1, DossierInvariant, PTL

\* The revisions of the authorization lead from the first one to that in force.
THEOREM ConsentIsTraceable == Spec => []AuthorizationReplays
<1>1. DossierInv => AuthorizationReplays
  BY DEF DossierInv
<1>2. QED
  BY <1>1, DossierInvariant, PTL

\* The issues on file are the findings about the text and consent on file.
THEOREM FindingsAreAbout == Spec => []FindingsStand
<1>1. DossierInv => FindingsStand
  BY DEF DossierInv
<1>2. QED
  BY <1>1, DossierInvariant, PTL

\* Consent does not change once it is locked, nor a transcript once frozen.
THEOREM FrozenStays == Spec => FrozenParts
<1>1. ASSUME Next
      PROVE  /\ status \notin {"absent", "draft"} => UNCHANGED consentVars
             /\ status \notin {"absent", "draft", "consent_locked"} =>
                  UNCHANGED transcript
  <2>1. CASE Authoring
    BY <2>1 DEF Authoring, Create, ReviseAuthorization, AuthorizationIsOpen, LockConsent,
       SaveTranscript, UpdateTranscript, TranscriptIsOpen, FreezeTranscript, RunCheck
  <2>2. CASE Remediating
    BY <2>2, RemediatingResolves
  <2>3. CASE Deciding
    BY <2>3 DEF Deciding, ConfirmApproved, ConfirmRejected, Answer, ReviewApproved,
       ReviewRejected
  <2>4. QED
    BY <1>1, <2>1, <2>2, <2>3 DEF Next
<1>2. QED
  BY <1>1, PTL DEF Spec, FrozenParts
=============================================================================
