------------------------------ MODULE Evidence ------------------------------
(***************************************************************************)
(* What the digests kept with a dossier prove after the storage has been   *)
(* damaged: the chain of audit events (internal/domain/audit.go), the      *)
(* release package (internal/release/generator.go), the verification of a  *)
(* release by its parts (internal/release/verification.go) and the check   *)
(* of everything at start-up (internal/repository/store.go, integrity.go). *)
(*                                                                         *)
(* A dossier is stored twice: its payload (contents, audit, package) and   *)
(* the rows of its child tables (auditRows, packageRow).  A fault changes  *)
(* one value, event or row of either.                                      *)
(*                                                                         *)
(* A digest is the tuple of what was digested: two texts with one SHA-256  *)
(* do not occur, and a fault does not happen to compute one.  The fields   *)
(* of an event besides its number are its body (action, actor).  The code  *)
(* digests dossier id, number, action, actor and previous digest joined    *)
(* with '|': how that text splits between an action and an actor is not    *)
(* told apart, and a body is the two together.  An event's time is covered *)
(* by no digest and left out.  D_Fault is D with a fault, as in Dossier.   *)
(***************************************************************************)
EXTENDS Naturals, SequencesExt

CONSTANTS Bodies,
          Values,      \* a text, a consent, a name: which one it is
          StoredId,    \* the dossier_id of its rows, one of the Values
          Contents,    \* what an operation can leave in a dossier
          Approvals,   \* reviewer, stamp and review digest of an approval
          MaxEvents,   \* bound: audit events
          MaxFaults    \* bound: faults

\* dossier is the payload's own dossier_id, subject the subject and the audio,
\* consent uses, embargo, evidence and date, candidate the redacted text, and
\* review the digest of the latest review.
Parts == {"dossier", "subject", "candidate", "consent", "review"}

ASSUME EvidenceAssumption ==
  /\ StoredId \in Values
  /\ Contents \subseteq [Parts -> Values]
  /\ \A c \in Contents : c["dossier"] = StoredId
  /\ Approvals \subseteq [reviewer : Values, stamp : Values, review : Values]
  /\ MaxEvents \in Nat
  /\ MaxFaults \in Nat

VARIABLES contents, audit, package,  \* dossiers.payload
          auditRows, packageRow,     \* audit_events, release_packages
          phase,     \* "serving", or "refused": VerifyAll stopped the start
          recorded,  \* history: the events AppendAudit made
          original,  \* history: the dossier as it was sealed
          faults,    \* history: how many there were
          fresh      \* history: none since the last start

payloadVars == <<contents, audit, package>>
rowVars == <<auditRows, packageRow>>
historyVars == <<recorded, original>>
evidenceVars == <<contents, audit, package, auditRows, packageRow, phase,
                  recorded, original, faults, fresh>>

NoDigest == <<>>
Garbage == <<"damaged">>
NoPackage == [content |-> NoDigest]
Components == {"manifest", "redacted_transcript", "consent_snapshot", "audit_head"}

-----------------------------------------------------------------------------
(***************************************************************************)
(* The chain of events.                                                    *)
(***************************************************************************)
EventDigest_NoBody(id, n, body, previous) == <<id, n, "", previous>>
EventDigest(id, n, body, previous) == <<id, n, body, previous>>

\* lastAuditHead
HeadOf(log) == IF log = <<>> THEN NoDigest ELSE log[Len(log)].sha

Event(id, log, body) ==
  LET n == Len(log) + 1
  IN  [sequence |-> n, body |-> body, previous |-> HeadOf(log),
       sha |-> EventDigest(id, n, body, HeadOf(log))]

AppendAudit(id, log, body) == Append(log, Event(id, log, body))

PreviousOf(log, i) == IF i = 1 THEN NoDigest ELSE log[i - 1].sha

VerifyAudit_LinksOnly(id, log) ==
  \A i \in DOMAIN log : /\ log[i].sequence = i
                        /\ log[i].previous = PreviousOf(log, i)
VerifyAudit(id, log) ==
  \A i \in DOMAIN log :
    /\ log[i].sequence = i
    /\ log[i].previous = PreviousOf(log, i)
    /\ log[i].sha = EventDigest(id, i, log[i].body, log[i].previous)

\* The primary key and the unique index of audit_events.
IsInsertable(log) ==
  \A i, j \in DOMAIN log : i # j => /\ log[i].sequence # log[j].sequence
                                    /\ log[i].sha # log[j].sha

\* verifyAuditRows
RowsAgree(rows, log) ==
  /\ Len(rows) = Len(log)
  /\ \A i \in DOMAIN rows : /\ rows[i].sequence = i
                            /\ rows[i].previous = PreviousOf(rows, i)
                            /\ rows[i] = log[i]

-----------------------------------------------------------------------------
(***************************************************************************)
(* The package.  Its stamp is manifest_version and approved_at, its id the *)
(* package_id, made of the content digest.                                 *)
(***************************************************************************)
Manifest(c, reviewer, stamp, head) ==
  [dossier |-> c["dossier"], subject |-> c["subject"],
   candidate |-> c["candidate"], reviewer |-> reviewer, stamp |-> stamp,
   head |-> head, review |-> c["review"]]

ContentDigest_NoConsent(manifest, transcript, consent, head) ==
  <<manifest, transcript, head>>
ContentDigest(manifest, transcript, consent, head) ==
  <<manifest, transcript, consent, head>>

Generate(c, log, reviewer, stamp) ==
  LET m == Manifest(c, reviewer, stamp, HeadOf(log))
      digest == ContentDigest(m, c["candidate"], c["consent"], HeadOf(log))
  IN  [id |-> digest, dossier |-> c["dossier"], manifest |-> m,
       transcript |-> c["candidate"], consent |-> c["consent"],
       reviewer |-> reviewer, stamp |-> stamp, head |-> HeadOf(log),
       review |-> c["review"], content |-> digest]

\* insertPackage and GetReleasePackage: the row is the dossier's, whatever
\* dossier the package names.
Row(p) == IF p = NoPackage THEN p ELSE [p EXCEPT !.dossier = StoredId]

DigestOf(p) == ContentDigest(p.manifest, p.transcript, p.consent, p.head)

\* release.Verify of the package in the payload: package_valid of a view.  It
\* compares neither the stamp nor the id.
Verify_ContentOnly(p) == p.content = DigestOf(p)
Verify(p) ==
  /\ p.content = DigestOf(p)
  /\ p.manifest.dossier = p.dossier
  /\ p.manifest.reviewer = p.reviewer
  /\ p.manifest.head = p.head
  /\ p.manifest.candidate = p.transcript
  /\ p.manifest.review = p.review

\* VerifyDossierRecords: each component of the stored row against what the
\* payload says it should be.
ManifestAgrees_RowReview ==
  /\ packageRow.manifest =
       Manifest(contents, package.reviewer, package.stamp, HeadOf(audit))
  /\ packageRow.review = contents["review"]
ManifestAgrees ==
  /\ packageRow.manifest =
       Manifest(contents, package.reviewer, package.stamp, HeadOf(audit))
  /\ packageRow.review = contents["review"]
  /\ package.review = contents["review"]

AuditHeadAgrees ==
  /\ package.head = HeadOf(audit)
  /\ packageRow.head = HeadOf(audit)
  /\ HeadOf(auditRows) = HeadOf(audit)

ComponentAgrees(name) ==
  CASE name = "manifest" -> ManifestAgrees
    [] name = "redacted_transcript" -> packageRow.transcript = contents["candidate"]
    [] name = "consent_snapshot" -> packageRow.consent = contents["consent"]
    [] name = "audit_head" -> AuditHeadAgrees

FailedComponents == {name \in Components : ~ComponentAgrees(name)}

\* VerifyRelease gives a report: the dossier is sealed, and its row is found.
Reports == phase = "serving" /\ package # NoPackage /\ packageRow # NoPackage

ReportValid ==
  /\ FailedComponents = {}
  /\ package.content = DigestOf(packageRow)

-----------------------------------------------------------------------------
(***************************************************************************)
(* Operations.                                                             *)
(***************************************************************************)
Init ==
  /\ contents \in Contents
  /\ audit = <<>> /\ auditRows = <<>>
  /\ package = NoPackage /\ packageRow = NoPackage
  /\ phase = "serving"
  /\ recorded = {}
  /\ original = [contents |-> contents, audit |-> <<>>, package |-> NoPackage]
  /\ faults = 0
  /\ fresh = TRUE

\* mutateWithBody up to Save, which writes the rows with the payload; a dossier
\* whose events do not fit the tables cannot be saved, and the UPDATE finds no
\* row by another dossier_id.
Record(body, p, log) ==
  /\ phase = "serving"
  /\ contents["dossier"] = StoredId
  /\ package = NoPackage
  /\ Len(audit) < MaxEvents
  /\ log = AppendAudit(StoredId, audit, body)
  /\ IsInsertable(log)
  /\ audit' = log /\ auditRows' = log
  /\ package' = p /\ packageRow' = Row(p)
  /\ recorded' = recorded \cup {Event(StoredId, audit, body)}
  /\ UNCHANGED <<phase, faults, fresh>>

Change(body, c) ==
  /\ contents' = c
  /\ Record(body, NoPackage, AppendAudit(StoredId, audit, body))
  /\ UNCHANGED original

\* The approval is reviewed, recorded, and sealed with its package.
Seal(body, a) ==
  LET c == [contents EXCEPT !["review"] = a.review]
      log == AppendAudit(StoredId, audit, body)
      p == Generate(c, log, a.reviewer, a.stamp)
  IN  /\ contents' = c
      /\ Record(body, p, log)
      /\ original' = [contents |-> c, audit |-> log, package |-> p]

\* A process opens the database: Migrate writes the rows from the payload, if
\* they fit, and VerifyAll checks both.  They do so under the payload's own
\* dossier_id: if it is another, so are the rows, and those of StoredId stay.
Start ==
  LET own == contents["dossier"] = StoredId
  IN  /\ IF IsInsertable(audit) /\ own
         THEN auditRows' = audit /\ packageRow' = Row(package)
         ELSE UNCHANGED rowVars
      /\ phase' = IF /\ IsInsertable(audit)
                     /\ VerifyAudit(contents["dossier"], audit)
                     /\ own => /\ RowsAgree(auditRows', audit)
                               /\ (package = NoPackage) = (packageRow' = NoPackage)
                  THEN "serving" ELSE "refused"
      /\ fresh' = TRUE
      /\ UNCHANGED <<payloadVars, historyVars, faults>>

-----------------------------------------------------------------------------
(***************************************************************************)
(* Faults of the storage.                                                  *)
(***************************************************************************)
Shas == {e.sha : e \in recorded}
Digests == Shas \cup {NoDigest, Garbage}

DamagedLogs(log) ==
  {[log EXCEPT ![i].body = b] : i \in DOMAIN log, b \in Bodies}
  \cup {[log EXCEPT ![i].sha = s] : i \in DOMAIN log, s \in Digests}
  \cup {[log EXCEPT ![i].previous = s] : i \in DOMAIN log, s \in Digests}
  \cup {RemoveAt(log, i) : i \in DOMAIN log}

\* Only the payload keeps events in an order of its own.
ReorderedLogs(log) ==
  {[log EXCEPT ![i] = log[j], ![j] = log[i]] : i, j \in DOMAIN log}

DamagedManifests(m) ==
  {[m EXCEPT !.dossier = v] : v \in Values}
  \cup {[m EXCEPT !.subject = v] : v \in Values}
  \cup {[m EXCEPT !.candidate = v] : v \in Values}
  \cup {[m EXCEPT !.reviewer = v] : v \in Values}
  \cup {[m EXCEPT !.stamp = v] : v \in Values}
  \cup {[m EXCEPT !.head = s] : s \in Digests}
  \cup {[m EXCEPT !.review = v] : v \in Values}

DamagedPackages(p) ==
  {[p EXCEPT !.manifest = m] : m \in DamagedManifests(p.manifest)}
  \cup {[p EXCEPT !.transcript = v] : v \in Values}
  \cup {[p EXCEPT !.consent = v] : v \in Values}
  \cup {[p EXCEPT !.reviewer = v] : v \in Values}
  \cup {[p EXCEPT !.stamp = v] : v \in Values}
  \cup {[p EXCEPT !.head = s] : s \in Digests}
  \cup {[p EXCEPT !.review = v] : v \in Values}
  \cup {[p EXCEPT !.content = Garbage]}
  \cup {[p EXCEPT !.id = Garbage]}

\* Only the payload's package names a dossier; a row under another dossier_id
\* is not found.
RenamedPackages(p) == {[p EXCEPT !.dossier = v] : v \in Values}

Fault == /\ faults < MaxFaults
         /\ faults' = faults + 1
         /\ fresh' = FALSE
         /\ UNCHANGED <<phase, historyVars>>

DamageContents ==
  /\ \E part \in Parts, v \in Values : contents' = [contents EXCEPT ![part] = v]
  /\ Fault
  /\ UNCHANGED <<audit, package, rowVars>>

DamageAudit ==
  /\ audit' \in DamagedLogs(audit) \cup ReorderedLogs(audit)
  /\ Fault
  /\ UNCHANGED <<contents, package, rowVars>>

DamagePackage ==
  /\ package # NoPackage
  /\ package' \in DamagedPackages(package) \cup RenamedPackages(package)
  /\ Fault
  /\ UNCHANGED <<contents, audit, rowVars>>

DamageAuditRows ==
  /\ auditRows' \in DamagedLogs(auditRows)
  /\ IsInsertable(auditRows')
  /\ Fault
  /\ UNCHANGED <<payloadVars, packageRow>>

DamagePackageRow ==
  /\ packageRow # NoPackage
  /\ packageRow' \in DamagedPackages(packageRow) \cup {NoPackage}
  /\ Fault
  /\ UNCHANGED <<payloadVars, auditRows>>

Damage == \/ DamageContents \/ DamageAudit \/ DamagePackage
          \/ DamageAuditRows \/ DamagePackageRow

Next ==
  \/ \E body \in Bodies, c \in Contents : Change(body, c)
  \/ \E body \in Bodies, a \in Approvals : Seal(body, a)
  \/ Start
  \/ Damage

Spec == Init /\ [][Next]_evidenceVars

-----------------------------------------------------------------------------
(***************************************************************************)
(* Properties.                                                             *)
(***************************************************************************)
Events == [sequence : Nat, body : Bodies, previous : Digests, sha : Digests]
Logs == Seq(Events)
Manifests == [dossier : Values, subject : Values, candidate : Values,
              reviewer : Values, stamp : Values, head : Digests, review : Values]
Packages ==
  [id : {Garbage, original.package.content}, dossier : Values,
   manifest : Manifests, transcript : Values, consent : Values,
   reviewer : Values, stamp : Values, head : Digests, review : Values,
   content : {Garbage, original.package.content}]

\* The shape of every part of the state; no digest comes out of nowhere.
TypeOK ==
  /\ contents \in [Parts -> Values]
  /\ audit \in Logs
  /\ auditRows \in Logs
  /\ package \in Packages \cup {NoPackage}
  /\ packageRow \in Packages \cup {NoPackage}
  /\ phase \in {"serving", "refused"}
  /\ recorded \subseteq Events
  /\ \A e \in recorded : e.sha = EventDigest(StoredId, e.sequence, e.body, e.previous)
  /\ faults \in Nat
  /\ fresh \in BOOLEAN

\* A chain VerifyAudit accepts consists of events that were recorded, whatever
\* was edited, dropped or reordered.
AcceptedEventsAreRecorded ==
  VerifyAudit(contents["dossier"], audit) =>
    \A i \in DOMAIN audit : audit[i] \in recorded

\* A valid report tells the truth: what is released, and everything it is
\* compared with, is what was sealed.  Faults on both sides do not cancel out.
ValidReportsAreTrue ==
  Reports /\ ReportValid =>
    /\ packageRow.manifest = original.package.manifest
    /\ packageRow.transcript = original.package.transcript
    /\ packageRow.consent = original.package.consent
    /\ packageRow.review = original.package.review
    /\ package.reviewer = original.package.reviewer
    /\ package.stamp = original.package.stamp
    /\ package.review = original.package.review
    /\ contents = original.contents
    /\ {HeadOf(audit), HeadOf(auditRows), package.head, packageRow.head} =
         {HeadOf(original.audit)}

SameBut(fields, p, q) == \A f \in DOMAIN p \ fields : p[f] = q[f]

\* package_valid of a view vouches for what is released and for the approval,
\* but not for the package's own stamp and id: they may be others than sealed,
\* since neither digest covers them and Verify does not compare the stamp with
\* the manifest, which repeats it.
ValidPackageIsAuthentic ==
  package # NoPackage /\ Verify(package) =>
    SameBut({"stamp", "id"}, package, original.package)

\* What a component is about, in what is stored and as it was sealed.
Damaged(name) ==
  CASE name = "manifest" ->
         \/ packageRow.manifest # original.package.manifest
         \/ packageRow.review # original.package.review
         \/ package.review # original.package.review
         \/ package.reviewer # original.package.reviewer
         \/ package.stamp # original.package.stamp
         \/ HeadOf(audit) # HeadOf(original.audit)
         \/ \E part \in Parts \ {"consent"} :
              contents[part] # original.contents[part]
    [] name = "redacted_transcript" ->
         \/ packageRow.transcript # original.package.transcript
         \/ contents["candidate"] # original.contents["candidate"]
    [] name = "consent_snapshot" ->
         \/ packageRow.consent # original.package.consent
         \/ contents["consent"] # original.contents["consent"]
    [] name = "audit_head" ->
         {HeadOf(audit), HeadOf(auditRows), package.head, packageRow.head}
           # {HeadOf(original.audit)}

\* A report names no component that is as it was sealed, and after a single
\* fault it names every component the fault has reached.
BlameIsExact ==
  Reports => /\ \A name \in FailedComponents : Damaged(name)
             /\ faults = 1 => \A name \in Components :
                                Damaged(name) => name \in FailedComponents

\* A start and a valid report together prove all that the model keeps, but for
\* the package's id and the dossier the payload's package names: package, row
\* and contents are what was sealed, and so is the whole history with its rows,
\* unless it was damaged before it was sealed.
StartAndReportProveAll ==
  fresh /\ Reports /\ ReportValid =>
    /\ VerifyAudit(StoredId, original.audit) =>
         audit = original.audit /\ auditRows = original.audit
    /\ SameBut({"dossier", "id"}, package, original.package)
    /\ SameBut({"id"}, packageRow, original.package)
    /\ contents = original.contents
=============================================================================
