--------------------------- MODULE EvidenceProofs ---------------------------
(***************************************************************************)
(* What digests prove, for any contents and any number of events and       *)
(* faults: a chain that is accepted was recorded, and a valid report or    *)
(* package_valid is about what was sealed.                                 *)
(*                                                                         *)
(* The argument: a fault can put any digest in the place of any other, but *)
(* not one that was never computed (TypeOK keeps account of them); so the  *)
(* content digest of a package is the one it was sealed with or garbage,   *)
(* and what it is compared with can only be what it was made from.         *)
(***************************************************************************)
EXTENDS Evidence, SequenceTheorems, WellFoundedInduction, TLAPS

LEMMA DigestsDiffer ==
  ASSUME NEW a, NEW b, NEW c, NEW d
  PROVE  /\ Garbage # <<a, b, c, d>>
         /\ NoDigest # <<a, b, c, d>>
         /\ NoDigest # Garbage
<1>1. Len(Garbage) = 1 /\ Len(NoDigest) = 0
  BY DEF Garbage, NoDigest
<1>2. ASSUME NEW x, x = <<a, b, c, d>> PROVE Len(x) = 4
  BY <1>2
<1>3. Garbage # <<a, b, c, d>> /\ NoDigest # <<a, b, c, d>>
  BY <1>1, <1>2
<1>4. QED
  BY <1>1, <1>3

LEMMA DigestsDetermine ==
  ASSUME NEW a, NEW b, NEW c, NEW d, NEW e, NEW f, NEW g, NEW h,
         <<a, b, c, d>> = <<e, f, g, h>>
  PROVE  a = e /\ b = f /\ c = g /\ d = h
  OBVIOUS

LEMMA RemovedAreMembers ==
  ASSUME NEW S, NEW s \in Seq(S), NEW i \in DOMAIN s
  PROVE  /\ RemoveAt(s, i) \in Seq(S)
         /\ \A j \in DOMAIN RemoveAt(s, i) : \E k \in DOMAIN s : RemoveAt(s, i)[j] = s[k]
<1> DEFINE front == SubSeq(s, 1, i - 1)
           back == SubSeq(s, i + 1, Len(s))
<1>1. i \in 1..Len(s) /\ Len(s) \in Nat
  OBVIOUS
<1>2. /\ front \in Seq(S) /\ Len(front) = i - 1
      /\ \A j \in 1..(i - 1) : front[j] = s[j]
  BY <1>1
<1>3. /\ back \in Seq(S) /\ Len(back) = Len(s) - i
      /\ \A j \in 1..(Len(s) - i) : back[j] = s[i + j]
  BY <1>1
<1> HIDE DEF front, back
<1>4. /\ front \o back \in Seq(S)
      /\ Len(front \o back) = Len(s) - 1
      /\ \A j \in 1..(Len(s) - 1) :
           (front \o back)[j] = IF j <= i - 1 THEN front[j] ELSE back[j - (i - 1)]
  <2>1. /\ front \o back \in Seq(S)
        /\ Len(front \o back) = Len(front) + Len(back)
        /\ \A j \in 1..(Len(front) + Len(back)) :
             (front \o back)[j] = IF j <= Len(front) THEN front[j]
                                                     ELSE back[j - Len(front)]
    BY <1>2, <1>3, ConcatProperties
  <2>2. Len(front) + Len(back) = Len(s) - 1
    BY <1>1, <1>2, <1>3
  <2>3. QED
    BY <1>2, <2>1, <2>2
<1>5. ASSUME NEW j \in 1..(Len(s) - 1)
      PROVE  \E k \in 1..Len(s) : (front \o back)[j] = s[k]
  <2>1. CASE j <= i - 1
    BY <1>1, <1>2, <1>4, <2>1
  <2>2. CASE ~(j <= i - 1)
    <3>1. j - (i - 1) \in 1..(Len(s) - i)
      BY <1>1, <2>2
    <3>2. (front \o back)[j] = s[i + (j - (i - 1))]
      BY <1>3, <1>4, <2>2, <3>1
    <3>3. i + (j - (i - 1)) \in 1..Len(s)
      BY <1>1, <2>2
    <3>4. QED
      BY <3>2, <3>3
  <2>3. QED
    BY <2>1, <2>2
<1>6. RemoveAt(s, i) = front \o back
  BY DEF RemoveAt, front, back
<1>7. /\ DOMAIN RemoveAt(s, i) = 1..(Len(s) - 1)
      /\ DOMAIN s = 1..Len(s)
  BY <1>4, <1>6
<1>8. \A j \in DOMAIN RemoveAt(s, i) :
        \E k \in DOMAIN s : RemoveAt(s, i)[j] = s[k]
  BY <1>5, <1>6, <1>7
<1>9. QED
  BY <1>4, <1>6, <1>8

LEMMA UpdatesAreMembers ==
  ASSUME NEW S, NEW s \in Seq(S), NEW i \in DOMAIN s, NEW e \in S
  PROVE  [s EXCEPT ![i] = e] \in Seq(S)
  OBVIOUS

LEMMA SequencesGrow ==
  ASSUME NEW S, NEW T, S \subseteq T, NEW s \in Seq(S)
  PROVE  s \in Seq(T)
  OBVIOUS

LEMMA SwapsAreMembers ==
  ASSUME NEW S, NEW s \in Seq(S), NEW i \in DOMAIN s, NEW j \in DOMAIN s
  PROVE  [s EXCEPT ![i] = s[j], ![j] = s[i]] \in Seq(S)
<1>1. s[i] \in S /\ s[j] \in S
  OBVIOUS
<1>2. [s EXCEPT ![i] = s[j]] \in Seq(S) /\ j \in DOMAIN [s EXCEPT ![i] = s[j]]
  BY <1>1
<1>3. [[s EXCEPT ![i] = s[j]] EXCEPT ![j] = s[i]] \in Seq(S)
  BY <1>1, <1>2, UpdatesAreMembers
<1>4. QED
  BY <1>3

-----------------------------------------------------------------------------
(***************************************************************************)
(* The shape of the state.                                                 *)
(***************************************************************************)
LEMMA EditedEvents ==
  ASSUME NEW e \in Events
  PROVE  /\ \A b \in Bodies : [e EXCEPT !.body = b] \in Events
         /\ \A s \in Digests : /\ [e EXCEPT !.sha = s] \in Events
                              /\ [e EXCEPT !.previous = s] \in Events
  BY DEF Events

LEMMA DamagedLogsType ==
  ASSUME NEW log \in Logs
  PROVE  DamagedLogs(log) \cup ReorderedLogs(log) \subseteq Logs
<1>1. ASSUME NEW i \in DOMAIN log, NEW e \in Events
      PROVE  [log EXCEPT ![i] = e] \in Logs
  BY UpdatesAreMembers DEF Logs
<1>2. ASSUME NEW i \in DOMAIN log PROVE log[i] \in Events
  BY DEF Logs
<1>3. ASSUME NEW i \in DOMAIN log, NEW b \in Bodies
      PROVE  [log EXCEPT ![i].body = b] \in Logs
  BY <1>1, <1>2, EditedEvents
<1>4. ASSUME NEW i \in DOMAIN log, NEW s \in Digests
       PROVE  /\ [log EXCEPT ![i].sha = s] \in Logs
              /\ [log EXCEPT ![i].previous = s] \in Logs
  BY <1>1, <1>2, EditedEvents
<1>5. ASSUME NEW i \in DOMAIN log PROVE RemoveAt(log, i) \in Logs
  BY RemovedAreMembers DEF Logs
<1>6. ASSUME NEW i \in DOMAIN log, NEW j \in DOMAIN log
      PROVE  [log EXCEPT ![i] = log[j], ![j] = log[i]] \in Logs
  BY SwapsAreMembers DEF Logs
<1>7. DamagedLogs(log) \subseteq Logs
  <2>1. SUFFICES ASSUME NEW x \in DamagedLogs(log) PROVE x \in Logs
    OBVIOUS
  <2>2. \E i \in DOMAIN log :
          \/ \E b \in Bodies : x = [log EXCEPT ![i].body = b]
          \/ \E s \in Digests : x = [log EXCEPT ![i].sha = s]
          \/ \E s \in Digests : x = [log EXCEPT ![i].previous = s]
          \/ x = RemoveAt(log, i)
    BY DEF DamagedLogs
  <2>3. QED
    BY <1>3, <1>4, <1>5, <2>2
<1>8. ReorderedLogs(log) \subseteq Logs
  BY <1>6 DEF ReorderedLogs
<1>9. QED
  BY <1>7, <1>8

LEMMA DamagedManifestsType ==
  ASSUME NEW m \in Manifests
  PROVE  DamagedManifests(m) \subseteq Manifests
<1>1. /\ \A v \in Values : /\ [m EXCEPT !.dossier = v] \in Manifests
                           /\ [m EXCEPT !.subject = v] \in Manifests
                           /\ [m EXCEPT !.candidate = v] \in Manifests
                           /\ [m EXCEPT !.reviewer = v] \in Manifests
                           /\ [m EXCEPT !.stamp = v] \in Manifests
                           /\ [m EXCEPT !.review = v] \in Manifests
      /\ \A s \in Digests : [m EXCEPT !.head = s] \in Manifests
  BY DEF Manifests
<1>2. SUFFICES ASSUME NEW x \in DamagedManifests(m) PROVE x \in Manifests
  OBVIOUS
<1>3. \/ \E v \in Values : \/ x = [m EXCEPT !.dossier = v]
                          \/ x = [m EXCEPT !.subject = v]
                          \/ x = [m EXCEPT !.candidate = v]
                          \/ x = [m EXCEPT !.reviewer = v]
                          \/ x = [m EXCEPT !.stamp = v]
                          \/ x = [m EXCEPT !.review = v]
      \/ \E s \in Digests : x = [m EXCEPT !.head = s]
  BY DEF DamagedManifests
<1>4. QED
  BY <1>1, <1>3

LEMMA DamagedPackagesType ==
  ASSUME NEW p \in Packages
  PROVE  DamagedPackages(p) \cup RenamedPackages(p) \subseteq Packages
<1>1. p.manifest \in Manifests
  BY DEF Packages
<1>2. ASSUME NEW m \in Manifests PROVE [p EXCEPT !.manifest = m] \in Packages
  BY DEF Packages
<1>3. ASSUME NEW v \in Values
      PROVE  /\ [p EXCEPT !.transcript = v] \in Packages
             /\ [p EXCEPT !.consent = v] \in Packages
             /\ [p EXCEPT !.reviewer = v] \in Packages
             /\ [p EXCEPT !.stamp = v] \in Packages
             /\ [p EXCEPT !.review = v] \in Packages
             /\ [p EXCEPT !.dossier = v] \in Packages
  BY DEF Packages
<1>4. ASSUME NEW s \in Digests PROVE [p EXCEPT !.head = s] \in Packages
  BY DEF Packages
<1>5. [p EXCEPT !.content = Garbage] \in Packages /\ [p EXCEPT !.id = Garbage] \in Packages
  BY DEF Packages
<1>6. RenamedPackages(p) \subseteq Packages
  BY <1>3 DEF RenamedPackages
<1>7. SUFFICES ASSUME NEW x \in DamagedPackages(p) PROVE x \in Packages
  BY <1>6
<1>8. \/ \E m \in Manifests : x = [p EXCEPT !.manifest = m]
      \/ \E v \in Values : \/ x = [p EXCEPT !.transcript = v]
                          \/ x = [p EXCEPT !.consent = v]
                          \/ x = [p EXCEPT !.reviewer = v]
                          \/ x = [p EXCEPT !.stamp = v]
                          \/ x = [p EXCEPT !.review = v]
      \/ \E s \in Digests : x = [p EXCEPT !.head = s]
      \/ x = [p EXCEPT !.content = Garbage]
      \/ x = [p EXCEPT !.id = Garbage]
  BY <1>1, DamagedManifestsType DEF DamagedPackages
<1>9. QED
  BY <1>2, <1>3, <1>4, <1>5, <1>8

LEMMA RowType ==
  ASSUME NEW p \in Packages \cup {NoPackage}
  PROVE  Row(p) \in Packages \cup {NoPackage}
  BY EvidenceAssumption DEF Row, Packages

\* Digests only become more.
LEMMA TypesGrow ==
  ASSUME recorded \subseteq recorded'
  PROVE  /\ Digests \subseteq Digests'
         /\ Events \subseteq Events'
         /\ Logs \subseteq Logs'
<1>1. Digests \subseteq Digests'
  BY DEF Digests, Shas
<1>2. Events \subseteq Events'
  BY <1>1 DEF Events
<1>3. QED
  BY <1>1, <1>2, SequencesGrow DEF Logs

LEMMA HeadType ==
  ASSUME NEW log \in Logs
  PROVE  HeadOf(log) \in Digests
<1>1. CASE log = <<>>
  BY <1>1 DEF HeadOf, Digests
<1>2. CASE log # <<>>
  <2>1. log[Len(log)] \in Events
    BY <1>2 DEF Logs
  <2>2. QED
    BY <1>2, <2>1 DEF HeadOf, Events
<1>3. QED
  BY <1>1, <1>2

-----------------------------------------------------------------------------
(***************************************************************************)
(* An operation is recorded.                                               *)
(***************************************************************************)
LEMMA EventType ==
  ASSUME TypeOK, NEW body \in Bodies, recorded' = recorded \cup {Event(StoredId, audit, body)}
  PROVE  /\ AppendAudit(StoredId, audit, body) \in Logs'
         /\ HeadOf(AppendAudit(StoredId, audit, body)) \in Digests'
         /\ recorded' \subseteq Events'
         /\ \A e \in recorded' : e.sha = EventDigest(StoredId, e.sequence, e.body, e.previous)
<1> DEFINE e == Event(StoredId, audit, body)
           n == Len(audit) + 1
<1>1. /\ e = [sequence |-> n, body |-> body, previous |-> HeadOf(audit),
               sha |-> EventDigest(StoredId, n, body, HeadOf(audit))]
      /\ e \in recorded'
  BY DEF Event
<1>2. HeadOf(audit) \in Digests /\ n \in Nat
  BY HeadType DEF TypeOK, Logs
<1>3. Digests \subseteq Digests' /\ Events \subseteq Events' /\ Logs \subseteq Logs'
  BY TypesGrow
<1> HIDE DEF e, n
<1>4. e.sha \in Digests'
  BY <1>1 DEF Digests, Shas
<1>5. e \in Events'
  BY <1>1, <1>2, <1>3, <1>4 DEF Events
<1>6. audit \in Seq(Events')
  BY <1>3 DEF TypeOK, Logs
<1>7. AppendAudit(StoredId, audit, body) = Append(audit, e)
  BY DEF AppendAudit, e
<1>8. Append(audit, e) \in Seq(Events')
  BY <1>5, <1>6
<1>9. HeadOf(Append(audit, e)) = e.sha
  <2>1. /\ Len(Append(audit, e)) = Len(audit) + 1
        /\ Append(audit, e)[Len(audit) + 1] = e
        /\ Append(audit, e) # <<>>
    BY <1>5, <1>6
  <2>2. QED
    BY <2>1 DEF HeadOf
<1>10. \A x \in recorded' : x \in recorded \/ x = e
  BY DEF e
<1>11. e.sha = EventDigest(StoredId, e.sequence, e.body, e.previous)
  BY <1>1
<1>12. QED
  BY <1>3, <1>4, <1>5, <1>7, <1>8, <1>9, <1>10, <1>11 DEF TypeOK, Logs

LEMMA RecordTypes ==
  ASSUME TypeOK, NEW body \in Bodies, NEW p, NEW log, Record(body, p, log),
         p \in Packages' \cup {NoPackage}, contents' \in [Parts -> Values]
  PROVE  TypeOK'
<1>1. /\ log = AppendAudit(StoredId, audit, body)
      /\ audit' = log /\ auditRows' = log /\ package' = p /\ packageRow' = Row(p)
      /\ recorded' = recorded \cup {Event(StoredId, audit, body)}
      /\ UNCHANGED <<phase, faults, fresh>>
  BY DEF Record
<1>2. /\ log \in Logs'
      /\ recorded' \subseteq Events'
      /\ \A e \in recorded' : e.sha = EventDigest(StoredId, e.sequence, e.body, e.previous)
  BY <1>1, EventType
<1>3. Row(p) \in Packages' \cup {NoPackage}
  BY EvidenceAssumption DEF Row, Packages
<1>4. QED
  BY <1>1, <1>2, <1>3 DEF TypeOK

LEMMA GenerateType ==
  ASSUME NEW c \in [Parts -> Values], NEW log, NEW a \in Approvals,
         HeadOf(log) \in Digests',
         original'.package = Generate(c, log, a.reviewer, a.stamp)
  PROVE  Generate(c, log, a.reviewer, a.stamp) \in Packages'
<1> DEFINE m == Manifest(c, a.reviewer, a.stamp, HeadOf(log))
           digest == ContentDigest(m, c["candidate"], c["consent"], HeadOf(log))
           p == Generate(c, log, a.reviewer, a.stamp)
<1>1. /\ c["dossier"] \in Values /\ c["subject"] \in Values
      /\ c["candidate"] \in Values
      /\ c["consent"] \in Values /\ c["review"] \in Values
      /\ a.reviewer \in Values /\ a.stamp \in Values
  BY EvidenceAssumption DEF Parts
<1>2. m \in Manifests'
  BY <1>1 DEF Manifest, Manifests
<1>3. p = [id |-> digest, dossier |-> c["dossier"], manifest |-> m,
           transcript |-> c["candidate"], consent |-> c["consent"],
           reviewer |-> a.reviewer, stamp |-> a.stamp, head |-> HeadOf(log),
           review |-> c["review"], content |-> digest]
  BY DEF Generate
<1> HIDE DEF m, digest, p
<1>4. digest \in {Garbage, original'.package.content}
  BY <1>3 DEF p
<1>5. p \in Packages'
  BY <1>1, <1>2, <1>3, <1>4 DEF Packages
<1>6. QED
  BY <1>5 DEF p

-----------------------------------------------------------------------------
(***************************************************************************)
(* The inductive invariant: a package on file was sealed, as it was made.  *)
(***************************************************************************)
WasGenerated(o) ==
  /\ o.contents \in [Parts -> Values]
  /\ o.contents["dossier"] = StoredId
  /\ \E reviewer, stamp \in Values :
       o.package = Generate(o.contents, o.audit, reviewer, stamp)

EvidenceInv ==
  /\ TypeOK
  /\ package # NoPackage => WasGenerated(original)

LEMMA InitHolds ==
  ASSUME Init
  PROVE  EvidenceInv
<1>1. /\ contents \in [Parts -> Values]
      /\ audit = <<>> /\ auditRows = <<>> /\ recorded = {}
      /\ package = NoPackage /\ packageRow = NoPackage
      /\ phase = "serving" /\ faults = 0 /\ fresh = TRUE
  BY EvidenceAssumption DEF Init
<1>2. <<>> \in Logs
  BY DEF Logs
<1>3. QED
  BY <1>1, <1>2 DEF EvidenceInv, TypeOK

LEMMA ChangeKeeps ==
  ASSUME EvidenceInv, NEW body \in Bodies, NEW c \in Contents, Change(body, c)
  PROVE  EvidenceInv'
<1>1. /\ contents' = c /\ c \in [Parts -> Values]
      /\ Record(body, NoPackage, AppendAudit(StoredId, audit, body))
  BY EvidenceAssumption DEF Change
<1>2. TypeOK'
  BY <1>1, RecordTypes DEF EvidenceInv
<1>3. package' = NoPackage
  BY <1>1 DEF Record
<1>4. QED
  BY <1>2, <1>3 DEF EvidenceInv

LEMMA SealKeeps ==
  ASSUME EvidenceInv, NEW body \in Bodies, NEW a \in Approvals, Seal(body, a)
  PROVE  EvidenceInv'
<1> DEFINE c == [contents EXCEPT !["review"] = a.review]
           log == AppendAudit(StoredId, audit, body)
           p == Generate(c, log, a.reviewer, a.stamp)
<1>1. /\ contents' = c /\ Record(body, p, log)
      /\ original' = [contents |-> c, audit |-> log, package |-> p]
  BY DEF Seal
<1>2. /\ a.reviewer \in Values /\ a.stamp \in Values /\ a.review \in Values
  BY EvidenceAssumption
<1>3. c \in [Parts -> Values] /\ c["dossier"] = StoredId
  BY <1>1, <1>2 DEF EvidenceInv, TypeOK, Parts, Record
<1>4. HeadOf(log) \in Digests'
  BY <1>1, EventType DEF EvidenceInv, Record
<1> HIDE DEF c, log
<1>5. /\ original'.contents = c /\ original'.audit = log
      /\ original'.package = Generate(c, log, a.reviewer, a.stamp)
  BY <1>1
<1>6. p \in Packages'
  BY <1>3, <1>4, <1>5, GenerateType
<1> HIDE DEF p
<1>7. TypeOK'
  BY <1>1, <1>3, <1>6, RecordTypes DEF EvidenceInv
<1>8. WasGenerated(original)'
  BY <1>2, <1>3, <1>5 DEF WasGenerated
<1>9. QED
  BY <1>7, <1>8 DEF EvidenceInv

LEMMA StartKeeps ==
  ASSUME EvidenceInv, Start
  PROVE  EvidenceInv'
<1>1. /\ UNCHANGED <<contents, audit, package, recorded, original, faults>>
      /\ auditRows' \in {audit, auditRows}
      /\ packageRow' \in {Row(package), packageRow}
      /\ phase' \in {"serving", "refused"}
      /\ fresh' = TRUE
  BY DEF Start, payloadVars, rowVars, historyVars
<1>2. Digests' = Digests
  BY <1>1 DEF Digests, Shas
<1>3. Logs' = Logs /\ Packages' = Packages /\ Events' = Events
  BY <1>1, <1>2 DEF Logs, Events, Packages, Manifests
<1>4. Row(package) \in Packages \cup {NoPackage}
  BY RowType DEF TypeOK, EvidenceInv
<1>5. TypeOK'
  BY <1>1, <1>3, <1>4 DEF TypeOK, EvidenceInv
<1>6. QED
  BY <1>1, <1>5 DEF EvidenceInv, WasGenerated

LEMMA DamageKeeps ==
  ASSUME EvidenceInv, Damage
  PROVE  EvidenceInv'
<1>1. /\ UNCHANGED <<recorded, original, phase>>
      /\ faults' \in Nat
      /\ fresh' = FALSE
  BY DEF Damage, DamageContents, DamageAudit, DamagePackage, DamageAuditRows,
         DamagePackageRow, Fault, historyVars, EvidenceInv, TypeOK
<1>2. Digests' = Digests
  BY <1>1 DEF Digests, Shas
<1>3. Logs' = Logs /\ Packages' = Packages /\ Events' = Events
  BY <1>1, <1>2 DEF Logs, Events, Packages, Manifests
<1>4. contents' \in [Parts -> Values]
  BY DEF Damage, DamageContents, DamageAudit, DamagePackage, DamageAuditRows,
         DamagePackageRow, payloadVars, EvidenceInv, TypeOK
<1>5. audit' \in Logs /\ auditRows' \in Logs
  BY DamagedLogsType
  DEF Damage, DamageContents, DamageAudit, DamagePackage, DamageAuditRows,
      DamagePackageRow, payloadVars, rowVars, EvidenceInv, TypeOK
<1>6. /\ package' \in Packages \cup {NoPackage}
      /\ packageRow' \in Packages \cup {NoPackage}
  BY DamagedPackagesType
  DEF Damage, DamageContents, DamageAudit, DamagePackage, DamageAuditRows,
      DamagePackageRow, payloadVars, rowVars, EvidenceInv, TypeOK
<1>7. TypeOK'
  BY <1>1, <1>3, <1>4, <1>5, <1>6 DEF TypeOK, EvidenceInv
<1>8. package' # NoPackage => package # NoPackage
  BY DEF Damage, DamageContents, DamageAudit, DamagePackage, DamageAuditRows,
         DamagePackageRow, payloadVars
<1>9. QED
  BY <1>1, <1>7, <1>8 DEF EvidenceInv, WasGenerated

LEMMA EvidenceInvNext ==
  ASSUME EvidenceInv, [Next]_evidenceVars
  PROVE  EvidenceInv'
<1>1. CASE UNCHANGED evidenceVars
  <2>1. UNCHANGED <<contents, audit, package, auditRows, packageRow, phase,
                    recorded, original, faults, fresh>>
    BY <1>1 DEF evidenceVars
  <2>2. Digests' = Digests
    BY <2>1 DEF Digests, Shas
  <2>3. Logs' = Logs /\ Packages' = Packages /\ Events' = Events
    BY <2>1, <2>2 DEF Logs, Events, Packages, Manifests
  <2>4. QED
    BY <2>1, <2>3 DEF EvidenceInv, TypeOK, WasGenerated
<1>2. QED
  BY <1>1, ChangeKeeps, SealKeeps, StartKeeps, DamageKeeps DEF Next

LEMMA EvidenceInvHolds == Spec => []EvidenceInv
  BY InitHolds, EvidenceInvNext, PTL DEF Spec

-----------------------------------------------------------------------------
(***************************************************************************)
(* What it is for.                                                         *)
(***************************************************************************)
\* TypeOK: whatever AppendAudit, Generate, Migrate and faults have written,
\* every digest on file was computed from something, or is garbage.
THEOREM EvidenceTypeCorrect == Spec => []TypeOK
<1>1. EvidenceInv => TypeOK
  BY DEF EvidenceInv
<1>2. QED
  BY <1>1, EvidenceInvHolds, PTL

\* AcceptedEventsAreRecorded: what VerifyAudit accepts was appended by
\* AppendAudit, event by event.
THEOREM AcceptedChainsWereRecorded == Spec => []AcceptedEventsAreRecorded
<1>1. ASSUME TypeOK PROVE AcceptedEventsAreRecorded
  <2> DEFINE id == contents["dossier"]
  <2>1. SUFFICES ASSUME VerifyAudit(id, audit), NEW i \in DOMAIN audit
                 PROVE  audit[i] \in recorded
    BY DEF AcceptedEventsAreRecorded
  <2>2. audit[i] \in Events
    BY <1>1 DEF TypeOK, Logs
  <2>3. audit[i].sha = <<id, audit[i].sequence, audit[i].body, audit[i].previous>>
    BY <2>1 DEF VerifyAudit, EventDigest
  <2> HIDE DEF id
  <2>4. audit[i].sha # Garbage /\ audit[i].sha # NoDigest
    BY <2>3, DigestsDiffer
  <2>5. PICK e \in recorded : audit[i].sha = e.sha
    BY <2>2, <2>4 DEF Events, Digests, Shas
  <2>6. e.sha = <<StoredId, e.sequence, e.body, e.previous>> /\ e \in Events
    BY <1>1 DEF TypeOK, EventDigest
  <2>7. /\ audit[i].sequence = e.sequence /\ audit[i].body = e.body
        /\ audit[i].previous = e.previous
    BY <2>3, <2>5, <2>6, DigestsDetermine
  <2>8. audit[i] = e
    BY <2>2, <2>5, <2>6, <2>7 DEF Events
  <2>9. QED
    BY <2>8
<1>2. QED
  BY <1>1, EvidenceTypeCorrect, PTL

LEMMA ContentDetermines ==
  ASSUME NEW m, NEW t, NEW c, NEW h, NEW n, NEW u, NEW d, NEW g,
         ContentDigest(m, t, c, h) = ContentDigest(n, u, d, g)
  PROVE  m = n /\ t = u /\ c = d /\ h = g
  BY DigestsDetermine DEF ContentDigest

\* A content digest that is the digest of a package is the one of the seal, and
\* so that package has the parts that were sealed.
LEMMA DigestedAsSealed ==
  ASSUME NEW o, NEW reviewer, NEW stamp,
         o.package = Generate(o.contents, o.audit, reviewer, stamp),
         NEW p, NEW content \in {Garbage, o.package.content}, content = DigestOf(p)
  PROVE  /\ p.manifest = o.package.manifest
         /\ p.transcript = o.package.transcript
         /\ p.consent = o.package.consent
         /\ p.head = o.package.head
         /\ content = o.package.content
<1>1. content # Garbage
  BY DigestsDiffer DEF DigestOf, ContentDigest
<1>2. o.package.content = ContentDigest(o.package.manifest, o.package.transcript,
                                        o.package.consent, o.package.head)
  BY DEF Generate
<1>3. ContentDigest(p.manifest, p.transcript, p.consent, p.head)
        = ContentDigest(o.package.manifest, o.package.transcript,
                        o.package.consent, o.package.head)
  BY <1>1, <1>2 DEF DigestOf
<1>4. QED
  BY <1>1, <1>3, ContentDetermines

LEMMA GeneratedParts ==
  ASSUME NEW o, NEW reviewer, NEW stamp,
         o.package = Generate(o.contents, o.audit, reviewer, stamp)
  PROVE  /\ o.package.manifest
              = Manifest(o.contents, reviewer, stamp, HeadOf(o.audit))
         /\ o.package.dossier = o.contents["dossier"]
         /\ o.package.transcript = o.contents["candidate"]
         /\ o.package.consent = o.contents["consent"]
         /\ o.package.reviewer = reviewer
         /\ o.package.stamp = stamp
         /\ o.package.head = HeadOf(o.audit)
         /\ o.package.review = o.contents["review"]
  BY DEF Generate

LEMMA ManifestParts ==
  ASSUME NEW c, NEW r, NEW t, NEW h
  PROVE  /\ Manifest(c, r, t, h).dossier = c["dossier"]
         /\ Manifest(c, r, t, h).subject = c["subject"]
         /\ Manifest(c, r, t, h).candidate = c["candidate"]
         /\ Manifest(c, r, t, h).review = c["review"]
         /\ Manifest(c, r, t, h).reviewer = r
         /\ Manifest(c, r, t, h).stamp = t
         /\ Manifest(c, r, t, h).head = h
  BY DEF Manifest

LEMMA ManifestDetermines ==
  ASSUME NEW c, NEW r, NEW t, NEW h, NEW d, NEW s, NEW u, NEW g,
         Manifest(c, r, t, h) = Manifest(d, s, u, g)
  PROVE  /\ c["dossier"] = d["dossier"] /\ c["subject"] = d["subject"]
         /\ c["candidate"] = d["candidate"] /\ c["review"] = d["review"]
         /\ r = s /\ t = u /\ h = g
<1> DEFINE m == Manifest(c, r, t, h)
<1>1. /\ m.dossier = c["dossier"] /\ m.subject = c["subject"]
      /\ m.candidate = c["candidate"] /\ m.review = c["review"]
      /\ m.reviewer = r /\ m.stamp = t /\ m.head = h
  BY ManifestParts
<1>2. m = Manifest(d, s, u, g)
  OBVIOUS
<1> HIDE DEF m
<1>3. /\ m.dossier = d["dossier"] /\ m.subject = d["subject"]
      /\ m.candidate = d["candidate"] /\ m.review = d["review"]
      /\ m.reviewer = s /\ m.stamp = u /\ m.head = g
  BY <1>2, ManifestParts
<1>4. QED
  BY <1>1, <1>3

LEMMA PackageFields ==
  ASSUME NEW p \in Packages
  PROVE  DOMAIN p = {"id", "dossier", "manifest", "transcript", "consent",
                     "reviewer", "stamp", "head", "review", "content"}
  BY DEF Packages

\* The report, of one state: what is on file is what it was made from.
LEMMA TrueReport ==
  ASSUME EvidenceInv
  PROVE  ValidReportsAreTrue
<1>1. SUFFICES ASSUME Reports, ReportValid
               PROVE  /\ packageRow.manifest = original.package.manifest
                      /\ packageRow.transcript = original.package.transcript
                      /\ packageRow.consent = original.package.consent
                      /\ packageRow.review = original.package.review
                      /\ package.reviewer = original.package.reviewer
                      /\ package.stamp = original.package.stamp
                      /\ package.review = original.package.review
                      /\ contents = original.contents
                      /\ {HeadOf(audit), HeadOf(auditRows), package.head,
                            packageRow.head} = {HeadOf(original.audit)}
  BY DEF ValidReportsAreTrue
<1>2. /\ WasGenerated(original)
      /\ package.content \in {Garbage, original.package.content}
      /\ contents \in [Parts -> Values]
  BY <1>1 DEF EvidenceInv, TypeOK, Reports, Packages
<1>3. PICK reviewer, stamp \in Values :
        original.package = Generate(original.contents, original.audit, reviewer, stamp)
  BY <1>2 DEF WasGenerated
<1>4. package.content = DigestOf(packageRow)
  BY <1>1 DEF ReportValid
<1>5. /\ packageRow.manifest = original.package.manifest
      /\ packageRow.transcript = original.package.transcript
      /\ packageRow.consent = original.package.consent
      /\ packageRow.head = original.package.head
  BY <1>2, <1>3, <1>4, DigestedAsSealed
<1>6. \A name \in Components : ComponentAgrees(name)
  BY <1>1 DEF ReportValid, FailedComponents
<1>7. ManifestAgrees
  BY <1>6 DEF Components, ComponentAgrees
<1>8. packageRow.consent = contents["consent"]
  BY <1>6 DEF Components, ComponentAgrees
<1>9. AuditHeadAgrees
  BY <1>6 DEF Components, ComponentAgrees
<1>10. /\ original.package.manifest
            = Manifest(original.contents, reviewer, stamp, HeadOf(original.audit))
       /\ original.package.consent = original.contents["consent"]
       /\ original.package.reviewer = reviewer
       /\ original.package.stamp = stamp
       /\ original.package.review = original.contents["review"]
  BY <1>3, GeneratedParts
<1>11. /\ contents["dossier"] = original.contents["dossier"]
       /\ contents["subject"] = original.contents["subject"]
       /\ contents["candidate"] = original.contents["candidate"]
       /\ contents["review"] = original.contents["review"]
       /\ package.reviewer = reviewer
       /\ package.stamp = stamp
       /\ HeadOf(audit) = HeadOf(original.audit)
  <2>1. Manifest(contents, package.reviewer, package.stamp, HeadOf(audit))
          = Manifest(original.contents, reviewer, stamp, HeadOf(original.audit))
    BY <1>5, <1>7, <1>10 DEF ManifestAgrees
  <2>2. QED
    BY ONLY <2>1, ManifestDetermines
<1>12. contents["consent"] = original.contents["consent"]
  BY <1>5, <1>8, <1>10
<1>13. contents = original.contents
  BY <1>2, <1>11, <1>12 DEF WasGenerated, Parts
<1>14. /\ packageRow.review = original.package.review
       /\ package.review = original.package.review
  BY <1>7, <1>10, <1>11 DEF ManifestAgrees
<1>15. /\ package.head = HeadOf(original.audit)
       /\ packageRow.head = HeadOf(original.audit)
       /\ HeadOf(auditRows) = HeadOf(original.audit)
  BY <1>9, <1>11 DEF AuditHeadAgrees
<1>16. QED
  BY <1>5, <1>10, <1>11, <1>13, <1>14, <1>15

\* ValidReportsAreTrue: whatever faults there were, a valid answer of
\* VerifyRelease is about the release that was sealed.
THEOREM ReportsTellTheTruth == Spec => []ValidReportsAreTrue
  BY TrueReport, EvidenceInvHolds, PTL

\* ValidPackageIsAuthentic: a package release.Verify accepts (package_valid in a
\* view) has the manifest, transcript, consent, reviewer, review and chain head
\* that were sealed, and names their dossier; its own stamp and id, which Verify
\* does not compare, are all that a fault may have changed.
THEOREM ViewsTellTheTruth == Spec => []ValidPackageIsAuthentic
<1>1. ASSUME EvidenceInv PROVE ValidPackageIsAuthentic
  <2> DEFINE o == original.package
  <2>1. SUFFICES ASSUME package # NoPackage, Verify(package)
                 PROVE  SameBut({"stamp", "id"}, package, o)
    BY DEF ValidPackageIsAuthentic
  <2>2. /\ WasGenerated(original)
        /\ package \in Packages
        /\ package.content \in {Garbage, o.content}
    BY <1>1, <2>1 DEF EvidenceInv, TypeOK, Packages
  <2>3. PICK reviewer, stamp \in Values :
          o = Generate(original.contents, original.audit, reviewer, stamp)
    BY <2>2 DEF WasGenerated
  <2>4. /\ package.manifest = o.manifest
        /\ package.transcript = o.transcript
        /\ package.consent = o.consent
        /\ package.head = o.head
        /\ package.content = o.content
    BY <2>1, <2>2, <2>3, DigestedAsSealed DEF Verify
  <2>5. /\ o.manifest.dossier = o.dossier
        /\ o.manifest.reviewer = o.reviewer
        /\ o.manifest.review = o.review
    BY <2>3 DEF Generate, Manifest
  <2> HIDE DEF o
  <2>6. /\ package.dossier = o.dossier
        /\ package.reviewer = o.reviewer
        /\ package.review = o.review
    BY <2>1, <2>4, <2>5 DEF Verify
  <2>7. QED
    BY <2>2, <2>4, <2>6, PackageFields DEF SameBut
<1>2. QED
  BY <1>1, EvidenceInvHolds, PTL

-----------------------------------------------------------------------------
(***************************************************************************)
(* A chain is determined by its head: two that VerifyAudit accepts and     *)
(* that end in one digest are the same, event by event.  The last event in *)
(* which they differed would be followed by one that holds its digest, or  *)
(* be the head itself.                                                     *)
(***************************************************************************)
\* A set of numbers has a least one, and a bounded one a greatest.
LEMMA LeastElement ==
  ASSUME NEW T \in SUBSET Nat, T # {}
  PROVE  \E x \in T : \A y \in T : x <= y
<1> DEFINE R == OpToRel(<, Nat)
<1>1. ASSUME NEW x \in Nat, NEW y \in Nat, y < x PROVE <<y, x>> \in R
  BY <1>1 DEF OpToRel
<1>2. IsWellFoundedOn(R, Nat)
  BY NatLessThanWellFounded
<1> HIDE DEF R
<1>3. PICK x \in T : \A y \in T : ~(<<y, x>> \in R)
  BY <1>2, WFMin
<1>4. \A y \in T : ~(y < x) /\ y \in Nat /\ x \in Nat
  BY <1>1, <1>3
<1>5. QED
  BY <1>4

LEMMA GreatestElement ==
  ASSUME NEW n \in Nat, NEW T \in SUBSET (1..n), T # {}
  PROVE  \E x \in T : \A y \in T : y <= x
<1> DEFINE U == {n - y : y \in T}
<1>1. U \in SUBSET Nat /\ U # {}
  <2>1. \A y \in T : n - y \in Nat
    OBVIOUS
  <2>2. QED
    BY <2>1
<1>2. PICK u \in U : \A y \in U : u <= y
  <2> HIDE DEF U
  <2>1. QED
    BY <1>1, LeastElement
<1>3. PICK x \in T : u = n - x
  BY <1>2
<1>4. ASSUME NEW y \in T PROVE y <= x
  <2>1. n - y \in U
    OBVIOUS
  <2>2. u <= n - y
    BY <1>2, <2>1
  <2>3. x \in 1..n /\ y \in 1..n
    OBVIOUS
  <2>4. QED
    BY <1>3, <2>2, <2>3
<1>5. QED
  BY <1>4

LEMMA HeadDeterminesLength ==
  ASSUME NEW id, NEW a \in Logs, NEW b \in Logs,
         VerifyAudit(id, a), VerifyAudit(id, b),
         HeadOf(a) = HeadOf(b)
  PROVE  Len(a) = Len(b)
<1>1. ASSUME NEW c \in Logs, VerifyAudit(id, c), c # <<>>
      PROVE  HeadOf(c) = <<id, Len(c), c[Len(c)].body, c[Len(c)].previous>>
  <2>1. Len(c) \in DOMAIN c
    BY <1>1 DEF Logs
  <2>2. QED
    BY <1>1, <2>1 DEF HeadOf, VerifyAudit, EventDigest
<1>2. HeadOf(<<>>) = NoDigest /\ Len(<<>>) = 0
  BY DEF HeadOf
<1>3. CASE a = <<>> \/ b = <<>>
  BY <1>1, <1>2, <1>3, DigestsDiffer
<1>4. CASE a # <<>> /\ b # <<>>
  BY <1>1, <1>4, DigestsDetermine
<1>5. QED
  BY <1>3, <1>4

LEMMA HeadDeterminesChain ==
  ASSUME NEW id, NEW a \in Logs, NEW b \in Logs,
         VerifyAudit(id, a), VerifyAudit(id, b),
         HeadOf(a) = HeadOf(b)
  PROVE  a = b
<1> DEFINE n == Len(a)
           Differ == {i \in 1..n : a[i] # b[i]}
<1>1. n \in Nat /\ Len(b) = n /\ DOMAIN a = 1..n /\ DOMAIN b = 1..n
  BY HeadDeterminesLength DEF Logs
<1>2. ASSUME NEW i \in 1..n, a[i].sha = b[i].sha
      PROVE  a[i] = b[i]
  <2>1. a[i] \in Events /\ b[i] \in Events
    BY <1>1 DEF Logs
  <2>2. /\ a[i].sha = <<id, i, a[i].body, a[i].previous>> /\ a[i].sequence = i
        /\ b[i].sha = <<id, i, b[i].body, b[i].previous>> /\ b[i].sequence = i
    BY <1>1 DEF VerifyAudit, EventDigest
  <2>3. a[i].body = b[i].body /\ a[i].previous = b[i].previous
    <3>1. <<id, i, a[i].body, a[i].previous>> = <<id, i, b[i].body, b[i].previous>>
      BY <1>2, <2>2
    <3>2. QED
      BY ONLY <3>1, DigestsDetermine
  <2>4. QED
    BY <1>2, <2>1, <2>2, <2>3 DEF Events
<1>3. ASSUME Differ # {} PROVE FALSE
  <2>1. PICK i \in Differ : \A j \in Differ : j <= i
    <3>1. Differ \in SUBSET (1..n)
      OBVIOUS
    <3> HIDE DEF Differ
    <3>2. QED
      BY <1>1, <1>3, <3>1, GreatestElement
  <2>2. i \in 1..n /\ a[i] # b[i]
    OBVIOUS
  <2>3. a[i].sha # b[i].sha
    BY <1>2, <2>2
  <2>4. CASE i = n
    <3>1. a # <<>> /\ b # <<>>
      BY <1>1, <2>2
    <3>2. a[n].sha = b[n].sha
      BY <1>1, <3>1 DEF HeadOf
    <3>3. QED
      BY <2>3, <2>4, <3>2
  <2>5. CASE i # n
    <3>1. i + 1 \in 1..n /\ i + 1 # 1 /\ ~(i + 1 <= i) /\ (i + 1) - 1 = i
      <4>1. i \in 1..n /\ i # n /\ n \in Nat
        BY <1>1, <2>2, <2>5
      <4> HIDE DEF n
      <4>2. QED
        BY <4>1
    <3>2. a[i + 1] = b[i + 1]
      BY <2>1, <3>1
    <3>3. /\ a[i + 1].previous = a[i].sha
          /\ b[i + 1].previous = b[i].sha
      BY <1>1, <3>1 DEF VerifyAudit, PreviousOf
    <3>4. QED
      BY <2>3, <3>2, <3>3
  <2>6. QED
    BY <2>4, <2>5
<1>4. \A i \in 1..n : a[i] = b[i]
  BY <1>3
<1>5. QED
  BY <1>1, <1>4 DEF Logs

-----------------------------------------------------------------------------
(***************************************************************************)
(* What a start proves.  While no fault follows a start, the rows are the  *)
(* payload's and the chain is one VerifyAudit accepts: Migrate and         *)
(* VerifyAll have made it so, and every operation since has kept it.       *)
(***************************************************************************)
FreshIsSound ==
  fresh /\ phase = "serving" /\ contents["dossier"] = StoredId =>
    /\ VerifyAudit(StoredId, audit)
    /\ auditRows = audit /\ packageRow = Row(package)

\* What was sealed is of the types of the model.
SealedIsTyped == package # NoPackage => original.audit \in Logs

StartInv == EvidenceInv /\ FreshIsSound /\ SealedIsTyped

LEMMA AppendKeepsChain ==
  ASSUME NEW id, NEW log \in Logs, NEW body \in Bodies, VerifyAudit(id, log)
  PROVE  VerifyAudit(id, AppendAudit(id, log, body))
<1> DEFINE e == Event(id, log, body)
           n == Len(log)
           longer == Append(log, e)
<1>1. /\ n \in Nat /\ DOMAIN log = 1..n /\ DOMAIN longer = 1..(n + 1)
      /\ longer[n + 1] = e
      /\ \A i \in 1..n : longer[i] = log[i]
  BY DEF Logs
<1>2. /\ e.sequence = n + 1 /\ e.body = body /\ e.previous = HeadOf(log)
      /\ e.sha = EventDigest(id, n + 1, body, HeadOf(log))
  BY DEF Event
<1>3. AppendAudit(id, log, body) = longer
  BY DEF AppendAudit
<1>4. HeadOf(log) = IF n = 0 THEN NoDigest ELSE log[n].sha
  BY DEF HeadOf, Logs
<1> HIDE DEF e, longer
<1>5. ASSUME NEW i \in 1..(n + 1)
      PROVE  /\ longer[i].sequence = i
             /\ longer[i].previous = PreviousOf(longer, i)
             /\ longer[i].sha = EventDigest(id, i, longer[i].body, longer[i].previous)
  <2>1. CASE i \in 1..n
    <3>1. i # 1 => i - 1 \in 1..n
      BY <1>1, <2>1
    <3>2. PreviousOf(longer, i) = PreviousOf(log, i)
      BY <1>1, <2>1, <3>1 DEF PreviousOf
    <3>3. QED
      BY <1>1, <2>1, <3>2 DEF VerifyAudit
  <2>2. CASE i = n + 1
    <3>1. PreviousOf(longer, n + 1) = HeadOf(log)
      <4>1. CASE n = 0
        BY <1>4, <4>1 DEF PreviousOf
      <4>2. CASE n # 0
        <5>1. (n + 1) - 1 = n /\ n + 1 # 1 /\ n \in 1..n
          BY <1>1, <4>2
        <5>2. QED
          BY <1>1, <1>4, <4>2, <5>1 DEF PreviousOf
      <4>3. QED
        BY <4>1, <4>2
    <3>2. QED
      BY <1>1, <1>2, <2>2, <3>1
  <2>3. QED
    BY <1>1, <2>1, <2>2
<1>6. QED
  BY <1>1, <1>3, <1>5 DEF VerifyAudit

LEMMA RecordKeepsFresh ==
  ASSUME EvidenceInv, FreshIsSound, NEW body \in Bodies, NEW p,
         Record(body, p, AppendAudit(StoredId, audit, body))
  PROVE  FreshIsSound'
<1>1. /\ audit' = AppendAudit(StoredId, audit, body) /\ auditRows' = audit'
      /\ package' = p /\ packageRow' = Row(p)
      /\ fresh' = fresh /\ phase' = phase
      /\ contents["dossier"] = StoredId
  BY DEF Record
<1>2. ASSUME VerifyAudit(StoredId, audit) PROVE VerifyAudit(StoredId, audit')
  BY <1>1, <1>2, AppendKeepsChain DEF EvidenceInv, TypeOK
<1>3. VerifyAudit(StoredId, audit)' <=> VerifyAudit(StoredId, audit')
  BY DEF VerifyAudit, PreviousOf
<1>4. Row(package)' = Row(p)
  BY <1>1 DEF Row
<1>5. QED
  BY <1>1, <1>2, <1>3, <1>4 DEF FreshIsSound

LEMMA StartInvNext ==
  ASSUME StartInv, [Next]_evidenceVars
  PROVE  StartInv'
<1> USE DEF StartInv
<1>1. EvidenceInv'
  BY EvidenceInvNext
<1>2. CASE \E body \in Bodies, c \in Contents : Change(body, c)
  <2>1. PICK body \in Bodies, c \in Contents : Change(body, c)
    BY <1>2
  <2>2. Record(body, NoPackage, AppendAudit(StoredId, audit, body))
    BY <2>1 DEF Change
  <2>3. FreshIsSound'
    BY <2>2, RecordKeepsFresh
  <2>4. package' = NoPackage
    BY <2>2 DEF Record
  <2>5. QED
    BY <1>1, <2>3, <2>4 DEF SealedIsTyped
<1>3. CASE \E body \in Bodies, a \in Approvals : Seal(body, a)
  <2>1. PICK body \in Bodies, a \in Approvals : Seal(body, a)
    BY <1>3
  <2> DEFINE p == Generate([contents EXCEPT !["review"] = a.review],
                           AppendAudit(StoredId, audit, body), a.reviewer, a.stamp)
  <2>2. /\ Record(body, p, AppendAudit(StoredId, audit, body))
        /\ original'.audit = AppendAudit(StoredId, audit, body)
    BY <2>1 DEF Seal
  <2> HIDE DEF p
  <2>3. FreshIsSound'
    BY <2>2, RecordKeepsFresh
  <2>4. original'.audit \in Logs'
    BY <2>2, EventType DEF Record, EvidenceInv
  <2>5. QED
    BY <1>1, <2>3, <2>4 DEF SealedIsTyped
<1>4. CASE Start
  <2>1. /\ UNCHANGED <<contents, audit, package, original, recorded>>
        /\ phase' = "serving" /\ contents["dossier"] = StoredId =>
             /\ VerifyAudit(StoredId, audit)
             /\ auditRows' = audit /\ packageRow' = Row(package)
    BY <1>4 DEF Start, payloadVars, historyVars
  <2>2. /\ VerifyAudit(StoredId, audit)' <=> VerifyAudit(StoredId, audit)
        /\ Row(package)' = Row(package)
    BY <2>1 DEF VerifyAudit, PreviousOf, Row
  <2>3. Logs' = Logs
    BY <2>1 DEF Logs, Events, Digests, Shas
  <2>4. QED
    BY <1>1, <2>1, <2>2, <2>3 DEF FreshIsSound, SealedIsTyped
<1>5. CASE Damage
  <2>1. UNCHANGED <<original, recorded>> /\ fresh' = FALSE
    BY <1>5 DEF Damage, DamageContents, DamageAudit, DamagePackage,
       DamageAuditRows, DamagePackageRow, Fault, historyVars
  <2>2. package' # NoPackage => package # NoPackage
    BY <1>5 DEF Damage, DamageContents, DamageAudit, DamagePackage,
       DamageAuditRows, DamagePackageRow, payloadVars
  <2>3. Logs' = Logs
    BY <2>1 DEF Logs, Events, Digests, Shas
  <2>4. QED
    BY <1>1, <2>1, <2>2, <2>3 DEF FreshIsSound, SealedIsTyped
<1>6. CASE UNCHANGED evidenceVars
  <2>1. UNCHANGED <<contents, audit, package, auditRows, packageRow, phase,
                    recorded, original, fresh>>
    BY <1>6 DEF evidenceVars
  <2>2. /\ VerifyAudit(StoredId, audit)' <=> VerifyAudit(StoredId, audit)
        /\ Row(package)' = Row(package) /\ Logs' = Logs
    BY <2>1 DEF VerifyAudit, PreviousOf, Row, Logs, Events, Digests, Shas
  <2>3. QED
    BY <1>1, <2>1, <2>2 DEF FreshIsSound, SealedIsTyped
<1>7. QED
  BY <1>2, <1>3, <1>4, <1>5, <1>6 DEF Next

LEMMA StartInvHolds == Spec => []StartInv
<1>1. ASSUME Init PROVE StartInv
  <2>1. audit = <<>> /\ auditRows = <<>> /\ package = NoPackage
        /\ packageRow = NoPackage
    BY <1>1 DEF Init
  <2>2. VerifyAudit(StoredId, <<>>) /\ Row(NoPackage) = NoPackage
    BY DEF VerifyAudit, Row
  <2>3. QED
    BY <1>1, <2>1, <2>2, InitHolds DEF StartInv, FreshIsSound, SealedIsTyped
<1>2. QED
  BY <1>1, StartInvNext, PTL DEF Spec

\* StartAndReportProveAll: after VerifyAll let the process start and as long as
\* no fault follows, a valid answer of VerifyRelease vouches for all but the
\* package's id and the dossier it names, the whole history included: nothing
\* else a fault of any number could write passes both.
THEOREM StartAndReportAreProof == Spec => []StartAndReportProveAll
<1>1. ASSUME StartInv PROVE StartAndReportProveAll
  <2> DEFINE o == original.package
  <2>1. SUFFICES ASSUME fresh, Reports, ReportValid
                 PROVE  /\ VerifyAudit(StoredId, original.audit) =>
                             audit = original.audit /\ auditRows = original.audit
                        /\ SameBut({"dossier", "id"}, package, o)
                        /\ SameBut({"id"}, packageRow, o)
                        /\ contents = original.contents
    BY DEF StartAndReportProveAll
  <2>2. /\ packageRow.manifest = o.manifest
        /\ packageRow.transcript = o.transcript
        /\ packageRow.consent = o.consent
        /\ package.reviewer = o.reviewer
        /\ package.stamp = o.stamp
        /\ package.review = o.review
        /\ contents = original.contents
        /\ {HeadOf(audit), HeadOf(auditRows), package.head, packageRow.head} =
             {HeadOf(original.audit)}
    BY <1>1, <2>1, TrueReport DEF StartInv, ValidReportsAreTrue
  <2>3. /\ WasGenerated(original)
        /\ contents["dossier"] = StoredId
    BY <1>1, <2>1, <2>2 DEF StartInv, EvidenceInv, Reports, WasGenerated
  <2>4. /\ VerifyAudit(StoredId, audit) /\ auditRows = audit
        /\ packageRow = Row(package)
        /\ original.audit \in Logs /\ audit \in Logs
        /\ package # NoPackage /\ package \in Packages
        /\ package.content \in {Garbage, o.content}
    BY <1>1, <2>1, <2>3 DEF StartInv, FreshIsSound, SealedIsTyped, Reports,
       EvidenceInv, TypeOK, Packages
  <2>5. ASSUME VerifyAudit(StoredId, original.audit) PROVE audit = original.audit
    <3>1. HeadOf(audit) = HeadOf(original.audit)
      BY <2>2
    <3>2. QED
      BY <2>4, <2>5, <3>1, HeadDeterminesChain
  <2>6. PICK reviewer, stamp \in Values :
          o = Generate(original.contents, original.audit, reviewer, stamp)
    BY <2>3 DEF WasGenerated
  <2>7. o.head = HeadOf(original.audit) /\ o.dossier = StoredId
    BY <2>3, <2>6, GeneratedParts DEF WasGenerated
  <2>8. /\ packageRow = [package EXCEPT !.dossier = StoredId]
        /\ packageRow \in Packages
    BY <1>1, <2>1, <2>4 DEF Row, StartInv, EvidenceInv, TypeOK, Reports
  <2>9. package.content = o.content
    BY <2>1, <2>4, <2>6, DigestedAsSealed DEF ReportValid
  <2>10. /\ package.manifest = o.manifest /\ package.transcript = o.transcript
         /\ package.consent = o.consent /\ package.head = o.head
    BY <2>2, <2>4, <2>7, <2>8 DEF Packages
  <2>11. /\ packageRow.dossier = o.dossier /\ packageRow.reviewer = o.reviewer
         /\ packageRow.stamp = o.stamp /\ packageRow.head = o.head
         /\ packageRow.review = o.review /\ packageRow.content = o.content
    BY <2>2, <2>4, <2>7, <2>8, <2>9, <2>10 DEF Packages
  <2> HIDE DEF o
  <2>12. SameBut({"dossier", "id"}, package, o)
    BY <2>2, <2>4, <2>9, <2>10, PackageFields DEF SameBut
  <2>13. SameBut({"id"}, packageRow, o)
    BY <2>2, <2>8, <2>11, PackageFields DEF SameBut
  <2>14. QED
    BY <2>2, <2>4, <2>5, <2>12, <2>13
<1>2. QED
  BY <1>1, StartInvHolds, PTL

-----------------------------------------------------------------------------
(***************************************************************************)
(* What a report blames.  A component that is as it was sealed agrees with *)
(* the others by how Generate made them.  The other way, a single fault    *)
(* reaches the contents, or the chain and its rows, or the package and its *)
(* row, and leaves the rest to compare with; a start may carry it over     *)
(* from the payload to the rows, or undo it there.                         *)
(***************************************************************************)
OnlyContentsOff ==
  /\ audit = original.audit /\ auditRows = original.audit
  /\ package = original.package /\ packageRow = original.package

OnlyChainOff ==
  /\ contents = original.contents
  /\ package = original.package /\ packageRow = original.package

OnlyPackageOff ==
  /\ contents = original.contents
  /\ audit = original.audit /\ auditRows = original.audit
  /\ \/ /\ package = original.package
        /\ packageRow \in {original.package, NoPackage}
                            \cup DamagedPackages(original.package)
     \/ /\ package \in DamagedPackages(original.package)
                       \cup RenamedPackages(original.package)
        /\ packageRow \in {original.package, Row(package)}

AsSealed == OnlyContentsOff /\ OnlyChainOff

SingleFault ==
  package # NoPackage =>
    /\ faults = 0 => AsSealed
    /\ faults = 1 => OnlyContentsOff \/ OnlyChainOff \/ OnlyPackageOff

\* The row of a package as it was sealed is that package.
LEMMA RowOfSealed ==
  ASSUME NEW o, WasGenerated(o)
  PROVE  Row(o.package) = o.package
<1>1. PICK reviewer, stamp \in Values :
        o.package = Generate(o.contents, o.audit, reviewer, stamp)
  BY DEF WasGenerated
<1>2. o.contents["dossier"] = StoredId
  BY DEF WasGenerated
<1>3. QED
  BY <1>1, <1>2 DEF Row, Generate

LEMMA SingleFaultDamage ==
  ASSUME EvidenceInv, SingleFault, Damage
  PROVE  SingleFault'
<1>1. /\ UNCHANGED <<recorded, original>> /\ faults' = faults + 1
      /\ faults \in Nat
  BY DEF Damage, DamageContents, DamageAudit, DamagePackage, DamageAuditRows,
         DamagePackageRow, Fault, historyVars, EvidenceInv, TypeOK
<1>2. package' # NoPackage => package # NoPackage
  BY DEF Damage, DamageContents, DamageAudit, DamagePackage, DamageAuditRows,
         DamagePackageRow, payloadVars
<1>3. SUFFICES ASSUME package # NoPackage, faults = 0
               PROVE  (OnlyContentsOff \/ OnlyChainOff \/ OnlyPackageOff)'
  BY <1>1, <1>2 DEF SingleFault
<1>4. AsSealed
  BY <1>3 DEF SingleFault
<1>5. CASE DamageContents
  BY <1>1, <1>4, <1>5
  DEF DamageContents, rowVars, AsSealed, OnlyContentsOff, OnlyChainOff
<1>6. CASE DamageAudit \/ DamageAuditRows
  BY <1>1, <1>4, <1>6
  DEF DamageAudit, DamageAuditRows, payloadVars, rowVars, AsSealed,
      OnlyContentsOff, OnlyChainOff
<1>7. ASSUME NEW p PROVE DamagedPackages(p)' = DamagedPackages(p)
  BY <1>1 DEF DamagedPackages, DamagedManifests, Digests, Shas
<1>8. CASE DamagePackage
  BY <1>1, <1>4, <1>7, <1>8
  DEF DamagePackage, rowVars, AsSealed, OnlyContentsOff, OnlyChainOff, OnlyPackageOff
<1>9. CASE DamagePackageRow
  BY <1>1, <1>4, <1>7, <1>9
  DEF DamagePackageRow, payloadVars, AsSealed, OnlyContentsOff, OnlyChainOff,
      OnlyPackageOff
<1>10. QED
  BY <1>5, <1>6, <1>8, <1>9 DEF Damage

LEMMA SingleFaultStart ==
  ASSUME EvidenceInv, SingleFault, Start
  PROVE  SingleFault'
<1>1. /\ UNCHANGED <<contents, audit, package, recorded, original, faults>>
      /\ \/ auditRows' = audit /\ packageRow' = Row(package)
         \/ auditRows' = auditRows /\ packageRow' = packageRow
  BY DEF Start, payloadVars, rowVars, historyVars
<1>2. DamagedPackages(original.package)' = DamagedPackages(original.package)
  BY <1>1 DEF DamagedPackages, DamagedManifests, Digests, Shas
<1>3. SUFFICES ASSUME package # NoPackage PROVE SingleFault'
  BY <1>1 DEF SingleFault
<1>4. Row(original.package) = original.package
  BY <1>3, RowOfSealed DEF EvidenceInv
<1>5. RenamedPackages(original.package)' = RenamedPackages(original.package)
  BY <1>1 DEF RenamedPackages
<1>6. Row(package)' = Row(package)
  BY <1>1 DEF Row
<1>7. OnlyContentsOff => OnlyContentsOff'
  BY <1>1, <1>4 DEF OnlyContentsOff
<1>8. OnlyChainOff => OnlyChainOff'
  BY <1>1, <1>4 DEF OnlyChainOff
<1>9. OnlyPackageOff => OnlyPackageOff'
  BY <1>1, <1>2, <1>4, <1>5, <1>6 DEF OnlyPackageOff
<1>10. QED
  BY <1>1, <1>7, <1>8, <1>9 DEF SingleFault, AsSealed

LEMMA SingleFaultNext ==
  ASSUME EvidenceInv, SingleFault, [Next]_evidenceVars
  PROVE  SingleFault'
<1>1. CASE \E body \in Bodies, c \in Contents : Change(body, c)
  BY <1>1 DEF Change, Record, SingleFault
<1>2. CASE \E body \in Bodies, a \in Approvals : Seal(body, a)
  <2>1. PICK body \in Bodies, a \in Approvals : Seal(body, a)
    BY <1>2
  <2> DEFINE c == [contents EXCEPT !["review"] = a.review]
             log == AppendAudit(StoredId, audit, body)
             p == Generate(c, log, a.reviewer, a.stamp)
  <2>2. /\ contents' = c /\ audit' = log /\ auditRows' = log
        /\ package' = p /\ packageRow' = Row(p)
        /\ original' = [contents |-> c, audit |-> log, package |-> p]
    BY <2>1 DEF Seal, Record
  <2> HIDE DEF c, log, p
  <2>3. ASSUME package' # NoPackage PROVE Row(p) = p
    <3>1. WasGenerated(original)'
      BY <2>1, <2>3, SealKeeps DEF EvidenceInv
    <3>2. WasGenerated(original')
      BY <3>1 DEF WasGenerated
    <3>3. original'.package = p
      BY <2>2
    <3>4. QED
      BY <3>2, <3>3, RowOfSealed
  <2>4. QED
    BY <2>2, <2>3 DEF SingleFault, AsSealed, OnlyContentsOff, OnlyChainOff
<1>3. CASE UNCHANGED evidenceVars
  <2>1. UNCHANGED <<contents, audit, package, auditRows, packageRow, recorded,
                    original, faults>>
    BY <1>3 DEF evidenceVars
  <2>2. /\ DamagedPackages(original.package)' = DamagedPackages(original.package)
        /\ RenamedPackages(original.package)' = RenamedPackages(original.package)
        /\ Row(package)' = Row(package)
    BY <2>1 DEF DamagedPackages, DamagedManifests, RenamedPackages, Row, Digests, Shas
  <2>3. QED
    BY <2>1, <2>2
    DEF SingleFault, AsSealed, OnlyContentsOff, OnlyChainOff, OnlyPackageOff
<1>4. QED
  BY <1>1, <1>2, <1>3, SingleFaultStart, SingleFaultDamage DEF Next

LEMMA SingleFaultHolds == Spec => [](EvidenceInv /\ SingleFault)
<1>1. ASSUME Init PROVE SingleFault
  BY <1>1 DEF Init, SingleFault
<1>2. QED
  BY <1>1, InitHolds, EvidenceInvNext, SingleFaultNext, PTL DEF Spec

\* No component is blamed that is as it was sealed.
LEMMA BlamedAreDamaged ==
  ASSUME EvidenceInv, Reports, NEW name \in Components, ~Damaged(name)
  PROVE  ComponentAgrees(name)
<1>1. PICK reviewer, stamp \in Values :
        original.package = Generate(original.contents, original.audit, reviewer, stamp)
  BY DEF EvidenceInv, WasGenerated, Reports
<1>2. /\ original.package.manifest
           = Manifest(original.contents, reviewer, stamp, HeadOf(original.audit))
      /\ original.package.transcript = original.contents["candidate"]
      /\ original.package.consent = original.contents["consent"]
      /\ original.package.reviewer = reviewer
      /\ original.package.stamp = stamp
      /\ original.package.head = HeadOf(original.audit)
      /\ original.package.review = original.contents["review"]
  BY <1>1, GeneratedParts
<1>3. CASE name = "manifest"
  <2>1. /\ packageRow.manifest = original.package.manifest
        /\ packageRow.review = original.package.review
        /\ package.review = original.package.review
        /\ package.reviewer = original.package.reviewer
        /\ package.stamp = original.package.stamp
        /\ HeadOf(audit) = HeadOf(original.audit)
        /\ contents["dossier"] = original.contents["dossier"]
        /\ contents["subject"] = original.contents["subject"]
        /\ contents["candidate"] = original.contents["candidate"]
        /\ contents["review"] = original.contents["review"]
    BY <1>3 DEF Damaged, Parts
  <2>2. Manifest(contents, package.reviewer, package.stamp, HeadOf(audit))
          = Manifest(original.contents, reviewer, stamp, HeadOf(original.audit))
    BY <1>2, <2>1 DEF Manifest
  <2>3. ManifestAgrees
    BY <1>2, <2>1, <2>2 DEF ManifestAgrees
  <2>4. QED
    BY <1>3, <2>3 DEF ComponentAgrees
<1>4. CASE name = "redacted_transcript"
  BY <1>2, <1>4 DEF Damaged, ComponentAgrees
<1>5. CASE name = "consent_snapshot"
  BY <1>2, <1>5 DEF Damaged, ComponentAgrees
<1>6. CASE name = "audit_head"
  <2>1. {HeadOf(audit), HeadOf(auditRows), package.head, packageRow.head}
          = {HeadOf(original.audit)}
    BY <1>6 DEF Damaged
  <2>2. AuditHeadAgrees
    BY <2>1 DEF AuditHeadAgrees
  <2>3. QED
    BY <1>6, <2>2 DEF ComponentAgrees
<1>7. QED
  BY <1>3, <1>4, <1>5, <1>6 DEF Components

\* A fault of a package is in one part of it: a package whose reviewer or stamp
\* is not the one it was sealed with still has its manifest, and the other way
\* round.
LEMMA DamageIsSingle ==
  ASSUME NEW c, NEW log, NEW reviewer, NEW stamp,
         NEW p, p = Generate(c, log, reviewer, stamp),
         NEW q \in DamagedPackages(p) \cup RenamedPackages(p)
  PROVE  \/ q.manifest = p.manifest
         \/ q.reviewer = p.reviewer /\ q.stamp = p.stamp
<1>1. DOMAIN p = {"id", "dossier", "manifest", "transcript", "consent",
                  "reviewer", "stamp", "head", "review", "content"}
  BY DEF Generate
<1>2. CASE q \in RenamedPackages(p)
  BY <1>1, <1>2 DEF RenamedPackages
<1>3. CASE q \in DamagedPackages(p)
  <2>1. \/ \E m \in DamagedManifests(p.manifest) : q = [p EXCEPT !.manifest = m]
        \/ \E v \in Values : \/ q = [p EXCEPT !.transcript = v]
                            \/ q = [p EXCEPT !.consent = v]
                            \/ q = [p EXCEPT !.reviewer = v]
                            \/ q = [p EXCEPT !.stamp = v]
                            \/ q = [p EXCEPT !.review = v]
        \/ \E s \in Digests : q = [p EXCEPT !.head = s]
        \/ q = [p EXCEPT !.content = Garbage]
        \/ q = [p EXCEPT !.id = Garbage]
    BY <1>3 DEF DamagedPackages
  <2>2. CASE \E m \in DamagedManifests(p.manifest) : q = [p EXCEPT !.manifest = m]
    BY <1>1, <2>2
  <2>3. CASE \E v \in Values : \/ q = [p EXCEPT !.transcript = v]
                              \/ q = [p EXCEPT !.consent = v]
                              \/ q = [p EXCEPT !.reviewer = v]
                              \/ q = [p EXCEPT !.stamp = v]
                              \/ q = [p EXCEPT !.review = v]
    BY <1>1, <2>3
  <2>4. CASE \E s \in Digests : q = [p EXCEPT !.head = s]
    BY <1>1, <2>4
  <2>5. CASE q = [p EXCEPT !.content = Garbage] \/ q = [p EXCEPT !.id = Garbage]
    BY <1>1, <2>5
  <2>6. QED
    BY <2>1, <2>2, <2>3, <2>4, <2>5
<1>4. QED
  BY <1>2, <1>3

\* After a single fault every component it has reached is blamed.
LEMMA DamagedAreBlamed ==
  ASSUME EvidenceInv, SingleFault, Reports, faults = 1,
         NEW name \in Components, ComponentAgrees(name)
  PROVE  ~Damaged(name)
<1> DEFINE o == original.package
<1>1. PICK reviewer, stamp \in Values :
        o = Generate(original.contents, original.audit, reviewer, stamp)
  BY DEF EvidenceInv, WasGenerated, Reports
<1>2. /\ o.manifest = Manifest(original.contents, reviewer, stamp, HeadOf(original.audit))
      /\ o.transcript = original.contents["candidate"]
      /\ o.consent = original.contents["consent"]
      /\ o.reviewer = reviewer
      /\ o.stamp = stamp
      /\ o.head = HeadOf(original.audit)
      /\ o.review = original.contents["review"]
  BY <1>1, GeneratedParts
<1> HIDE DEF o
<1>3. package \in Packages /\ packageRow \in Packages
  BY DEF Reports, EvidenceInv, TypeOK
<1>4. \/ OnlyContentsOff \/ OnlyChainOff \/ OnlyPackageOff
  BY DEF SingleFault, Reports
<1>5. CASE name = "redacted_transcript"
  <2>1. packageRow.transcript = contents["candidate"]
    BY <1>5 DEF ComponentAgrees
  <2>2. packageRow = o \/ contents = original.contents
    BY <1>4 DEF OnlyContentsOff, OnlyChainOff, OnlyPackageOff, o
  <2>3. QED
    BY <1>2, <1>5, <2>1, <2>2 DEF Damaged, o
<1>6. CASE name = "consent_snapshot"
  <2>1. packageRow.consent = contents["consent"]
    BY <1>6 DEF ComponentAgrees
  <2>2. packageRow = o \/ contents = original.contents
    BY <1>4 DEF OnlyContentsOff, OnlyChainOff, OnlyPackageOff, o
  <2>3. QED
    BY <1>2, <1>6, <2>1, <2>2 DEF Damaged, o
<1>7. CASE name = "audit_head"
  <2>1. /\ package.head = HeadOf(audit) /\ packageRow.head = HeadOf(audit)
        /\ HeadOf(auditRows) = HeadOf(audit)
    BY <1>7 DEF ComponentAgrees, AuditHeadAgrees
  <2>2. package = o \/ audit = original.audit
    BY <1>4 DEF OnlyContentsOff, OnlyChainOff, OnlyPackageOff, o
  <2>3. HeadOf(audit) = HeadOf(original.audit)
    BY <1>2, <2>1, <2>2
  <2>4. QED
    BY <1>7, <2>1, <2>3 DEF Damaged
<1>8. CASE name = "manifest"
  <2>1. /\ packageRow.manifest
             = Manifest(contents, package.reviewer, package.stamp, HeadOf(audit))
        /\ packageRow.review = contents["review"]
        /\ package.review = contents["review"]
    BY <1>8 DEF ComponentAgrees, ManifestAgrees
  <2>2. SUFFICES /\ packageRow.manifest = o.manifest
                 /\ packageRow.review = o.review
                 /\ package.review = o.review
                 /\ package.reviewer = o.reviewer
                 /\ package.stamp = o.stamp
                 /\ HeadOf(audit) = HeadOf(original.audit)
                 /\ contents["dossier"] = original.contents["dossier"]
                 /\ contents["subject"] = original.contents["subject"]
                 /\ contents["candidate"] = original.contents["candidate"]
                 /\ contents["review"] = original.contents["review"]
    BY <1>8 DEF Damaged, Parts, o
  <2>3. CASE packageRow.manifest = o.manifest
    <3>1. Manifest(contents, package.reviewer, package.stamp, HeadOf(audit))
            = Manifest(original.contents, reviewer, stamp, HeadOf(original.audit))
      BY <1>2, <2>1, <2>3
    <3>2. /\ contents["dossier"] = original.contents["dossier"]
          /\ contents["subject"] = original.contents["subject"]
          /\ contents["candidate"] = original.contents["candidate"]
          /\ contents["review"] = original.contents["review"]
          /\ package.reviewer = reviewer
          /\ package.stamp = stamp
          /\ HeadOf(audit) = HeadOf(original.audit)
      BY ONLY <3>1, ManifestDetermines
    <3>3. QED
      BY <1>2, <2>1, <2>3, <3>2
  <2>4. ASSUME packageRow.manifest # o.manifest PROVE FALSE
    <3>1. OnlyPackageOff /\ packageRow # o
      BY <1>4, <2>4 DEF OnlyContentsOff, OnlyChainOff, o
    <3>2. Manifest(contents, reviewer, stamp, HeadOf(audit)) = o.manifest
      BY <1>2, <3>1 DEF OnlyPackageOff
    <3>3. ~(package.reviewer = o.reviewer /\ package.stamp = o.stamp)
      BY <1>2, <2>1, <2>4, <3>2
    <3>4. /\ package \in DamagedPackages(o) \cup RenamedPackages(o)
          /\ packageRow = Row(package)
      BY <3>1, <3>3 DEF OnlyPackageOff, o
    <3>5. packageRow.manifest = package.manifest
      BY <1>3, <3>4 DEF Row, Packages
    <3>6. QED
      BY <1>1, <2>4, <3>3, <3>4, <3>5, DamageIsSingle
  <2>5. QED
    BY <2>3, <2>4
<1>9. QED
  BY <1>5, <1>6, <1>7, <1>8 DEF Components

\* BlameIsExact: VerifyRelease names no component that is as it was sealed,
\* however many faults there were, and after one it names every component the
\* fault has reached, also when a start has copied it to the rows in between.
THEOREM ReportsBlameTheDamaged == Spec => []BlameIsExact
<1>1. ASSUME EvidenceInv, SingleFault PROVE BlameIsExact
  BY <1>1, BlamedAreDamaged, DamagedAreBlamed DEF BlameIsExact, FailedComponents
<1>2. QED
  BY <1>1, SingleFaultHolds, PTL
=============================================================================
