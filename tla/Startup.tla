------------------------------ MODULE Startup ------------------------------
(***************************************************************************)
(* The life of a process on its database: cmd/oralarchive/main.go opens    *)
(* the store (internal/repository/store.go: Open, Migrate, VerifyAll),     *)
(* listens, serves and shuts down; internal/application/release.go proves  *)
(* a release from what is stored.                                          *)
(*                                                                         *)
(* A dossier is stored as a payload.  The child tables (audit events,      *)
(* release package, segments, ...) and the columns the queue is read from  *)
(* are copies of parts of it: Save writes all of them in one transaction,  *)
(* Migrate writes them again from payloads it read before.  A copy is told *)
(* by the revision it was made from and by whether that was the seal.      *)
(*                                                                         *)
(* Every SQL statement outside a transaction, and every transaction, is a  *)
(* step.  D_Fault is D with a fault, as in Dossier.                        *)
(***************************************************************************)
EXTENDS Naturals, Sequences

CONSTANTS Processes,     \* servers an operator starts on the database file
          Address,         \* what each of them is told to listen on (-addr)
          DossierCount,    \* dossiers are numbered in the order of their ids
          MaxRevision,     \* bound: revisions of a dossier
          MaxStarts,       \* bound: starts of all the processes together
          FirstSchemas     \* columns added so far, in a database found at first

\* The columns ensureColumn adds, in order.
AddedColumns ==
  <<"review_snapshot_sha256", "subject_code", "editor_id", "updated_at">>
ColumnCount == Len(AddedColumns)

ASSUME StartupAssumption ==
  /\ DossierCount \in Nat
  /\ MaxRevision \in Nat
  /\ MaxStarts \in Nat
  /\ FirstSchemas \subseteq 0..ColumnCount

Dossiers == 1..DossierCount
Copy == [revision : 0..MaxRevision, sealed : BOOLEAN]
None == [revision |-> 0, sealed |-> FALSE]  \* no dossier, or no rows of it

VARIABLES payload,  \* dossiers.payload
          rows,     \* the child rows: which payload they are a copy of
          columns,  \* subject_code, editor_id, updated_at: likewise
          added,    \* how many of AddedColumns the tables have
          phase,    \* where a process is in main
          at,       \* the column or dossier its loop has come to
          listed,   \* what List returned to it
          exit,     \* why it ended last
          check,    \* VerifyRelease: where it is, and the dossier it read
          report,   \* what it last answered
          starts,   \* starts so far
          alone     \* history: nothing else has run since this start

storeVars == <<payload, rows, columns, added>>
checkVars == <<check, report>>
startupVars == <<payload, rows, columns, added, phase, at, listed, exit, check,
                 report, starts, alone>>

Phases == {"off", "schema", "alter", "columns", "children", "audit", "package",
           "serving", "closing"}
Refusals == {"busy", "duplicate column", "audit damaged", "package damaged",
             "address in use"}
Exits == Refusals \cup {"none", "shutdown", "shutdown timed out", "crash"}

Running(p) == phase[p] # "off"
Serving(p) == phase[p] \in {"serving", "closing"}
Others(p) == Processes \ {p}
NoCheck == [step |-> "idle", dossier |-> 0, copy |-> None]
Check == [step : {"package", "head"}, dossier : Dossiers,
          copy : {c \in Copy : c.sealed}] \cup {NoCheck}

-----------------------------------------------------------------------------
\* A database of this version or of an earlier one, which had fewer columns
\* and may have had no child tables.
Init ==
  /\ payload \in [Dossiers -> {c \in Copy : c.sealed => c.revision > 0}]
  /\ rows \in {r \in [Dossiers -> Copy] :
                 \A d \in Dossiers : r[d] \in {None, payload[d]}}
  /\ added \in FirstSchemas
  /\ columns = [d \in Dossiers |->
                  IF added = ColumnCount THEN payload[d] ELSE None]
  /\ phase = [p \in Processes |-> "off"]
  /\ at = [p \in Processes |-> 1]
  /\ listed = [p \in Processes |-> [d \in Dossiers |-> None]]
  /\ exit = [p \in Processes |-> "none"]
  /\ check = [p \in Processes |-> NoCheck]
  /\ report = [p \in Processes |-> "none"]
  /\ starts = 0
  /\ alone = [p \in Processes |-> FALSE]

Goto(p, where, i) ==
  /\ phase' = [phase EXCEPT ![p] = where]
  /\ at' = [at EXCEPT ![p] = i]

\* The process ends: os.Exit, a return from main, or a crash.
End(p, reason) ==
  /\ Goto(p, "off", 1)
  /\ exit' = [exit EXCEPT ![p] = reason]
  /\ check' = [check EXCEPT ![p] = NoCheck]
  /\ UNCHANGED <<storeVars, listed, report, starts, alone>>

\* main: repository.Open on the file, before anything is known of the port.
Start(p) ==
  /\ ~Running(p)
  /\ starts < MaxStarts
  /\ starts' = starts + 1
  /\ Goto(p, "schema", 1)
  /\ exit' = [exit EXCEPT ![p] = "none"]
  /\ report' = [report EXCEPT ![p] = "none"]
  /\ alone' = [q \in Processes |->
                 IF q = p THEN \A r \in Others(p) : ~Running(r)
                          ELSE alone[q] /\ ~Running(q)]
  /\ UNCHANGED <<storeVars, listed, check>>

-----------------------------------------------------------------------------
(***************************************************************************)
(* Migrate.                                                                *)
(***************************************************************************)
NextColumn_Same(i) == i
NextColumn(i) == i + 1

\* ensureColumn: PRAGMA table_info tells whether the column is there ...
FindColumn(p) ==
  /\ phase[p] = "schema"
  /\ at[p] <= ColumnCount
  /\ IF added >= at[p] THEN Goto(p, "schema", NextColumn(at[p]))
                       ELSE Goto(p, "alter", at[p])
  /\ UNCHANGED <<storeVars, listed, exit, checkVars, starts, alone>>

\* ... and ALTER TABLE adds it, unless it has come to be there meanwhile.
AddColumn(p) ==
  /\ phase[p] = "alter"
  /\ added < at[p]
  /\ added' = at[p]
  /\ Goto(p, "schema", NextColumn(at[p]))
  /\ UNCHANGED <<payload, rows, columns, listed, exit, checkVars, starts, alone>>

DuplicateColumn(p) ==
  /\ phase[p] = "alter"
  /\ added >= at[p]
  /\ End(p, "duplicate column")

\* List: all payloads in one read, ordered by id.
ReadAll(p) ==
  /\ phase[p] = "schema"
  /\ at[p] > ColumnCount
  /\ listed' = [listed EXCEPT ![p] = payload]
  /\ Goto(p, "columns", 1)
  /\ UNCHANGED <<storeVars, exit, checkVars, starts, alone>>

\* The loops of Migrate and VerifyAll see the dossiers that were listed.
Skip(p) ==
  /\ phase[p] \in {"columns", "audit"}
  /\ at[p] <= DossierCount
  /\ listed[p][at[p]] = None
  /\ Goto(p, phase[p], at[p] + 1)
  /\ UNCHANGED <<storeVars, listed, exit, checkVars, starts, alone>>

Sees(p) == at[p] <= DossierCount /\ listed[p][at[p]] # None

\* UPDATE dossiers SET subject_code, editor_id, updated_at.
Backfilled_Draft(old, c) == IF c.sealed THEN old ELSE c
Backfilled(old, c) == c

WriteColumns(p) ==
  /\ phase[p] = "columns"
  /\ Sees(p)
  /\ columns' = [columns EXCEPT ![at[p]] = Backfilled(@, listed[p][at[p]])]
  /\ Goto(p, "children", at[p])
  /\ UNCHANGED <<payload, rows, added, listed, exit, checkVars, starts, alone>>

\* replaceChildren deletes the rows of a dossier and writes them anew.
Replaced_Added(old, c) == IF old = None THEN c ELSE old
Replaced(old, c) == c

\* The transaction of one dossier.
WriteChildren(p) ==
  /\ phase[p] = "children"
  /\ rows' = [rows EXCEPT ![at[p]] = Replaced(@, listed[p][at[p]])]
  /\ Goto(p, "columns", at[p] + 1)
  /\ UNCHANGED <<payload, columns, added, listed, exit, checkVars, starts, alone>>

\* A write that finds the file locked by another process (SQLITE_BUSY).
Busy(p) ==
  /\ \/ phase[p] \in {"schema", "alter", "children"}
     \/ phase[p] = "columns" /\ Sees(p)
  /\ \E q \in Others(p) : Running(q)
  /\ End(p, "busy")

-----------------------------------------------------------------------------
(***************************************************************************)
(* VerifyAll and what follows.                                             *)
(***************************************************************************)
ReadAgain(p) ==
  /\ phase[p] = "columns"
  /\ at[p] > DossierCount
  /\ listed' = [listed EXCEPT ![p] = payload]
  /\ Goto(p, "audit", 1)
  /\ UNCHANGED <<storeVars, exit, checkVars, starts, alone>>

\* verifyAuditRows: the rows are, one by one, the events of the payload.
CheckAudit(p) ==
  /\ phase[p] = "audit"
  /\ Sees(p)
  /\ IF rows[at[p]].revision = listed[p][at[p]].revision
     THEN /\ Goto(p, "package", at[p])
          /\ UNCHANGED <<storeVars, listed, exit, checkVars, starts, alone>>
     ELSE End(p, "audit damaged")

\* verifyReleaseRows: a package row if and only if the payload has a package.
CheckPackage(p) ==
  /\ phase[p] = "package"
  /\ IF rows[at[p]].sealed = listed[p][at[p]].sealed
     THEN /\ Goto(p, "audit", at[p] + 1)
          /\ UNCHANGED <<storeVars, listed, exit, checkVars, starts, alone>>
     ELSE End(p, "package damaged")

\* A listener occupies its address; Shutdown closes it before it waits.
AddressFree(p) ==
  \A q \in Others(p) : phase[q] = "serving" => Address[q] # Address[p]

\* net.Listen, after the store is open.
Listen(p) ==
  /\ phase[p] = "audit"
  /\ at[p] > DossierCount
  /\ IF AddressFree(p)
     THEN /\ Goto(p, "serving", 1)
          /\ UNCHANGED <<storeVars, listed, exit, checkVars, starts, alone>>
     ELSE End(p, "address in use")

-----------------------------------------------------------------------------
(***************************************************************************)
(* Serving.                                                                *)
(***************************************************************************)
SavedRows_Unsealed(old, c) == IF c.sealed THEN old ELSE c
SavedRows(old, c) == Replaced(old, c)

\* Create and Save: payload, columns and child rows in one transaction, under
\* the guard on the revision; a sealed dossier is not saved again (Service).
Save(p, d, seal) ==
  LET c == [revision |-> payload[d].revision + 1, sealed |-> seal]
  IN  /\ Serving(p)
      /\ ~payload[d].sealed
      /\ payload[d].revision < MaxRevision
      /\ seal => payload[d] # None
      /\ payload' = [payload EXCEPT ![d] = c]
      /\ columns' = [columns EXCEPT ![d] = c]
      /\ rows' = [rows EXCEPT ![d] = SavedRows(@, c)]
      /\ UNCHANGED <<added, phase, at, listed, exit, checkVars, starts, alone>>

Provable(c) == c.sealed

\* VerifyRelease: store.Get; a dossier that is not sealed is refused.
ReadDossier(p, d) ==
  /\ phase[p] = "serving"
  /\ check[p].step = "idle"
  /\ Provable(payload[d])
  /\ check' = [check EXCEPT ![p] =
                 [step |-> "package", dossier |-> d, copy |-> payload[d]]]
  /\ UNCHANGED <<storeVars, phase, at, listed, exit, report, starts, alone>>

Answer(p, what) ==
  /\ report' = [report EXCEPT ![p] = what]
  /\ check' = [check EXCEPT ![p] = NoCheck]

\* GetReleasePackage: the row is there, or ErrNotFound is the answer.
ReadPackage(p) ==
  /\ check[p].step = "package"
  /\ IF rows[check[p].dossier].sealed
     THEN /\ check' = [check EXCEPT ![p].step = "head"]
          /\ UNCHANGED report
     ELSE Answer(p, "not found")
  /\ UNCHANGED <<storeVars, phase, at, listed, exit, starts, alone>>

\* GetAuditHead, and the report: the head of the rows is that of the dossier.
ReadHead(p) ==
  /\ check[p].step = "head"
  /\ Answer(p, IF rows[check[p].dossier].revision = check[p].copy.revision
               THEN "valid" ELSE "invalid")
  /\ UNCHANGED <<storeVars, phase, at, listed, exit, starts, alone>>

\* SIGTERM: server.Shutdown closes the listener, so that the address is free for
\* another process, and waits for the requests under way.
Signal(p) ==
  /\ phase[p] = "serving"
  /\ Goto(p, "closing", 1)
  /\ UNCHANGED <<storeVars, listed, exit, checkVars, starts, alone>>

Drained(p) == /\ phase[p] = "closing"
              /\ check[p].step = "idle"
              /\ End(p, "shutdown")

\* The five seconds are over first.
ShutdownTimesOut(p) == /\ phase[p] = "closing"
                       /\ check[p].step # "idle"
                       /\ End(p, "shutdown timed out")

\* Killed, at any point; before it serves, SIGTERM does the same.
Crash(p) == Running(p) /\ End(p, "crash")

-----------------------------------------------------------------------------
Starting(p) == \/ FindColumn(p) \/ AddColumn(p) \/ DuplicateColumn(p)
               \/ ReadAll(p) \/ Skip(p) \/ WriteColumns(p) \/ WriteChildren(p)
               \/ ReadAgain(p) \/ CheckAudit(p) \/ CheckPackage(p) \/ Listen(p)

Verifying(p) == ReadPackage(p) \/ ReadHead(p)

Requests(p) == \E d \in Dossiers : \/ \E seal \in BOOLEAN : Save(p, d, seal)
                                   \/ ReadDossier(p, d)

Ending(p) == Signal(p) \/ Drained(p) \/ ShutdownTimesOut(p) \/ Crash(p)

Next == \E p \in Processes : \/ Start(p) \/ Starting(p) \/ Busy(p)
                             \/ Requests(p) \/ Verifying(p) \/ Ending(p)

\* A process that runs goes on running: it starts to its end, answers what it
\* was asked, and a shutdown that has nothing to wait for ends.
Fairness == \A p \in Processes : /\ WF_startupVars(Starting(p))
                                 /\ WF_startupVars(Verifying(p))
                                 /\ WF_startupVars(Drained(p))

Safety == Init /\ [][Next]_startupVars
Spec == Safety /\ Fairness

-----------------------------------------------------------------------------
(***************************************************************************)
(* Properties.                                                             *)
(***************************************************************************)
\* The shape of every part of the state.
TypeOK ==
  /\ payload \in [Dossiers -> Copy]
  /\ rows \in [Dossiers -> Copy]
  /\ columns \in [Dossiers -> Copy]
  /\ added \in 0..ColumnCount
  /\ phase \in [Processes -> Phases]
  /\ at \in [Processes -> Nat \ {0}]
  /\ listed \in [Processes -> [Dossiers -> Copy]]
  /\ exit \in [Processes -> Exits]
  /\ check \in [Processes -> Check]
  /\ report \in [Processes -> {"none", "valid", "invalid", "not found"}]
  /\ starts \in Nat
  /\ alone \in [Processes -> BOOLEAN]

\* Whatever the database was like, an old schema, rows never written, a start
\* that died half-way or rows spoiled by two processes: a process that had the
\* file for itself since it started serves from rows and columns that say what
\* the payloads say.
RecordsAreCurrent ==
  \A p \in Processes : Serving(p) /\ alone[p] =>
    /\ added = ColumnCount
    /\ \A d \in Dossiers : rows[d] = payload[d] /\ columns[d] = payload[d]

\* A start that had the file for itself is never refused: no column is there
\* twice and no row differs from the payload it was just written from.
LoneStartsSucceed ==
  \A p \in Processes : alone[p] => exit[p] \notin Refusals

\* Every proof of a sealed release succeeds, if the process has the file for
\* itself, although it is put together from three reads.
LoneReleasesVerify ==
  \A p \in Processes : alone[p] => report[p] \in {"none", "valid"}

\* A start ends, serving or not, and so does a shutdown.
StartsEnd ==
  \A p \in Processes : /\ Running(p) ~> Serving(p) \/ ~Running(p)
                       /\ phase[p] = "closing" ~> ~Running(p)

\* What BENZHI_README.md says of releases: they can be verified.  A proof of a
\* sealed release succeeds, whoever else has started.
ReleasesVerify ==
  \A p \in Processes : report[p] \in {"none", "valid"}
=============================================================================
