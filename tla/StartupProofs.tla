--------------------------- MODULE StartupProofs ---------------------------
(***************************************************************************)
(* A process that has had the database for itself since it started serves  *)
(* current rows, was not refused, and proves every release, for any number *)
(* of processes, dossiers, revisions and starts, and from any database the *)
(* others have left behind.                                                *)
(*                                                                         *)
(* The rows are current when the process serves because of what its start  *)
(* has done so far, so the inductive invariant follows the loops: Progress *)
(* says how far the columns, the rows and the checks have come.            *)
(***************************************************************************)
EXTENDS Startup, TLAPS

\* The loops stay within the columns and the dossiers.
LoopsInBounds ==
  \A p \in Processes :
    /\ phase[p] = "alter" => at[p] <= ColumnCount
    /\ phase[p] \in {"children", "package"} => at[p] \in Dossiers

\* There is nothing on record of a dossier that does not exist, and what was
\* listed goes on existing.
NoRowsWithoutDossier ==
  \A d \in Dossiers :
    /\ payload[d] = None => rows[d] = None /\ columns[d] = None
    /\ \A p \in Processes : payload[d] = None => listed[p][d] = None

ChecksAreServed ==
  \A p \in Processes : check[p].step # "idle" => Serving(p)

Shape == TypeOK /\ LoopsInBounds /\ NoRowsWithoutDossier /\ ChecksAreServed

IsCopied(d) == rows[d] = payload[d] /\ columns[d] = payload[d]

\* How far a start has come that nothing disturbs.
Progress(p) ==
  /\ phase[p] = "schema" => added + 1 >= at[p]
  /\ phase[p] = "alter" => added + 1 = at[p]
  /\ phase[p] \notin {"off", "schema", "alter"} => added = ColumnCount
  /\ phase[p] \in {"columns", "children", "audit", "package"} =>
       listed[p] = payload
  /\ phase[p] \in {"columns", "children"} =>
       \A d \in Dossiers : d < at[p] => IsCopied(d)
  /\ phase[p] = "children" => columns[at[p]] = payload[at[p]]
  /\ phase[p] \in {"audit", "package", "serving", "closing"} =>
       \A d \in Dossiers : IsCopied(d)
  /\ check[p].step # "idle" => payload[check[p].dossier] = check[p].copy

Undisturbed(p) ==
  alone[p] =>
    /\ exit[p] \notin Refusals
    /\ report[p] \in {"none", "valid"}
    /\ Running(p) => Progress(p) /\ \A q \in Others(p) : ~Running(q)

StartupInv == Shape /\ \A p \in Processes : Undisturbed(p)

-----------------------------------------------------------------------------
LEMMA Columns == ColumnCount \in Nat
  BY DEF ColumnCount, AddedColumns

LEMMA NoneIsCopy == None \in Copy
  BY StartupAssumption DEF None, Copy

LEMMA InitShape == Init => Shape
<1> SUFFICES ASSUME Init PROVE Shape
  OBVIOUS
<1> USE StartupAssumption, Columns, NoneIsCopy DEF Init
<1>1. payload \in [Dossiers -> Copy] /\ rows \in [Dossiers -> Copy]
  OBVIOUS
<1>2. added \in 0..ColumnCount /\ columns \in [Dossiers -> Copy]
  BY <1>1
<1>3. check \in [Processes -> Check]
  BY DEF Check
<1>x. /\ phase \in [Processes -> Phases]
      /\ exit \in [Processes -> Exits]
      /\ at \in [Processes -> Nat \ {0}]
  BY DEF Phases, Exits
<1>4. TypeOK
  BY <1>1, <1>2, <1>3, <1>x DEF TypeOK
<1>5. LoopsInBounds /\ NoRowsWithoutDossier
  BY <1>1, <1>2 DEF LoopsInBounds, NoRowsWithoutDossier
<1>6. ChecksAreServed
  BY DEF ChecksAreServed, NoCheck
<1> QED
  BY <1>4, <1>5, <1>6 DEF Shape

LEMMA InitUndisturbed == Init => \A p \in Processes : Undisturbed(p)
  BY DEF Init, Undisturbed

-----------------------------------------------------------------------------
LEMMA GotoTypes ==
  ASSUME TypeOK, NEW p \in Processes, NEW where \in Phases, NEW i \in Nat \ {0},
         Goto(p, where, i)
  PROVE  /\ phase' \in [Processes -> Phases]
         /\ at' \in [Processes -> Nat \ {0}]
  BY DEF TypeOK, Goto

\* The end of a process changes nothing that is stored.
LEMMA EndShape ==
  ASSUME Shape, NEW p \in Processes, NEW reason \in Exits, End(p, reason)
  PROVE  Shape'
<1> USE DEF Shape, End, storeVars
<1>1. check' \in [Processes -> Check] /\ exit' \in [Processes -> Exits]
  BY DEF TypeOK, Check
<1>a. TypeOK /\ "off" \in Phases /\ 1 \in Nat \ {0} /\ Goto(p, "off", 1)
  BY DEF Phases
<1>b. phase' \in [Processes -> Phases] /\ at' \in [Processes -> Nat \ {0}]
  BY <1>a, GotoTypes
<1>2. TypeOK'
  BY <1>1, <1>b DEF TypeOK
<1>3. LoopsInBounds' /\ NoRowsWithoutDossier'
  BY DEF TypeOK, LoopsInBounds, NoRowsWithoutDossier, Goto
<1>4. ChecksAreServed'
  BY DEF TypeOK, ChecksAreServed, Serving, NoCheck, Goto
<1> QED
  BY <1>2, <1>3, <1>4

\* Steps of the loops that store nothing: they move on.
LEMMA MoveShape ==
  ASSUME Shape, NEW p \in Processes, ~Serving(p),
         NEW where \in {"schema", "alter", "columns", "audit", "package", "serving"},
         NEW i \in Nat \ {0},
         where = "alter" => i <= ColumnCount,
         where = "package" => i \in Dossiers,
         Goto(p, where, i),
         UNCHANGED <<storeVars, exit, checkVars, starts, alone>>,
         \/ UNCHANGED listed
         \/ listed' = [listed EXCEPT ![p] = payload]
  PROVE  Shape'
<1> USE DEF Shape, Goto, storeVars, checkVars
<1>a. phase' \in [Processes -> Phases] /\ at' \in [Processes -> Nat \ {0}]
  BY GotoTypes DEF Phases
<1>b. listed' \in [Processes -> [Dossiers -> Copy]]
  BY DEF TypeOK
<1>1. TypeOK'
  BY <1>a, <1>b DEF TypeOK
<1>2. LoopsInBounds'
  BY DEF TypeOK, LoopsInBounds
<1>3. NoRowsWithoutDossier'
  BY DEF TypeOK, NoRowsWithoutDossier
<1>4. ChecksAreServed'
  BY DEF TypeOK, ChecksAreServed, Serving
<1> QED
  BY <1>1, <1>2, <1>3, <1>4

LEMMA StartShape ==
  ASSUME Shape, NEW p \in Processes, Start(p)
  PROVE  Shape'
<1> USE DEF Shape, Start, Goto, storeVars
<1>a. alone' \in [Processes -> BOOLEAN]
  OBVIOUS
<1>x. /\ TypeOK /\ Goto(p, "schema", 1)
      /\ "schema" \in Phases /\ 1 \in Nat \ {0} /\ "none" \in Exits
  BY DEF Phases, Exits
<1>b. phase' \in [Processes -> Phases] /\ at' \in [Processes -> Nat \ {0}]
  BY <1>x, GotoTypes
<1>y. exit \in [Processes -> Exits] /\ starts \in Nat
  BY DEF TypeOK
<1>z. starts' \in Nat
  BY <1>y
<1>c. exit' \in [Processes -> Exits] /\ starts' \in Nat
  BY <1>x, <1>y, <1>z
<1>d. report' \in [Processes -> {"none", "valid", "invalid", "not found"}]
  BY DEF TypeOK
<1>1. TypeOK'
  BY <1>a, <1>b, <1>c, <1>d DEF TypeOK
<1>2. LoopsInBounds' /\ NoRowsWithoutDossier'
  BY DEF TypeOK, LoopsInBounds, NoRowsWithoutDossier
<1>3. ChecksAreServed'
  BY DEF TypeOK, ChecksAreServed, Serving, Running
<1> QED
  BY <1>1, <1>2, <1>3

LEMMA StartingShape ==
  ASSUME Shape, NEW p \in Processes, Starting(p)
  PROVE  Shape'
<1> USE DEF Shape
<1>a. at[p] \in Nat \ {0} /\ ColumnCount \in Nat
  BY Columns DEF TypeOK
<1>b. at[p] + 1 \in Nat \ {0} /\ 1 \in Nat \ {0}
  BY <1>a
<1>c. ASSUME NEW i \in Nat \ {0}, Sees(p), i = at[p]
      PROVE  i \in Dossiers
  BY <1>c, <1>a, StartupAssumption DEF Sees, Dossiers
<1>1. CASE FindColumn(p)
  <2>1. ~Serving(p) /\ NextColumn(at[p]) \in Nat \ {0}
    BY <1>1, <1>a DEF FindColumn, Serving, NextColumn
  <2>2. CASE added >= at[p]
    BY <1>1, <2>1, <2>2, MoveShape DEF FindColumn
  <2>3. CASE ~(added >= at[p])
    BY <1>1, <1>a, <2>1, <2>3, MoveShape DEF FindColumn
  <2> QED
    BY <2>2, <2>3
<1>2. CASE AddColumn(p)
  <2>1. NextColumn(at[p]) \in Nat \ {0} /\ "schema" \in Phases
    BY <1>a DEF NextColumn, Phases
  <2>2. phase' \in [Processes -> Phases] /\ at' \in [Processes -> Nat \ {0}]
    BY <1>2, <2>1, GotoTypes DEF AddColumn
  <2>3. added' \in 0..ColumnCount
    BY <1>2, <1>a DEF AddColumn, LoopsInBounds
  <2>4. TypeOK'
    BY <1>2, <2>2, <2>3 DEF AddColumn, TypeOK, checkVars
  <2>5. LoopsInBounds' /\ NoRowsWithoutDossier'
    BY <1>2 DEF AddColumn, Goto, TypeOK, LoopsInBounds, NoRowsWithoutDossier
  <2>6. ChecksAreServed'
    BY <1>2 DEF AddColumn, Goto, TypeOK, ChecksAreServed, Serving, checkVars
  <2> QED
    BY <2>4, <2>5, <2>6
<1>3. CASE DuplicateColumn(p)
  BY <1>3, EndShape DEF DuplicateColumn, Exits, Refusals
<1>4. CASE ReadAll(p)
  <2>1. ~Serving(p)
    BY <1>4 DEF ReadAll, Serving
  <2> QED
    BY <1>4, <1>b, <2>1, MoveShape DEF ReadAll
<1>5. CASE Skip(p)
  <2>1. ~Serving(p)
    BY <1>5 DEF Skip, Serving
  <2>2. phase[p] = "columns" \/ phase[p] = "audit"
    BY <1>5 DEF Skip
  <2> QED
    BY <1>5, <1>b, <2>1, <2>2, MoveShape DEF Skip
<1>6. CASE WriteColumns(p)
  <2>1. at[p] \in Dossiers
    BY <1>6, <1>a, <1>c DEF WriteColumns
  <2>2. "children" \in Phases
    BY DEF Phases
  <2>3. phase' \in [Processes -> Phases] /\ at' \in [Processes -> Nat \ {0}]
    BY <1>6, <1>a, <2>2, GotoTypes DEF WriteColumns
  <2>4. columns' \in [Dossiers -> Copy]
    BY <1>6, <2>1 DEF WriteColumns, Backfilled, TypeOK
  <2>5. TypeOK'
    BY <1>6, <2>3, <2>4 DEF WriteColumns, TypeOK, checkVars
  <2>6. LoopsInBounds'
    BY <1>6, <2>1 DEF WriteColumns, Goto, TypeOK, LoopsInBounds
  <2>7. NoRowsWithoutDossier'
    BY <1>6, <2>1 DEF WriteColumns, Backfilled, Sees, TypeOK, NoRowsWithoutDossier
  <2>8. ChecksAreServed'
    BY <1>6 DEF WriteColumns, Goto, TypeOK, ChecksAreServed, Serving, checkVars
  <2> QED
    BY <2>5, <2>6, <2>7, <2>8
<1>7. CASE WriteChildren(p)
  <2>1. at[p] \in Dossiers
    BY <1>7 DEF WriteChildren, LoopsInBounds
  <2>2. "columns" \in Phases
    BY DEF Phases
  <2>3. phase' \in [Processes -> Phases] /\ at' \in [Processes -> Nat \ {0}]
    BY <1>7, <1>b, <2>2, GotoTypes DEF WriteChildren
  <2>4. rows' \in [Dossiers -> Copy]
    BY <1>7, <2>1 DEF WriteChildren, Replaced, TypeOK
  <2>5. TypeOK'
    BY <1>7, <2>3, <2>4 DEF WriteChildren, TypeOK, checkVars
  <2>6. LoopsInBounds'
    BY <1>7 DEF WriteChildren, Goto, TypeOK, LoopsInBounds
  <2>7. NoRowsWithoutDossier'
    BY <1>7, <2>1 DEF WriteChildren, Replaced, TypeOK, NoRowsWithoutDossier
  <2>8. ChecksAreServed'
    BY <1>7 DEF WriteChildren, Goto, TypeOK, ChecksAreServed, Serving, checkVars
  <2> QED
    BY <2>5, <2>6, <2>7, <2>8
<1>8. CASE ReadAgain(p)
  <2>1. ~Serving(p)
    BY <1>8 DEF ReadAgain, Serving
  <2> QED
    BY <1>8, <1>b, <2>1, MoveShape DEF ReadAgain
<1>9. CASE CheckAudit(p)
  <2>1. ~Serving(p) /\ at[p] \in Dossiers
    BY <1>9, <1>a, <1>c DEF CheckAudit, Serving
  <2>2. CASE End(p, "audit damaged")
    BY <2>2, EndShape DEF Exits, Refusals
  <2>3. CASE ~End(p, "audit damaged")
    BY <1>9, <1>a, <2>1, <2>3, MoveShape DEF CheckAudit
  <2> QED
    BY <2>2, <2>3
<1>10. CASE CheckPackage(p)
  <2>1. ~Serving(p)
    BY <1>10 DEF CheckPackage, Serving
  <2>2. CASE End(p, "package damaged")
    BY <2>2, EndShape DEF Exits, Refusals
  <2>3. CASE ~End(p, "package damaged")
    BY <1>10, <1>b, <2>1, <2>3, MoveShape DEF CheckPackage
  <2> QED
    BY <2>2, <2>3
<1>11. CASE Listen(p)
  <2>1. ~Serving(p)
    BY <1>11 DEF Listen, Serving
  <2>2. CASE End(p, "address in use")
    BY <2>2, EndShape DEF Exits, Refusals
  <2>3. CASE ~End(p, "address in use")
    BY <1>11, <1>b, <2>1, <2>3, MoveShape DEF Listen
  <2> QED
    BY <2>2, <2>3
<1> QED
  BY <1>1, <1>2, <1>3, <1>4, <1>5, <1>6, <1>7, <1>8, <1>9, <1>10, <1>11
  DEF Starting

LEMMA RequestsShape ==
  ASSUME Shape, NEW p \in Processes, Requests(p)
  PROVE  Shape'
<1> USE DEF Shape
<1>1. ASSUME NEW d \in Dossiers, NEW seal \in BOOLEAN, Save(p, d, seal)
      PROVE  Shape'
  <2> DEFINE c == [revision |-> payload[d].revision + 1, sealed |-> seal]
  <2>1. payload[d].revision \in 0..MaxRevision
    BY DEF TypeOK, Copy
  <2>2. c \in Copy /\ c # None
    BY <1>1, <2>1, StartupAssumption DEF Save, Copy, None
  <2>3. /\ payload' = [payload EXCEPT ![d] = c]
        /\ columns' = [columns EXCEPT ![d] = c]
        /\ rows' = [rows EXCEPT ![d] = c]
        /\ UNCHANGED <<added, phase, at, listed, exit, checkVars, starts, alone>>
    BY <1>1 DEF Save, SavedRows, Replaced
  <2> HIDE DEF c
  <2>4. TypeOK'
    BY <2>2, <2>3 DEF TypeOK, checkVars
  <2>5. LoopsInBounds' /\ ChecksAreServed'
    BY <2>3 DEF LoopsInBounds, ChecksAreServed, Serving, checkVars
  <2>6. NoRowsWithoutDossier'
    BY <2>2, <2>3 DEF TypeOK, NoRowsWithoutDossier
  <2> QED
    BY <2>4, <2>5, <2>6
<1>2. ASSUME NEW d \in Dossiers, ReadDossier(p, d)
      PROVE  Shape'
  <2> DEFINE k == [step |-> "package", dossier |-> d, copy |-> payload[d]]
  <2>1. k \in Check
    BY <1>2 DEF ReadDossier, Provable, TypeOK, Check
  <2>2. /\ check' = [check EXCEPT ![p] = k]
        /\ phase[p] = "serving"
        /\ UNCHANGED <<storeVars, phase, at, listed, exit, report, starts, alone>>
    BY <1>2 DEF ReadDossier
  <2> HIDE DEF k
  <2>3. TypeOK'
    BY <2>1, <2>2 DEF TypeOK, storeVars
  <2>4. LoopsInBounds' /\ NoRowsWithoutDossier'
    BY <2>2 DEF LoopsInBounds, NoRowsWithoutDossier, storeVars
  <2>5. ChecksAreServed'
    BY <2>2 DEF TypeOK, ChecksAreServed, Serving
  <2> QED
    BY <2>3, <2>4, <2>5
<1> QED
  BY <1>1, <1>2 DEF Requests

\* What an answer leaves, and what a check goes on with.
LEMMA VerifyingShape ==
  ASSUME Shape, NEW p \in Processes, Verifying(p)
  PROVE  Shape'
<1> USE DEF Shape
<1>1. check[p].step # "idle"
  BY DEF Verifying, ReadPackage, ReadHead
<1>2. check[p] \in [step : {"package", "head"}, dossier : Dossiers,
                    copy : {c \in Copy : c.sealed}]
  <2>1. check[p] \in Check /\ NoCheck.step = "idle"
    BY DEF TypeOK, NoCheck
  <2> QED
    BY <1>1, <2>1 DEF Check
<1>3. [check[p] EXCEPT !.step = "head"] \in Check
  BY <1>2 DEF Check
<1>4. /\ \/ check' = [check EXCEPT ![p] = NoCheck]
         \/ check' = [check EXCEPT ![p] = [check[p] EXCEPT !.step = "head"]]
      /\ report' \in [Processes -> {"none", "valid", "invalid", "not found"}]
      /\ UNCHANGED <<storeVars, phase, at, listed, exit, starts, alone>>
  BY DEF Verifying, ReadPackage, ReadHead, Answer, TypeOK
<1>5. check' \in [Processes -> Check]
  BY <1>3, <1>4 DEF TypeOK, Check
<1>6. TypeOK'
  BY <1>4, <1>5 DEF TypeOK, storeVars
<1>7. LoopsInBounds' /\ NoRowsWithoutDossier'
  BY <1>4 DEF LoopsInBounds, NoRowsWithoutDossier, storeVars
<1>8. ChecksAreServed'
  BY <1>1, <1>4 DEF TypeOK, ChecksAreServed, Serving
<1> QED
  BY <1>6, <1>7, <1>8

LEMMA ShapeStep == Shape /\ [Next]_startupVars => Shape'
<1> SUFFICES ASSUME Shape, [Next]_startupVars PROVE Shape'
  OBVIOUS
<1>1. CASE UNCHANGED startupVars
  BY <1>1 DEF startupVars, Shape, TypeOK, LoopsInBounds, NoRowsWithoutDossier,
              ChecksAreServed, Serving
<1>2. ASSUME NEW p \in Processes, Busy(p) \/ Ending(p) PROVE Shape'
  <2>1. CASE \E reason \in Exits : End(p, reason)
    BY <2>1, EndShape
  <2>2. CASE Signal(p)
    <3> USE DEF Shape, Signal
    <3>1. "closing" \in Phases /\ 1 \in Nat \ {0} /\ TypeOK
      BY DEF Phases
    <3>2. phase' \in [Processes -> Phases] /\ at' \in [Processes -> Nat \ {0}]
      BY <2>2, <3>1, GotoTypes
    <3>3. TypeOK'
      BY <2>2, <3>2 DEF TypeOK, storeVars, checkVars
    <3>4. LoopsInBounds' /\ NoRowsWithoutDossier'
      BY <2>2 DEF TypeOK, LoopsInBounds, NoRowsWithoutDossier, Goto, storeVars
    <3>5. ChecksAreServed'
      BY <2>2 DEF TypeOK, ChecksAreServed, Serving, Goto, checkVars
    <3> QED
      BY <3>3, <3>4, <3>5
  <2> QED
    BY <1>2, <2>1, <2>2 DEF Busy, Ending, Drained, ShutdownTimesOut, Crash, Exits,
                            Refusals
<1> QED
  BY <1>1, <1>2, StartShape, StartingShape, RequestsShape, VerifyingShape DEF Next

-----------------------------------------------------------------------------
\* Nothing but a start is done by a process that does not run.
LEMMA IdleDoesNothing ==
  ASSUME Shape, NEW q \in Processes, ~Running(q)
  PROVE  /\ ~Starting(q) /\ ~Busy(q) /\ ~Requests(q) /\ ~Verifying(q)
         /\ ~Ending(q)
<1>1. phase[q] = "off"
  BY DEF Running
<1>2. check[q].step = "idle"
  BY <1>1 DEF Shape, ChecksAreServed, Serving
<1> QED
  BY <1>1, <1>2 DEF Running, Serving, Starting, FindColumn, AddColumn,
     DuplicateColumn, ReadAll, Skip, WriteColumns, WriteChildren, ReadAgain,
     CheckAudit, CheckPackage, Listen, Busy, Requests, Save, ReadDossier,
     Verifying, ReadPackage, ReadHead, Ending, Signal, Drained,
     ShutdownTimesOut, Crash

\* A step of another process: it starts, and then this one is not alone, or it
\* does what touches nothing of this one, which does not run.
LEMMA OthersKeepUndisturbed ==
  ASSUME Shape, NEW p \in Processes, Undisturbed(p), NEW q \in Others(p),
         \/ Start(q) \/ Starting(q) \/ Busy(q)
         \/ Requests(q) \/ Verifying(q) \/ Ending(q)
  PROVE  Undisturbed(p)'
<1>1. q \in Processes /\ q # p
  BY DEF Others
<1>2. CASE Start(q)
  <2>1. /\ alone'[p] => alone[p] /\ ~Running(p)
        /\ exit'[p] = exit[p] /\ report'[p] = report[p] /\ phase'[p] = phase[p]
    BY <1>1, <1>2 DEF Start, Goto, Shape, TypeOK
  <2> QED
    BY <2>1 DEF Undisturbed, Running
<1>3. CASE ~Start(q)
  <2>1. Running(q)
    BY <1>1, <1>3, IdleDoesNothing
  <2>2. alone[p] => ~Running(p)
    BY <2>1 DEF Undisturbed
  <2>3. /\ alone' = alone
        /\ exit'[p] = exit[p] /\ report'[p] = report[p] /\ phase'[p] = phase[p]
    BY <1>1, <1>3 DEF Shape, TypeOK, Starting, FindColumn, AddColumn,
       DuplicateColumn, ReadAll, Skip, WriteColumns, WriteChildren, ReadAgain,
       CheckAudit, CheckPackage, Listen, Busy, Requests, Save, ReadDossier,
       Verifying, ReadPackage, ReadHead, Answer, Ending, Signal, Drained,
       ShutdownTimesOut, Crash, End, Goto, checkVars
  <2> QED
    BY <2>2, <2>3 DEF Undisturbed, Running
<1> QED
  BY <1>2, <1>3

\* The end of an undisturbed process, unless it was refused.
LEMMA EndUndisturbed ==
  ASSUME Shape, NEW p \in Processes, Undisturbed(p), NEW reason,
         reason \notin Refusals, End(p, reason)
  PROVE  Undisturbed(p)'
<1>1. /\ phase'[p] = "off" /\ exit'[p] = reason
      /\ report' = report /\ alone' = alone
  BY DEF End, Goto, Shape, TypeOK
<1> QED
  BY <1>1 DEF Undisturbed, Running

\* A step that leaves the exits and the answers alone.
LEMMA ProgressSuffices ==
  ASSUME Shape, NEW p \in Processes, Undisturbed(p), alone[p], Running(p),
         \A q \in Others(p) : phase'[q] = phase[q],
         exit' = exit, report'[p] \in {"none", "valid"}, alone' = alone,
         Progress(p)'
  PROVE  Undisturbed(p)'
  BY DEF Undisturbed, Running

LEMMA StartUndisturbed ==
  ASSUME Shape, NEW p \in Processes, Start(p)
  PROVE  Undisturbed(p)'
<1>1. /\ phase'[p] = "schema" /\ at'[p] = 1 /\ added' = added
      /\ exit'[p] = "none" /\ report'[p] = "none" /\ check' = check
      /\ alone'[p] = (\A q \in Others(p) : ~Running(q))
      /\ \A q \in Others(p) : phase'[q] = phase[q]
  BY DEF Start, Goto, Shape, TypeOK, storeVars, Others
<1>x. added \in Nat
  <2>1. added \in 0..ColumnCount
    BY DEF Shape, TypeOK
  <2> QED
    BY <2>1, Columns
<1>2. check[p].step = "idle" /\ added \in Nat
  BY <1>x DEF Shape, ChecksAreServed, Serving, Start, Running
<1>3. Progress(p)'
  BY <1>1, <1>2 DEF Progress
<1> QED
  BY <1>1, <1>3 DEF Undisturbed, Running, Refusals

LEMMA StartingUndisturbed ==
  ASSUME Shape, NEW p \in Processes, Undisturbed(p), alone[p], Starting(p)
  PROVE  Undisturbed(p)'
<1>a. /\ at[p] \in Nat \ {0} /\ ColumnCount \in Nat /\ DossierCount \in Nat
      /\ added \in 0..ColumnCount /\ phase \in [Processes -> Phases]
      /\ at \in [Processes -> Nat \ {0}] /\ columns \in [Dossiers -> Copy]
      /\ rows \in [Dossiers -> Copy]
      /\ listed \in [Processes -> [Dossiers -> Copy]]
  BY Columns, StartupAssumption DEF Shape, TypeOK
<1>b. Running(p)
  BY IdleDoesNothing
<1>c. Progress(p) /\ report[p] \in {"none", "valid"}
  BY <1>b DEF Undisturbed
<1>d. check[p].step = "idle"
  BY DEF Shape, ChecksAreServed, Serving, Starting, FindColumn, AddColumn,
     DuplicateColumn, ReadAll, Skip, WriteColumns, WriteChildren, ReadAgain,
     CheckAudit, CheckPackage, Listen
<1>1. CASE FindColumn(p)
  <2>1. /\ phase'[p] \in {"schema", "alter"} /\ added' = added
        /\ phase'[p] = "schema" => added >= at[p] /\ at'[p] = at[p] + 1
        /\ phase'[p] = "alter" => added < at[p] /\ at'[p] = at[p]
        /\ added + 1 >= at[p]
    BY <1>1, <1>a, <1>c DEF FindColumn, Goto, NextColumn, storeVars, Progress
  <2>2. check' = check
    BY <1>1 DEF FindColumn, checkVars
  <2>3. Progress(p)'
    BY <1>a, <1>d, <2>1, <2>2 DEF Progress
  <2>4. \A q \in Others(p) : phase'[q] = phase[q]
    BY <1>1, <1>a DEF FindColumn, Goto, Others
  <2> QED
    BY <1>1, <1>b, <1>c, <2>3, <2>4, ProgressSuffices DEF FindColumn, checkVars
<1>2. CASE AddColumn(p)
  <2>1. /\ phase'[p] = "schema" /\ added' = at[p] /\ at'[p] = at[p] + 1
        /\ check' = check
    BY <1>2, <1>a DEF AddColumn, Goto, NextColumn, checkVars
  <2>2. Progress(p)'
    BY <1>a, <1>d, <2>1 DEF Progress
  <2>3. \A q \in Others(p) : phase'[q] = phase[q]
    BY <1>2, <1>a DEF AddColumn, Goto, Others
  <2> QED
    BY <1>2, <1>b, <1>c, <2>2, <2>3, ProgressSuffices DEF AddColumn, checkVars
<1>3. CASE DuplicateColumn(p)
  <2>1. phase[p] = "alter" /\ added >= at[p]
    BY <1>3 DEF DuplicateColumn
  <2>2. added + 1 = at[p]
    BY <1>c, <2>1 DEF Progress
  <2> QED
    BY <1>a, <2>1, <2>2
<1>4. CASE ReadAll(p)
  <2>1. /\ phase[p] = "schema" /\ at[p] > ColumnCount
        /\ phase'[p] = "columns" /\ at'[p] = 1 /\ listed'[p] = payload
        /\ check' = check /\ UNCHANGED storeVars
    BY <1>4, <1>a DEF ReadAll, Goto, checkVars
  <2>2. added = ColumnCount
    <3>1. added + 1 >= at[p]
      BY <1>c, <2>1 DEF Progress
    <3>2. at[p] \in Nat /\ ColumnCount \in Nat /\ added \in 0..ColumnCount
      BY <1>a
    <3>3. at[p] > ColumnCount
      BY <2>1
    <3>4. QED
      BY <3>1, <3>2, <3>3
  <2>3. \A d \in Dossiers : ~(d < 1)
    BY DEF Dossiers
  <2>4. Progress(p)'
    BY <1>d, <2>1, <2>2, <2>3 DEF Progress, storeVars
  <2>5. \A q \in Others(p) : phase'[q] = phase[q]
    BY <1>4, <1>a DEF ReadAll, Goto, Others
  <2> QED
    BY <1>4, <1>b, <1>c, <2>4, <2>5, ProgressSuffices DEF ReadAll, checkVars
<1>5. CASE Skip(p)
  <2>1. /\ phase[p] \in {"columns", "audit"} /\ phase'[p] = phase[p]
        /\ at'[p] = at[p] + 1 /\ listed' = listed /\ check' = check
        /\ UNCHANGED storeVars
    BY <1>5, <1>a DEF Skip, Goto, checkVars
  <2>2. at[p] \in Dossiers /\ listed[p] = payload /\ payload[at[p]] = None
    BY <1>5, <1>a, <1>c, <2>1 DEF Skip, Progress, Dossiers
  <2>3. IsCopied(at[p])
    BY <2>2 DEF IsCopied, Shape, NoRowsWithoutDossier
  <2>4. \A d \in Dossiers : d < at[p] + 1 => d < at[p] \/ d = at[p]
    BY <1>a DEF Dossiers
  <2>5. \A d \in Dossiers : IsCopied(d)' <=> IsCopied(d)
    BY <2>1 DEF IsCopied, storeVars
  <2>6. Progress(p)'
    BY <1>c, <1>d, <2>1, <2>2, <2>3, <2>4, <2>5 DEF Progress, storeVars
  <2>7. \A q \in Others(p) : phase'[q] = phase[q]
    BY <1>5, <1>a DEF Skip, Goto, Others
  <2> QED
    BY <1>5, <1>b, <1>c, <2>6, <2>7, ProgressSuffices DEF Skip, checkVars
<1>6. CASE WriteColumns(p)
  <2>1. /\ phase[p] = "columns" /\ phase'[p] = "children" /\ at'[p] = at[p]
        /\ listed' = listed /\ check' = check
        /\ UNCHANGED <<payload, rows, added>>
        /\ columns' = [columns EXCEPT ![at[p]] = listed[p][at[p]]]
    BY <1>6, <1>a DEF WriteColumns, Backfilled, Goto, checkVars
  <2>2. at[p] \in Dossiers /\ listed[p] = payload
    BY <1>6, <1>a, <1>c, <2>1 DEF WriteColumns, Sees, Progress, Dossiers
  <2>3. columns'[at[p]] = payload[at[p]]
    BY <1>a, <2>1, <2>2
  <2>4. \A d \in Dossiers : IsCopied(d) => IsCopied(d)'
    BY <1>a, <2>1, <2>2 DEF IsCopied
  <2>5. Progress(p)'
    BY <1>c, <1>d, <2>1, <2>2, <2>3, <2>4 DEF Progress
  <2>6. \A q \in Others(p) : phase'[q] = phase[q]
    BY <1>6, <1>a DEF WriteColumns, Goto, Others
  <2> QED
    BY <1>6, <1>b, <1>c, <2>5, <2>6, ProgressSuffices DEF WriteColumns, checkVars
<1>7. CASE WriteChildren(p)
  <2>1. /\ phase[p] = "children" /\ phase'[p] = "columns" /\ at'[p] = at[p] + 1
        /\ listed' = listed /\ check' = check
        /\ UNCHANGED <<payload, columns, added>>
        /\ rows' = [rows EXCEPT ![at[p]] = listed[p][at[p]]]
    BY <1>7, <1>a DEF WriteChildren, Replaced, Goto, checkVars
  <2>2. /\ at[p] \in Dossiers /\ listed[p] = payload
        /\ columns[at[p]] = payload[at[p]]
    BY <1>c, <2>1 DEF Shape, LoopsInBounds, Progress
  <2>3. rows'[at[p]] = payload'[at[p]] /\ columns'[at[p]] = payload'[at[p]]
    BY <1>a, <2>1, <2>2
  <2>4. \A d \in Dossiers : IsCopied(d) => IsCopied(d)'
    BY <1>a, <2>1, <2>2 DEF IsCopied
  <2>5. \A d \in Dossiers : d < at[p] + 1 => d < at[p] \/ d = at[p]
    BY <1>a DEF Dossiers
  <2>6. \A d \in Dossiers : d < at'[p] => IsCopied(d)'
    BY <1>c, <2>1, <2>3, <2>4, <2>5 DEF Progress, IsCopied
  <2>7. Progress(p)'
    BY <1>c, <1>d, <2>1, <2>2, <2>6 DEF Progress
  <2>8. \A q \in Others(p) : phase'[q] = phase[q]
    BY <1>7, <1>a DEF WriteChildren, Goto, Others
  <2> QED
    BY <1>7, <1>b, <1>c, <2>7, <2>8, ProgressSuffices DEF WriteChildren, checkVars
<1>8. CASE ReadAgain(p)
  <2>1. /\ phase[p] = "columns" /\ phase'[p] = "audit" /\ at[p] > DossierCount
        /\ listed'[p] = payload /\ check' = check /\ UNCHANGED storeVars
    BY <1>8, <1>a DEF ReadAgain, Goto, checkVars
  <2>2. \A d \in Dossiers : d < at[p]
    BY <1>a, <2>1 DEF Dossiers
  <2>3. \A d \in Dossiers : IsCopied(d)'
    BY <1>c, <2>1, <2>2 DEF Progress, IsCopied, storeVars
  <2>4. Progress(p)'
    BY <1>c, <1>d, <2>1, <2>3 DEF Progress, storeVars
  <2>5. \A q \in Others(p) : phase'[q] = phase[q]
    BY <1>8, <1>a DEF ReadAgain, Goto, Others
  <2> QED
    BY <1>8, <1>b, <1>c, <2>4, <2>5, ProgressSuffices DEF ReadAgain, checkVars
<1>9. ASSUME CheckAudit(p) \/ CheckPackage(p) \/ Listen(p)
      PROVE  Undisturbed(p)'
  <2>1. phase[p] \in {"audit", "package"}
    BY <1>9 DEF CheckAudit, CheckPackage, Listen
  <2>2. /\ \A d \in Dossiers : rows[d] = payload[d]
        /\ listed[p] = payload
    BY <1>c, <2>1 DEF Progress, IsCopied
  <2>x. Sees(p) => at[p] \in Dossiers
    BY <1>a DEF Sees, Dossiers
  <2>3. CheckAudit(p) => at[p] \in Dossiers
    BY <2>x DEF CheckAudit
  <2>4. CheckPackage(p) => at[p] \in Dossiers
    BY DEF CheckPackage, Shape, LoopsInBounds
  <2>5. AddressFree(p)
    BY <1>b DEF AddressFree, Undisturbed, Running
  <2>6. /\ UNCHANGED <<storeVars, listed, exit, checkVars, starts, alone>>
        /\ \/ Goto(p, "package", at[p]) \/ Goto(p, "audit", at[p] + 1)
           \/ Goto(p, "serving", 1)
    BY <1>9, <2>2, <2>3, <2>4, <2>5 DEF CheckAudit, CheckPackage, Listen
  <2>7. phase'[p] \in {"package", "audit", "serving"}
    BY <1>a, <2>6 DEF Goto
  <2>8. Progress(p)'
    BY <1>c, <1>d, <2>1, <2>6, <2>7 DEF Progress, IsCopied, storeVars, checkVars
  <2>9. \A q \in Others(p) : phase'[q] = phase[q]
    BY <1>a, <2>6 DEF Goto, Others
  <2> QED
    BY <1>b, <1>c, <2>6, <2>8, <2>9, ProgressSuffices DEF checkVars
<1> QED
  BY <1>1, <1>2, <1>3, <1>4, <1>5, <1>6, <1>7, <1>8, <1>9 DEF Starting

\* A save leaves a sealed payload alone, so a check under way keeps its copy.
LEMMA RequestsUndisturbed ==
  ASSUME Shape, NEW p \in Processes, Undisturbed(p), alone[p], Requests(p)
  PROVE  Undisturbed(p)'
<1>a. Running(p)
  BY IdleDoesNothing
<1>b. Progress(p) /\ report[p] \in {"none", "valid"}
  BY <1>a DEF Undisturbed
<1>1. ASSUME NEW d \in Dossiers, NEW seal \in BOOLEAN, Save(p, d, seal)
      PROVE  Undisturbed(p)'
  <2> DEFINE c == [revision |-> payload[d].revision + 1, sealed |-> seal]
  <2>1. /\ Serving(p) /\ ~payload[d].sealed
        /\ payload' = [payload EXCEPT ![d] = c]
        /\ columns' = [columns EXCEPT ![d] = c]
        /\ rows' = [rows EXCEPT ![d] = c]
        /\ UNCHANGED <<added, phase, at, listed, exit, checkVars, starts, alone>>
    BY <1>1 DEF Save, SavedRows, Replaced
  <2> HIDE DEF c
  <2>2. phase[p] \in {"serving", "closing"}
    BY <2>1 DEF Serving
  <2>3. \A e \in Dossiers : IsCopied(e)
    BY <1>b, <2>2 DEF Progress
  <2>4. \A e \in Dossiers : IsCopied(e)'
    BY <2>1, <2>3 DEF IsCopied, Shape, TypeOK
  <2>5. ASSUME check[p].step # "idle"
        PROVE  payload'[check[p].dossier] = check[p].copy
    <3>1. check[p] \in Check /\ NoCheck.step = "idle"
      BY DEF Shape, TypeOK, NoCheck
    <3>2. check[p].copy.sealed
      BY <2>5, <3>1 DEF Check
    <3>3. payload[check[p].dossier] = check[p].copy
      BY <1>b, <2>5 DEF Progress
    <3>4. check[p].dossier # d
      BY <2>1, <3>2, <3>3
    <3>5. check[p].dossier \in Dossiers
      BY <2>5, <3>1 DEF Check
    <3>6. payload \in [Dossiers -> Copy]
      BY DEF Shape, TypeOK
    <3> QED
      BY <2>1, <3>3, <3>4, <3>5, <3>6
  <2>6. Progress(p)'
    BY <1>b, <2>1, <2>2, <2>4, <2>5 DEF Progress, checkVars
  <2> QED
    BY <1>a, <1>b, <2>1, <2>6, ProgressSuffices DEF checkVars
<1>2. ASSUME NEW d \in Dossiers, ReadDossier(p, d)
      PROVE  Undisturbed(p)'
  <2>1. /\ check'[p].copy = payload[d] /\ check'[p].dossier = d
        /\ UNCHANGED <<storeVars, phase, at, listed, exit, report, starts, alone>>
    BY <1>2 DEF ReadDossier, Shape, TypeOK
  <2>2. Progress(p)'
    BY <1>b, <2>1 DEF Progress, IsCopied, storeVars
  <2> QED
    BY <1>a, <1>b, <2>1, <2>2, ProgressSuffices
<1> QED
  BY <1>1, <1>2 DEF Requests

\* The rows are those of the copy, so the package is found and the head fits.
LEMMA VerifyingUndisturbed ==
  ASSUME Shape, NEW p \in Processes, Undisturbed(p), alone[p], Verifying(p)
  PROVE  Undisturbed(p)'
<1>a. Running(p)
  BY IdleDoesNothing
<1>b. Progress(p) /\ report[p] \in {"none", "valid"}
  BY <1>a DEF Undisturbed
<1>1. check[p].step # "idle"
  BY DEF Verifying, ReadPackage, ReadHead
<1>2. check[p] \in [step : {"package", "head"}, dossier : Dossiers,
                    copy : {c \in Copy : c.sealed}]
  <2>1. check[p] \in Check /\ NoCheck.step = "idle"
    BY DEF Shape, TypeOK, NoCheck
  <2> QED
    BY <1>1, <2>1 DEF Check
<1>3. rows[check[p].dossier] = check[p].copy /\ check[p].copy.sealed
  <2>1. phase[p] \in {"serving", "closing"} /\ check[p].dossier \in Dossiers
    BY <1>1, <1>2 DEF Shape, ChecksAreServed, Serving
  <2> QED
    BY <1>1, <1>b, <1>2, <2>1 DEF Progress, IsCopied
<1>4. /\ \/ check'[p] = [check[p] EXCEPT !.step = "head"] /\ report' = report
         \/ check'[p] = NoCheck /\ report'[p] = "valid"
      /\ UNCHANGED <<storeVars, phase, at, listed, exit, starts, alone>>
  BY <1>3 DEF Verifying, ReadPackage, ReadHead, Answer, Shape, TypeOK
<1>5. \/ check'[p].step = "idle"
      \/ check'[p].copy = check[p].copy /\ check'[p].dossier = check[p].dossier
  BY <1>2, <1>4 DEF NoCheck
<1>6. Progress(p)'
  BY <1>b, <1>1, <1>4, <1>5 DEF Progress, IsCopied, storeVars
<1> QED
  BY <1>a, <1>b, <1>4, <1>6, ProgressSuffices

LEMMA EndingUndisturbed ==
  ASSUME Shape, NEW p \in Processes, Undisturbed(p), alone[p],
         Busy(p) \/ Ending(p)
  PROVE  Undisturbed(p)'
<1>a. Running(p)
  BY IdleDoesNothing
<1>b. Progress(p) /\ report[p] \in {"none", "valid"}
  BY <1>a DEF Undisturbed
<1>1. ~Busy(p)
  BY <1>a DEF Busy, Undisturbed
<1>2. CASE Signal(p)
  <2>1. /\ phase[p] = "serving" /\ phase'[p] = "closing"
        /\ \A q \in Others(p) : phase'[q] = phase[q]
        /\ UNCHANGED <<storeVars, listed, exit, checkVars, starts, alone>>
    BY <1>2 DEF Signal, Goto, Shape, TypeOK, Others
  <2>2. Progress(p)'
    BY <1>b, <2>1 DEF Progress, IsCopied, storeVars, checkVars
  <2> QED
    BY <1>a, <1>b, <2>1, <2>2, ProgressSuffices DEF checkVars
<1> QED
  BY <1>1, <1>2, EndUndisturbed
  DEF Ending, Drained, ShutdownTimesOut, Crash, Refusals

LEMMA UndisturbedStep ==
  ASSUME Shape, [Next]_startupVars, NEW p \in Processes, Undisturbed(p)
  PROVE  Undisturbed(p)'
<1>1. CASE UNCHANGED startupVars
  BY <1>1 DEF startupVars, Undisturbed, Progress, IsCopied, Running
<1>2. CASE ~alone[p] /\ ~Start(p) /\ Next
  <2>1. PICK q \in Processes :
          \/ Start(q) \/ Starting(q) \/ Busy(q)
          \/ Requests(q) \/ Verifying(q) \/ Ending(q)
    BY <1>2 DEF Next
  <2>2. CASE Start(q)
    <3>1. q # p
      BY <1>2, <2>2
    <3>2. alone'[p] = (alone[p] /\ ~Running(p))
      BY <2>2, <3>1 DEF Start
    <3> QED
      BY <1>2, <3>2 DEF Undisturbed
  <2>3. CASE ~Start(q)
    <3>1. alone' = alone
      BY <2>1, <2>3 DEF Starting, FindColumn, AddColumn, DuplicateColumn,
         ReadAll, Skip, WriteColumns, WriteChildren, ReadAgain, CheckAudit,
         CheckPackage, Listen, Busy, Requests, Save, ReadDossier, Verifying,
         ReadPackage, ReadHead, Answer, Ending, Signal, Drained,
         ShutdownTimesOut, Crash, End
    <3> QED
      BY <1>2, <3>1 DEF Undisturbed
  <2> QED
    BY <2>2, <2>3
<1>3. CASE Start(p)
  BY <1>3, StartUndisturbed
<1>4. ASSUME NEW q \in Others(p),
             \/ Start(q) \/ Starting(q) \/ Busy(q)
             \/ Requests(q) \/ Verifying(q) \/ Ending(q)
      PROVE  Undisturbed(p)'
  BY <1>4, OthersKeepUndisturbed
<1>5. CASE alone[p] /\ (Starting(p) \/ Busy(p) \/ Requests(p) \/ Verifying(p)
                         \/ Ending(p))
  BY <1>5, StartingUndisturbed, RequestsUndisturbed, VerifyingUndisturbed,
     EndingUndisturbed
<1> QED
  BY <1>1, <1>2, <1>3, <1>4, <1>5 DEF Next, Others

LEMMA Invariance == Spec => []StartupInv
<1>1. Init => StartupInv
  BY InitShape, InitUndisturbed DEF StartupInv
<1>2. StartupInv /\ [Next]_startupVars => StartupInv'
  BY ShapeStep, UndisturbedStep DEF StartupInv
<1> QED
  BY <1>1, <1>2, PTL DEF Spec, Safety

-----------------------------------------------------------------------------
(***************************************************************************)
(* Theorems.                                                               *)
(***************************************************************************)
\* Every part of the state of store.go, main.go and release.go keeps its type;
\* only a sealed dossier is ever under verification.
THEOREM StartupTypeCorrect == Spec => []TypeOK
<1>1. StartupInv => TypeOK
  BY DEF StartupInv, Shape
<1> QED
  BY <1>1, Invariance, PTL

\* Open leaves a process that has the file for itself with current rows and
\* columns, and Save keeps them so.
THEOREM RowsFollowPayloads == Spec => []RecordsAreCurrent
<1>1. StartupInv => RecordsAreCurrent
  BY DEF StartupInv, Undisturbed, RecordsAreCurrent, Progress, IsCopied, Running,
         Serving
<1> QED
  BY <1>1, Invariance, PTL

\* Migrate and VerifyAll do not refuse a process that has the file for itself.
THEOREM NotRefused == Spec => []LoneStartsSucceed
<1>1. StartupInv => LoneStartsSucceed
  BY DEF StartupInv, Undisturbed, LoneStartsSucceed
<1> QED
  BY <1>1, Invariance, PTL

\* VerifyRelease never fails a release in a process that has the file for itself.
THEOREM ReleasesProved == Spec => []LoneReleasesVerify
<1>1. StartupInv => LoneReleasesVerify
  BY DEF StartupInv, Undisturbed, LoneReleasesVerify
<1> QED
  BY <1>1, Invariance, PTL
=============================================================================
