------------------------------- MODULE Queue -------------------------------
(***************************************************************************)
(* The queue: GET /api/dossiers (internal/application/queue.go, QueryQueue, *)
(* on internal/repository/store.go, QueryDossiers) and the page that walks *)
(* through it (internal/httpui/static/app.js, loadList).                   *)
(*                                                                         *)
(* A client goes from page to page with a cursor that names the last       *)
(* dossier of the page before; between two pages dossiers change, move to  *)
(* another place of the list, enter the filter and leave it.  The page     *)
(* keeps the filters of its form and the cursor of the last answer apart,  *)
(* and does not wait for an answer before it asks again.                   *)
(*                                                                         *)
(* A dossier is a number, in the order of the ids.  A point in time is a   *)
(* number of hundredths, Digit * Digit of them to the second: two decimals *)
(* are enough to tell how times are ordered by their text.  What a filter  *)
(* compares besides the time (status, editor, subject, keyword) is the     *)
(* class of a dossier.  D_Fault is D with a fault, as in Dossier.          *)
(***************************************************************************)
EXTENDS Naturals, FiniteSets

CONSTANTS DossierCount,  \* dossiers there can be
          Classes,
          Filters,       \* records: classes, from, to, size
          Digit,         \* values of a decimal: 10
          NoFilter,
          MaxTime,       \* bound: the clock
          MaxVersion,    \* bound: changes of a dossier
          MaxChanging,   \* bound: dossiers that change
          MaxSubmits,    \* bound: submissions of the form
          MaxAsked       \* bound: requests in flight

Dossiers == 1..DossierCount
Times == 0..MaxTime      \* 0: there is no such dossier yet

ASSUME QueueAssumption ==
  /\ DossierCount \in Nat
  /\ Digit \in Nat \ {0}
  /\ MaxTime \in Nat
  /\ MaxVersion \in Nat
  /\ MaxChanging \in Nat
  /\ MaxSubmits \in Nat
  /\ MaxAsked \in Nat
  /\ NoFilter \notin Filters
  /\ \A f \in Filters : /\ f.classes \subseteq Classes
                        /\ f.from \in Times /\ f.to \in Times
                        /\ f.size \in Nat \ {0}

VARIABLES updated,  \* updated_at of a dossier
          class,
          version,  \* history: how often it has changed
          clock,
          form,     \* state.filters of the page
          page,     \* the answer it shows, with state.cursor (at first: the request)
          flights,  \* requests and answers under way
          submits,  \* how often the form was submitted
          refused   \* the notice says that a cursor was refused

dossierVars == <<updated, class, version, clock>>
clientVars == <<form, page, submits, refused>>
queueVars == <<updated, class, version, clock, form, page, flights, submits, refused>>

\* of: the version of the dossier, which the cursor does not carry (history).
Cursor == [id : Dossiers, stamp : Times, filter : Filters, of : Nat]
NoCursor == [id |-> 0, stamp |-> 0, filter |-> NoFilter, of |-> 0]

\* History: the versions when the walk began, when the dossiers its pages have
\* shown had been updated (0: not shown), and those they have shown again, with
\* the update they were shown after before and the one they are shown after now.
Repeat == [id : Dossiers, was : Times, is : Times]
Walk == [asOf : [Dossiers -> Nat], seen : [Dossiers -> Times], again : SUBSET Repeat]
NoWalk == [asOf |-> [d \in Dossiers |-> 0], seen |-> [d \in Dossiers |-> 0],
           again |-> {}]

\* A request holds the cursor it goes on from, an answer the one it leads to.
Flight == [step : {"asked", "answered"}, filter : Filters,
           cursor : Cursor \cup {NoCursor}, walk : Walk]
          \cup [step : {"refused"}, filter : Filters, cursor : Cursor, walk : Walk]

-----------------------------------------------------------------------------
(***************************************************************************)
(* The order of the list: updated_at DESC, dossier_id ASC, of texts.       *)
(***************************************************************************)
Second(t) == t \div (Digit * Digit)

\* RFC3339Nano leaves trailing zeros out, the point too if nothing is left,
\* and the Z that follows is greater than a digit and than the point.
FractionText(n) ==
  LET tenth == n \div Digit
      hundredth == n % Digit
  IN  CASE n = 0 -> Digit * (Digit + 1)
        [] n # 0 /\ hundredth = 0 -> tenth * (Digit + 1) + Digit
        [] OTHER -> tenth * (Digit + 1) + hundredth

Text(t) == Second(t) * (Digit * (Digit + 1) + 1) + FractionText(t % (Digit * Digit))

Before_Ascending(s, d, t, e) ==
  \/ Text(s) < Text(t)
  \/ Text(s) = Text(t) /\ d < e
Before(s, d, t, e) ==
  \/ Text(s) > Text(t)
  \/ Text(s) = Text(t) /\ d < e

Matches(d, f) == /\ updated[d] # 0
                 /\ class[d] \in f.classes
                 /\ f.from <= updated[d] /\ updated[d] <= f.to

\* QueryDossiers.
Matching(f) == {d \in Dossiers : Matches(d, f)}

-----------------------------------------------------------------------------
(***************************************************************************)
(* QueryQueue.                                                             *)
(***************************************************************************)
\* The cursor is of this filter, page size included, and its dossier is still
\* where it was.
IsValid_IdOnly(c, f) == c.filter = f /\ c.id \in Matching(f)
IsValid_Seconds(c, f) ==
  /\ c.filter = f /\ c.id \in Matching(f)
  /\ updated[c.id] = Second(c.stamp) * Digit * Digit
IsValid(c, f) ==
  /\ c.filter = f
  /\ c.id \in Matching(f)
  /\ updated[c.id] = c.stamp

Accepts(c, f) == c = NoCursor \/ IsValid(c, f)

\* items[start:], from the one after the dossier of the cursor.
Rest_FromCursor(c, f) ==
  {d \in Matching(f) :
     c = NoCursor \/ ~Before(updated[d], d, updated[c.id], c.id)}
Rest(c, f) ==
  {d \in Matching(f) :
     c = NoCursor \/ Before(updated[c.id], c.id, updated[d], d)}

Preceding(d, S) == {e \in S : Before(updated[e], e, updated[d], d)}

\* items[start:end]
Page(S, size) == {d \in S : Cardinality(Preceding(d, S)) < size}

\* The cursor of the last item, if items are left over.
IsLast(d, S) == \A e \in S : ~Before(updated[d], d, updated[e], e)

CursorsTo(S, P, f) ==
  IF S = P THEN {NoCursor}
  ELSE {[id |-> d, stamp |-> updated[d], filter |-> f, of |-> version[d]] :
          d \in {e \in P : IsLast(e, P)}}

Shown(w) == {d \in Dossiers : w.seen[d] # 0}

Walked(w, P) ==
  [asOf  |-> w.asOf,
   seen  |-> [d \in Dossiers |-> IF d \in P THEN updated[d] ELSE w.seen[d]],
   again |-> w.again \cup {[id |-> d, was |-> w.seen[d], is |-> updated[d]] :
                             d \in P \cap Shown(w)}]

\* A walk begins with a request for the first page.
Begun(q) == IF q.cursor = NoCursor THEN [NoWalk EXCEPT !.asOf = version] ELSE q.walk

Serve(q) ==
  /\ q \in flights
  /\ q.step = "asked"
  /\ IF Accepts(q.cursor, q.filter)
     THEN \E S \in {Rest(q.cursor, q.filter)} :
          \E P \in {Page(S, q.filter.size)} :
          \E c \in CursorsTo(S, P, q.filter) :
            flights' = (flights \ {q}) \cup
              {[step |-> "answered", filter |-> q.filter, cursor |-> c,
                walk |-> Walked(Begun(q), P)]}
     ELSE flights' = (flights \ {q}) \cup {[q EXCEPT !.step = "refused"]}
  /\ UNCHANGED <<dossierVars, clientVars>>

-----------------------------------------------------------------------------
(***************************************************************************)
(* The page.                                                               *)
(***************************************************************************)
Ask(f, c, w) ==
  /\ Cardinality(flights) < MaxAsked
  /\ flights' = flights \cup
       {[step |-> "asked", filter |-> f, cursor |-> c, walk |-> w]}

\* queueForm.onsubmit: the filters are those of the form from now on, the
\* cursor is what it was until the answer comes.  After an operation (action)
\* the first page is asked for in the same way.
Submit(f) ==
  /\ submits < MaxSubmits
  /\ submits' = submits + 1
  /\ form' = f
  /\ Ask(f, NoCursor, NoWalk)
  /\ UNCHANGED <<dossierVars, page, refused>>

\* nextPageBtn.onclick: the filters of the form, the cursor of the last answer.
NextPage ==
  /\ page.cursor # NoCursor
  /\ Ask(form, page.cursor, page.walk)
  /\ UNCHANGED <<dossierVars, clientVars>>

\* loadList after its await; answers come in any order.
Arrive(q) ==
  /\ q \in flights
  /\ q.step # "asked"
  /\ flights' = flights \ {q}
  /\ refused' = (q.step = "refused")
  /\ page' = IF q.step = "answered" THEN q ELSE page
  /\ UNCHANGED <<dossierVars, form, submits>>

-----------------------------------------------------------------------------
\* A dossier is created or changed (Advance: UpdatedAt is the time of day).
Change(d) ==
  /\ version[d] < MaxVersion
  /\ Cardinality({e \in Dossiers : version[e] # 0} \cup {d}) <= MaxChanging
  /\ \E t \in Times, k \in Classes :
       /\ t >= clock /\ t # 0
       /\ clock' = t
       /\ updated' = [updated EXCEPT ![d] = t]
       /\ class' = [class EXCEPT ![d] = k]
  /\ version' = [version EXCEPT ![d] = @ + 1]
  /\ UNCHANGED <<clientVars, flights>>

Init ==
  /\ clock \in Times
  /\ updated \in [Dossiers -> 0..clock]
  /\ class \in [Dossiers -> Classes]
  /\ version = [d \in Dossiers |-> 0]
  /\ form \in Filters
  /\ page = [step |-> "asked", filter |-> form, cursor |-> NoCursor,
             walk |-> NoWalk]
  /\ flights = {page}
  /\ submits = 0
  /\ refused = FALSE

Next == \/ \E d \in Dossiers : Change(d)
        \/ \E f \in Filters : Submit(f)
        \/ NextPage
        \/ \E q \in flights : Serve(q) \/ Arrive(q)

Safety == Init /\ [][Next]_queueVars

\* Requests are answered, answers arrive, and the client walks on.
Fairness == /\ WF_queueVars(\E q \in flights : Serve(q))
            /\ WF_queueVars(\E q \in flights : Arrive(q))
            /\ WF_queueVars(NextPage)

Spec == Safety /\ Fairness

-----------------------------------------------------------------------------
(***************************************************************************)
(* Properties.                                                             *)
(***************************************************************************)
\* The shape of every part of the state.
TypeOK ==
  /\ updated \in [Dossiers -> Times]
  /\ class \in [Dossiers -> Classes]
  /\ version \in [Dossiers -> Nat]
  /\ clock \in Times
  /\ form \in Filters
  /\ page \in Flight
  /\ flights \subseteq Flight
  /\ submits \in Nat
  /\ refused \in BOOLEAN

Answers == {q \in flights \cup {page} : q.step = "answered"}
Unchanged(w) == {d \in Dossiers : version[d] = w.asOf[d]}

\* A walk that has come to its last page has shown every dossier that matches
\* and has not changed on the way, whatever the others did meanwhile.
WalksAreComplete ==
  \A q \in Answers :
    q.cursor = NoCursor => Unchanged(q.walk) \cap Matching(q.filter) \subseteq Shown(q.walk)

\* A dossier that a walk shows a second time has changed on the way.
NothingTwice ==
  \A q \in Answers : \A r \in q.walk.again : r.id \notin Unchanged(q.walk)

\* And it has changed within the second it was shown in: the list is sorted by
\* the texts of the times, which put some changes of a second after others that
\* were earlier, but a change of a later second takes a dossier out of the way
\* of every walk that has shown it.  (The clock does not go back.)
RepeatsStayInTheirSecond ==
  \A q \in Answers : \A r \in q.walk.again : Second(r.is) = Second(r.was)

\* A cursor is refused for a reason: it is of other filters, or its dossier has
\* changed since.
RefusalsAreExplained ==
  \A q \in flights : q.step = "refused" =>
    \/ q.filter # q.cursor.filter
    \/ version[q.cursor.id] # q.cursor.of

\* From every page the client comes to the end of the list, or is told to begin
\* again, or has asked for something else before its answer was there.
WalksEnd ==
  page.cursor # NoCursor
    ~> page.cursor = NoCursor \/ refused \/ Cardinality(flights) > 1
=============================================================================
