---------------------------- MODULE QueueProofs ----------------------------
(***************************************************************************)
(* The queue for every number of dossiers and every set of filters: a walk *)
(* misses nothing that stays where it is, shows nothing twice that stays   *)
(* where it is or moves on to a later second, and is refused only for a    *)
(* reason.                                                                 *)
(*                                                                         *)
(* The argument: the list is ordered strictly by its texts, so a page is a *)
(* piece of it without gaps (PagesHaveNoGaps), and the dossier a valid     *)
(* cursor names stands where it stood.  The inductive invariant says what  *)
(* an answer knows about the part of the list that lies behind its cursor, *)
(* and that what was shown stood there when it was.                        *)
(***************************************************************************)
EXTENDS Queue, FiniteSetTheorems, TLAPS

USE QueueAssumption

-----------------------------------------------------------------------------
(***************************************************************************)
(* The order of the list.                                                  *)
(***************************************************************************)
LEMMA Quotients ==
  ASSUME NEW n \in Nat, NEW k \in Nat \ {0}
  PROVE  /\ n \div k \in Nat
         /\ n % k \in 0..(k - 1)
  OBVIOUS

LEMMA SecondType ==
  ASSUME NEW t \in Nat
  PROVE  /\ Digit * Digit \in Nat \ {0}
         /\ Second(t) \in Nat
         /\ t % (Digit * Digit) \in 0..(Digit * Digit - 1)
<1>1. Digit * Digit \in Nat \ {0}
  OBVIOUS
<1>2. /\ t \div (Digit * Digit) \in Nat
      /\ t % (Digit * Digit) \in 0..(Digit * Digit - 1)
  BY <1>1, Quotients
<1>3. QED
  BY <1>1, <1>2 DEF Second

\* The texts of a second take no more room than they are given.
LEMMA FractionBound ==
  ASSUME NEW n \in 0..(Digit * Digit - 1)
  PROVE  FractionText(n) \in 0..(Digit * (Digit + 1))
<1> DEFINE tenth == n \div Digit
           hundredth == n % Digit
<1>1. n \in Nat
  <2>1. Digit * Digit \in Nat
    OBVIOUS
  <2>2. QED
    BY <2>1
<1>2. /\ tenth \in Nat
      /\ hundredth \in 0..(Digit - 1)
  BY <1>1, Quotients
<1>3. tenth * Digit <= n
  BY <1>1
<1>4. tenth < Digit
  <2>1. SUFFICES ASSUME Digit <= tenth PROVE FALSE
    BY <1>2
  <2>2. Digit * Digit <= tenth * Digit
    BY <2>1, <1>2
  <2>3. QED
    BY <2>2, <1>3, <1>2
<1>5. tenth * (Digit + 1) \in 0..((Digit - 1) * (Digit + 1))
  BY <1>2, <1>4
<1>6. (Digit - 1) * (Digit + 1) + Digit <= Digit * (Digit + 1)
  OBVIOUS
<1>7. Digit * (Digit + 1) \in Nat
  OBVIOUS
<1> DEFINE product == tenth * (Digit + 1)
           highest == (Digit - 1) * (Digit + 1)
           width == Digit * (Digit + 1)
<1>8. /\ product \in 0..highest
      /\ highest \in Int
      /\ highest + Digit <= width
      /\ width \in Nat
  BY <1>5, <1>6, <1>7
<1>9. FractionText(n) \in {width, product + Digit, product + hundredth}
  BY DEF FractionText
<1> HIDE DEF product, highest, width, hundredth, tenth
<1>10. FractionText(n) \in 0..width
  BY <1>2, <1>8, <1>9
<1>11. QED
  BY <1>10 DEF width

LEMMA TextType ==
  ASSUME NEW t \in Nat
  PROVE  Text(t) \in Nat
<1>1. FractionText(t % (Digit * Digit)) \in Nat
  <2>1. FractionText(t % (Digit * Digit)) \in 0..(Digit * (Digit + 1))
    BY SecondType, FractionBound
  <2>2. Digit * (Digit + 1) \in Nat
    OBVIOUS
  <2>3. QED
    BY <2>1, <2>2
<1>2. Second(t) * (Digit * (Digit + 1) + 1) \in Nat
  BY SecondType
<1>3. QED
  BY <1>1, <1>2 DEF Text

LEMMA Lexicographic ==
  ASSUME NEW a \in Nat, NEW b \in Nat, NEW k \in Nat, NEW f \in Nat,
         NEW g \in Nat, a < b, f < k
  PROVE  a * k + f < b * k + g
<1>1. (a + 1) * k <= b * k
  OBVIOUS
<1>2. (a + 1) * k = a * k + k
  OBVIOUS
<1>3. a * k \in Nat /\ b * k \in Nat
  OBVIOUS
<1> DEFINE x == a * k
           y == b * k
<1>4. x \in Nat /\ y \in Nat /\ x + k <= y
  BY <1>1, <1>2, <1>3
<1> HIDE DEF x, y
<1>5. x + f < y + g
  BY <1>4
<1>6. QED
  BY <1>5 DEF x, y

LEMMA LaterSecondsComeFirst ==
  ASSUME NEW s \in Nat, NEW t \in Nat, Second(s) < Second(t)
  PROVE  Text(s) < Text(t)
<1> DEFINE width == Digit * (Digit + 1)
           f == FractionText(s % (Digit * Digit))
           g == FractionText(t % (Digit * Digit))
<1>1. /\ f \in 0..width
      /\ g \in 0..width
  BY SecondType, FractionBound
<1>2. width \in Nat
  OBVIOUS
<1>3. Second(s) \in Nat /\ Second(t) \in Nat
  BY SecondType
<1>4. /\ Text(s) = Second(s) * (width + 1) + f
      /\ Text(t) = Second(t) * (width + 1) + g
  BY DEF Text
<1> HIDE DEF width, f, g
<1>5. /\ f \in Nat /\ g \in Nat /\ f < width + 1 /\ width + 1 \in Nat
  BY <1>1, <1>2
<1>6. Second(s) * (width + 1) + f < Second(t) * (width + 1) + g
  BY <1>3, <1>5, Lexicographic
<1>7. QED
  BY <1>4, <1>6

\* The order of the texts is the order in time, up to the second.
LEMMA TextKeepsSeconds ==
  ASSUME NEW s \in Nat, NEW t \in Nat, Text(s) <= Text(t)
  PROVE  Second(s) <= Second(t)
<1>1. /\ Second(s) \in Nat /\ Second(t) \in Nat
      /\ Text(s) \in Nat /\ Text(t) \in Nat
  BY SecondType, TextType
<1>2. ~(Second(t) < Second(s))
  BY <1>1, LaterSecondsComeFirst
<1>3. QED
  BY <1>1, <1>2

LEMMA SecondsGrow ==
  ASSUME NEW s \in Nat, NEW t \in Nat, s <= t
  PROVE  Second(s) <= Second(t)
<1> DEFINE k == Digit * Digit
           a == s \div k
           b == t \div k
<1>1. k \in Nat \ {0}
  BY SecondType
<1> HIDE DEF k
<1>2. /\ a \in Nat /\ b \in Nat
      /\ s % k \in 0..(k - 1) /\ t % k \in 0..(k - 1)
  BY <1>1, Quotients
<1>3. s = k * a + (s % k) /\ t = k * b + (t % k)
  BY <1>1
<1> HIDE DEF a, b
<1>4. SUFFICES ASSUME b + 1 <= a PROVE FALSE
  BY <1>2 DEF Second, a, b, k
<1>5. k * (b + 1) <= k * a /\ k * (b + 1) = k * b + k
  BY <1>1, <1>2, <1>4
<1> DEFINE x == k * a
           y == k * b
<1>6. x \in Nat /\ y \in Nat /\ y + k <= x
  BY <1>1, <1>2, <1>5
<1>7. s = x + (s % k) /\ t = y + (t % k)
  BY <1>3
<1> HIDE DEF x, y
<1>8. QED
  BY <1>1, <1>2, <1>6, <1>7

\* Before orders the dossiers strictly, and any two of them.
LEMMA BeforeIsOrder ==
  ASSUME NEW s \in Times, NEW t \in Times, NEW u \in Times,
         NEW d \in Dossiers, NEW e \in Dossiers, NEW f \in Dossiers
  PROVE  /\ ~Before(s, d, s, d)
         /\ Before(s, d, t, e) /\ Before(t, e, u, f) => Before(s, d, u, f)
         /\ Before(s, d, t, e) => ~Before(t, e, s, d)
         /\ d # e => Before(s, d, t, e) \/ Before(t, e, s, d)
<1>1. s \in Nat /\ t \in Nat /\ u \in Nat
  BY DEF Times
<1>2. Text(s) \in Nat /\ Text(t) \in Nat /\ Text(u) \in Nat
  BY <1>1, TextType
<1>3. d \in Nat /\ e \in Nat /\ f \in Nat
  BY DEF Dossiers
<1>4. QED
  BY <1>2, <1>3 DEF Before

-----------------------------------------------------------------------------
(***************************************************************************)
(* Pages.                                                                  *)
(***************************************************************************)
LEMMA DossiersAreFinite ==
  ASSUME NEW S \in SUBSET Dossiers
  PROVE  /\ IsFiniteSet(S)
         /\ Cardinality(S) \in Nat
<1>1. IsFiniteSet(Dossiers)
  BY FS_Interval DEF Dossiers
<1>2. IsFiniteSet(S)
  BY <1>1, FS_Subset
<1>3. QED
  BY <1>2, FS_CardinalityType

\* A page holds every dossier of the rest that comes before one of its own.
LEMMA PagesHaveNoGaps ==
  ASSUME updated \in [Dossiers -> Times],
         NEW S \in SUBSET Dossiers, NEW size \in Nat,
         NEW d \in Page(S, size), NEW e \in S,
         Before(updated[e], e, updated[d], d)
  PROVE  e \in Page(S, size)
<1>1. d \in S /\ Cardinality(Preceding(d, S)) < size
  BY DEF Page
<1>2. Preceding(e, S) \subseteq Preceding(d, S)
  <2>1. SUFFICES ASSUME NEW g \in S, Before(updated[g], g, updated[e], e)
                 PROVE  Before(updated[g], g, updated[d], d)
    BY DEF Preceding
  <2>2. /\ g \in Dossiers /\ e \in Dossiers /\ d \in Dossiers
        /\ updated[g] \in Times /\ updated[e] \in Times /\ updated[d] \in Times
    BY <1>1
  <2>3. QED
    BY <2>1, <2>2, BeforeIsOrder
<1>3. Preceding(d, S) \in SUBSET Dossiers
  BY DEF Preceding
<1>4. IsFiniteSet(Preceding(d, S))
  BY <1>3, DossiersAreFinite
<1>5. Cardinality(Preceding(e, S)) <= Cardinality(Preceding(d, S))
  BY <1>2, <1>4, FS_Subset
<1>6. Preceding(e, S) \in SUBSET Dossiers
  BY <1>2, <1>3
<1>7. /\ Cardinality(Preceding(e, S)) \in Nat
      /\ Cardinality(Preceding(d, S)) \in Nat
  BY <1>3, <1>6, DossiersAreFinite
<1>8. QED
  BY <1>1, <1>5, <1>7 DEF Page

\* The last dossier of a page divides the rest into the page and what follows.
LEMMA LastDividesRest ==
  ASSUME updated \in [Dossiers -> Times],
         NEW S \in SUBSET Dossiers, NEW size \in Nat,
         NEW a \in Page(S, size), IsLast(a, Page(S, size)),
         NEW d \in S
  PROVE  d \in Page(S, size) <=> ~Before(updated[a], a, updated[d], d)
<1>1. a \in S
  BY DEF Page
<1>2. CASE d \in Page(S, size)
  BY <1>2 DEF IsLast
<1>3. CASE d \notin Page(S, size)
  <2>1. ~Before(updated[d], d, updated[a], a)
    BY <1>3, PagesHaveNoGaps
  <2>2. d # a
    BY <1>3
  <2>3. /\ d \in Dossiers /\ a \in Dossiers
        /\ updated[d] \in Times /\ updated[a] \in Times
    BY <1>1
  <2>4. Before(updated[a], a, updated[d], d)
    BY <2>1, <2>2, <2>3, BeforeIsOrder
  <2>5. QED
    BY <1>3, <2>4
<1>4. QED
  BY <1>2, <1>3

-----------------------------------------------------------------------------
(***************************************************************************)
(* The shape of the state.                                                 *)
(***************************************************************************)
LEMMA SizesAreNumbers ==
  ASSUME NEW f \in Filters
  PROVE  f.size \in Nat \ {0}
  OBVIOUS

LEMMA RestType ==
  ASSUME NEW c, NEW f
  PROVE  /\ Rest(c, f) \subseteq Matching(f)
         /\ Rest(c, f) \in SUBSET Dossiers
  BY DEF Rest, Matching

LEMMA PageType ==
  ASSUME NEW S \in SUBSET Dossiers, NEW size
  PROVE  /\ Page(S, size) \subseteq S
         /\ Page(S, size) \in SUBSET Dossiers
  BY DEF Page

LEMMA CursorsType ==
  ASSUME updated \in [Dossiers -> Times], version \in [Dossiers -> Nat],
         NEW S, NEW P \in SUBSET Dossiers, NEW f \in Filters,
         NEW c \in CursorsTo(S, P, f)
  PROVE  c \in Cursor \cup {NoCursor}
<1>1. CASE S = P
  BY <1>1 DEF CursorsTo
<1>2. CASE S # P
  <2>1. PICK d \in P : c = [id |-> d, stamp |-> updated[d], filter |-> f,
                            of |-> version[d]]
    BY <1>2 DEF CursorsTo
  <2>2. d \in Dossiers /\ updated[d] \in Times /\ version[d] \in Nat
    OBVIOUS
  <2>3. QED
    BY <2>1, <2>2 DEF Cursor
<1>3. QED
  BY <1>1, <1>2

LEMMA FlightFields ==
  ASSUME NEW q \in Flight
  PROVE  /\ q.step \in {"asked", "answered", "refused"}
         /\ q.filter \in Filters
         /\ q.cursor \in Cursor \cup {NoCursor}
         /\ q.walk \in Walk
         /\ q.step = "refused" => q.cursor \in Cursor
  BY DEF Flight

LEMMA WalkFields ==
  ASSUME NEW w \in Walk
  PROVE  /\ w.asOf \in [Dossiers -> Nat]
         /\ w.seen \in [Dossiers -> Times]
         /\ w.again \in SUBSET Repeat
  BY DEF Walk

LEMMA NoWalkType ==
  NoWalk \in Walk
<1>1. [d \in Dossiers |-> 0] \in [Dossiers -> Nat]
  OBVIOUS
<1>2. [d \in Dossiers |-> 0] \in [Dossiers -> Times]
  BY DEF Times
<1>3. QED
  BY <1>1, <1>2 DEF NoWalk, Walk

LEMMA BegunFields ==
  ASSUME NEW q
  PROVE  Begun(q) = IF q.cursor = NoCursor
                    THEN [asOf  |-> version,
                          seen  |-> [d \in Dossiers |-> 0],
                          again |-> {}]
                    ELSE q.walk
<1> DEFINE none == [d \in Dossiers |-> 0]
<1>1. NoWalk = [asOf |-> none, seen |-> none, again |-> {}]
  BY DEF NoWalk
<1>2. [[asOf |-> none, seen |-> none, again |-> {}] EXCEPT !.asOf = version]
        = [asOf |-> version, seen |-> none, again |-> {}]
  <2> HIDE DEF none
  <2>1. QED
    OBVIOUS
<1>3. QED
  BY <1>1, <1>2 DEF Begun

LEMMA BegunType ==
  ASSUME version \in [Dossiers -> Nat], NEW q \in Flight
  PROVE  Begun(q) \in Walk
<1>1. [d \in Dossiers |-> 0] \in [Dossiers -> Times]
  BY DEF Times
<1>2. [asOf |-> version, seen |-> [d \in Dossiers |-> 0], again |-> {}] \in Walk
  BY <1>1 DEF Walk
<1>3. QED
  BY <1>2, BegunFields, FlightFields

\* What a page adds to a walk.
Repeated(w, P) == {[id |-> d, was |-> w.seen[d], is |-> updated[d]] :
                     d \in P \cap Shown(w)}

LEMMA WalkedFields ==
  ASSUME updated \in [Dossiers -> Times], NEW w \in Walk, NEW P \in SUBSET Dossiers,
         \A d \in P : updated[d] # 0
  PROVE  /\ Walked(w, P).asOf = w.asOf
         /\ \A d \in Dossiers :
              Walked(w, P).seen[d] = IF d \in P THEN updated[d] ELSE w.seen[d]
         /\ Walked(w, P).again = w.again \cup Repeated(w, P)
         /\ Shown(Walked(w, P)) = Shown(w) \cup P
<1>1. /\ Walked(w, P).asOf = w.asOf
      /\ Walked(w, P).seen =
           [d \in Dossiers |-> IF d \in P THEN updated[d] ELSE w.seen[d]]
      /\ Walked(w, P).again = w.again \cup Repeated(w, P)
  BY DEF Walked, Repeated
<1>2. \A d \in Dossiers :
        Walked(w, P).seen[d] = IF d \in P THEN updated[d] ELSE w.seen[d]
  BY <1>1
<1>3. QED
  BY <1>1, <1>2 DEF Shown

LEMMA WalkedType ==
  ASSUME updated \in [Dossiers -> Times], NEW w \in Walk, NEW P \in SUBSET Dossiers
  PROVE  Walked(w, P) \in Walk
<1>1. /\ w.asOf \in [Dossiers -> Nat]
      /\ w.seen \in [Dossiers -> Times]
      /\ w.again \in SUBSET Repeat
  BY WalkFields
<1>2. Repeated(w, P) \subseteq Repeat
  BY <1>1 DEF Repeated, Repeat
<1>3. [d \in Dossiers |-> IF d \in P THEN updated[d] ELSE w.seen[d]]
        \in [Dossiers -> Times]
  BY <1>1
<1>4. w.again \cup Repeated(w, P) \in SUBSET Repeat
  BY <1>1, <1>2
<1>5. QED
  BY <1>1, <1>3, <1>4 DEF Walked, Repeated, Walk

\* What a request becomes when it is served: an answer with the page that
\* follows its cursor, or a refusal.
Answered(q, a) ==
  LET S == Rest(q.cursor, q.filter)
      P == Page(S, q.filter.size)
  IN  \E c \in CursorsTo(S, P, q.filter) :
        a = [step |-> "answered", filter |-> q.filter, cursor |-> c,
             walk |-> Walked(Begun(q), P)]

LEMMA ServeAnswers ==
  ASSUME NEW q, Serve(q)
  PROVE  \E a : /\ flights' = (flights \ {q}) \cup {a}
                /\ \/ Accepts(q.cursor, q.filter) /\ Answered(q, a)
                   \/ /\ ~Accepts(q.cursor, q.filter)
                      /\ a = [q EXCEPT !.step = "refused"]
<1>1. CASE Accepts(q.cursor, q.filter)
  BY <1>1 DEF Serve, Answered, Begun
<1>2. CASE ~Accepts(q.cursor, q.filter)
  BY <1>2 DEF Serve
<1>3. QED
  BY <1>1, <1>2

LEMMA AnsweredType ==
  ASSUME updated \in [Dossiers -> Times], version \in [Dossiers -> Nat],
         NEW q \in Flight, NEW a, Answered(q, a)
  PROVE  a \in Flight
<1> DEFINE S == Rest(q.cursor, q.filter)
           P == Page(S, q.filter.size)
<1>1. PICK c \in CursorsTo(S, P, q.filter) :
             a = [step |-> "answered", filter |-> q.filter, cursor |-> c,
                  walk |-> Walked(Begun(q), P)]
  BY DEF Answered
<1>2. P \in SUBSET Dossiers
  BY RestType, PageType
<1>3. q.filter \in Filters
  BY FlightFields
<1> HIDE DEF S, P
<1>4. c \in Cursor \cup {NoCursor}
  BY <1>1, <1>2, <1>3, CursorsType
<1>5. Walked(Begun(q), P) \in Walk
  BY <1>2, BegunType, WalkedType
<1>6. QED
  BY <1>1, <1>3, <1>4, <1>5 DEF Flight

LEMMA RefusedType ==
  ASSUME NEW q \in Flight, NEW a, a = [q EXCEPT !.step = "refused"],
         q.step = "asked", q.cursor # NoCursor
  PROVE  /\ a = [step |-> "refused", filter |-> q.filter, cursor |-> q.cursor,
                 walk |-> q.walk]
         /\ a \in Flight
<1>1. a = [step |-> "refused", filter |-> q.filter, cursor |-> q.cursor,
           walk |-> q.walk]
  BY DEF Flight
<1>2. /\ q.filter \in Filters /\ q.cursor \in Cursor /\ q.walk \in Walk
  BY FlightFields
<1>3. QED
  BY <1>1, <1>2 DEF Flight

LEMMA InitTypes ==
  ASSUME Init
  PROVE  TypeOK
<1>1. updated \in [Dossiers -> Times]
  <2>1. 0..clock \subseteq Times
    BY DEF Init, Times
  <2>2. QED
    BY <2>1 DEF Init
<1>2. version \in [Dossiers -> Nat]
  BY DEF Init
<1>3. page \in Flight
  <2>1. page = [step |-> "asked", filter |-> form, cursor |-> NoCursor,
                walk |-> NoWalk] /\ form \in Filters
    BY DEF Init
  <2>2. QED
    BY <2>1, NoWalkType DEF Flight
<1>4. flights \subseteq Flight
  BY <1>3 DEF Init
<1>5. QED
  BY <1>1, <1>2, <1>3, <1>4 DEF Init, TypeOK

LEMMA AskTypes ==
  ASSUME TypeOK, NEW f \in Filters, NEW c \in Cursor \cup {NoCursor},
         NEW w \in Walk, Ask(f, c, w)
  PROVE  flights' \subseteq Flight
<1>1. [step |-> "asked", filter |-> f, cursor |-> c, walk |-> w] \in Flight
  BY DEF Flight
<1>2. QED
  BY <1>1 DEF TypeOK, Ask

LEMMA ServeTypes ==
  ASSUME TypeOK, NEW q, Serve(q)
  PROVE  flights' \subseteq Flight
<1>1. q \in Flight /\ q.step = "asked"
  BY DEF TypeOK, Serve
<1>2. PICK a : /\ flights' = (flights \ {q}) \cup {a}
               /\ \/ Accepts(q.cursor, q.filter) /\ Answered(q, a)
                  \/ /\ ~Accepts(q.cursor, q.filter)
                     /\ a = [q EXCEPT !.step = "refused"]
  BY ServeAnswers
<1>3. updated \in [Dossiers -> Times] /\ version \in [Dossiers -> Nat]
  BY DEF TypeOK
<1>4. CASE Answered(q, a)
  BY <1>1, <1>2, <1>3, <1>4, AnsweredType DEF TypeOK
<1>5. CASE ~Accepts(q.cursor, q.filter) /\ a = [q EXCEPT !.step = "refused"]
  <2>1. q.cursor # NoCursor
    BY <1>5 DEF Accepts
  <2>2. a \in Flight
    BY <1>1, <1>5, <2>1, RefusedType
  <2>3. QED
    BY <1>2, <2>2 DEF TypeOK
<1>6. QED
  BY <1>2, <1>4, <1>5

LEMMA ChangeTypes ==
  ASSUME TypeOK, NEW d \in Dossiers, Change(d)
  PROVE  /\ updated' \in [Dossiers -> Times]
         /\ class' \in [Dossiers -> Classes]
         /\ version' \in [Dossiers -> Nat]
         /\ clock' \in Times
<1>1. PICK t \in Times, k \in Classes :
             /\ clock' = t
             /\ updated' = [updated EXCEPT ![d] = t]
             /\ class' = [class EXCEPT ![d] = k]
  BY DEF Change
<1>2. version' = [version EXCEPT ![d] = @ + 1]
  BY DEF Change
<1>3. version[d] + 1 \in Nat
  BY DEF TypeOK
<1>4. QED
  BY <1>1, <1>2, <1>3 DEF TypeOK

LEMMA StepTypes ==
  ASSUME TypeOK, [Next]_queueVars
  PROVE  TypeOK'
<1>1. CASE \E d \in Dossiers : Change(d)
  <2>1. PICK d \in Dossiers : Change(d)
    BY <1>1
  <2>2. UNCHANGED <<form, page, flights, submits, refused>>
    BY <2>1 DEF Change, clientVars
  <2>3. QED
    BY <2>1, <2>2, ChangeTypes DEF TypeOK
<1>2. CASE \E f \in Filters : Submit(f)
  <2>1. PICK f \in Filters : Submit(f)
    BY <1>2
  <2>2. flights' \subseteq Flight
    BY <2>1, NoWalkType, AskTypes DEF Submit
  <2>3. submits' \in Nat
    BY <2>1 DEF Submit, TypeOK
  <2>4. UNCHANGED <<updated, class, version, clock, page, refused>> /\ form' = f
    BY <2>1 DEF Submit, dossierVars
  <2>5. QED
    BY <2>2, <2>3, <2>4 DEF TypeOK
<1>3. CASE NextPage
  <2>1. /\ page.cursor \in Cursor \cup {NoCursor}
        /\ page.walk \in Walk
        /\ form \in Filters
    BY FlightFields DEF TypeOK
  <2>2. flights' \subseteq Flight
    BY <1>3, <2>1, AskTypes DEF NextPage
  <2>3. UNCHANGED <<updated, class, version, clock, form, page, submits, refused>>
    BY <1>3 DEF NextPage, dossierVars, clientVars
  <2>4. QED
    BY <2>2, <2>3 DEF TypeOK
<1>4. CASE \E q \in flights : Serve(q)
  <2>1. PICK q : Serve(q)
    BY <1>4
  <2>2. flights' \subseteq Flight
    BY <2>1, ServeTypes
  <2>3. UNCHANGED <<updated, class, version, clock, form, page, submits, refused>>
    BY <2>1 DEF Serve, dossierVars, clientVars
  <2>4. QED
    BY <2>2, <2>3 DEF TypeOK
<1>5. CASE \E q \in flights : Arrive(q)
  <2>1. PICK q \in flights : Arrive(q)
    BY <1>5
  <2>2. /\ flights' \subseteq flights
        /\ page' \in {q, page}
        /\ refused' \in BOOLEAN
        /\ UNCHANGED <<updated, class, version, clock, form, submits>>
    BY <2>1 DEF Arrive, dossierVars
  <2>3. QED
    BY <2>2 DEF TypeOK
<1>6. CASE UNCHANGED queueVars
  BY <1>6 DEF queueVars, TypeOK
<1>7. QED
  BY <1>1, <1>2, <1>3, <1>4, <1>5, <1>6 DEF Next

\* TypeOK: whatever the clients and the dossiers do, requests, answers and
\* cursors have the shape QueryQueue gives them.
THEOREM QueueTypeCorrect == Safety => []TypeOK
<1>1. QED
  BY InitTypes, StepTypes, PTL DEF Safety

-----------------------------------------------------------------------------
(***************************************************************************)
(* The inductive invariant.                                                *)
(***************************************************************************)
\* A dossier that has not changed since a cursor to it was made is where the
\* cursor says.
CursorHolds(c) ==
  c # NoCursor =>
    /\ c.of <= version[c.id]
    /\ version[c.id] = c.of =>
         updated[c.id] = c.stamp /\ Matches(c.id, c.filter)

Beyond(d, c) == Before(c.stamp, c.id, updated[d], d)

\* Up to the cursor of a walk, what has not changed has been shown, and
\* nothing that has not changed has been shown beyond it.
CoveredBy(w, c) ==
  \A d \in Dossiers :
    /\ version[d] = w.asOf[d]
    /\ c # NoCursor
    => /\ Matches(d, c.filter) /\ ~Beyond(d, c) => d \in Shown(w)
       /\ d \in Shown(w) => ~Beyond(d, c)

AsOfPast(w) == \A d \in Dossiers : w.asOf[d] <= version[d]

Fresh(w) == \A r \in w.again : version[r.id] # w.asOf[r.id]

Completed(w, f) ==
  \A d \in Dossiers : version[d] = w.asOf[d] /\ Matches(d, f) => d \in Shown(w)

\* When a dossier was shown, it stood up to the cursor; since then it can only
\* have been updated at a later time.
ShownBehind(w, c) ==
  c # NoCursor => \A d \in Shown(w) : ~Before(c.stamp, c.id, w.seen[d], d)

ShownBefore(w) == \A d \in Dossiers : w.seen[d] <= updated[d]

WithinSeconds(w) == \A r \in w.again : Second(r.is) = Second(r.was)

\* No dossier is updated at a time to come.
NoneEarly == \A d \in Dossiers : updated[d] <= clock

FlightHolds(q) ==
  /\ CursorHolds(q.cursor)
  /\ CoveredBy(q.walk, q.cursor)
  /\ AsOfPast(q.walk)
  /\ Fresh(q.walk)
  /\ ShownBehind(q.walk, q.cursor)
  /\ ShownBefore(q.walk)
  /\ WithinSeconds(q.walk)
  /\ q.step = "answered" =>
       /\ q.cursor # NoCursor => q.cursor.filter = q.filter
       /\ q.cursor = NoCursor => Completed(q.walk, q.filter)
  /\ q.step = "refused" =>
       \/ q.filter # q.cursor.filter
       \/ version[q.cursor.id] # q.cursor.of

QueueInv ==
  /\ TypeOK
  /\ NoneEarly
  /\ FlightHolds(page)
  /\ \A q \in flights : FlightHolds(q)

LEMMA NoCursorApart ==
  ASSUME NEW c \in Cursor
  PROVE  c # NoCursor /\ c.id \in Dossiers /\ c.stamp \in Times /\ c.of \in Nat
         /\ c.filter \in Filters
  BY DEF Cursor, NoCursor, Dossiers

LEMMA FirstRequestHolds ==
  ASSUME version \in [Dossiers -> Nat], updated \in [Dossiers -> Times], NEW f
  PROVE  FlightHolds([step |-> "asked", filter |-> f, cursor |-> NoCursor,
                      walk |-> NoWalk])
<1> DEFINE q == [step |-> "asked", filter |-> f, cursor |-> NoCursor,
                 walk |-> NoWalk]
<1>1. /\ q.step = "asked" /\ q.cursor = NoCursor /\ q.walk = NoWalk
      /\ NoWalk.asOf = [d \in Dossiers |-> 0] /\ NoWalk.again = {}
      /\ NoWalk.seen = [d \in Dossiers |-> 0]
  BY DEF NoWalk
<1>2. AsOfPast(NoWalk)
  BY <1>1 DEF AsOfPast
<1>3. Fresh(NoWalk)
  BY <1>1 DEF Fresh
<1>4. /\ CursorHolds(NoCursor) /\ CoveredBy(NoWalk, NoCursor)
      /\ ShownBehind(NoWalk, NoCursor) /\ WithinSeconds(NoWalk)
  BY <1>1 DEF CursorHolds, CoveredBy, ShownBehind, WithinSeconds
<1>5. ShownBefore(NoWalk)
  BY <1>1 DEF ShownBefore, Times
<1> HIDE DEF q
<1>6. QED
  BY <1>1, <1>2, <1>3, <1>4, <1>5 DEF FlightHolds, q

\* The next page is asked for with what the answer before it left.
LEMMA NextRequestHolds ==
  ASSUME NEW p, FlightHolds(p), NEW f
  PROVE  FlightHolds([step |-> "asked", filter |-> f, cursor |-> p.cursor,
                      walk |-> p.walk])
<1> DEFINE q == [step |-> "asked", filter |-> f, cursor |-> p.cursor,
                 walk |-> p.walk]
<1>1. q.step = "asked" /\ q.cursor = p.cursor /\ q.walk = p.walk
  OBVIOUS
<1> HIDE DEF q
<1>2. QED
  BY <1>1 DEF FlightHolds, q

\* A change of a dossier takes it out of what a walk must account for.
LEMMA ChangeKeeps ==
  ASSUME TypeOK, NoneEarly, NEW d \in Dossiers, Change(d),
         NEW q \in Flight, FlightHolds(q)
  PROVE  FlightHolds(q)'
<1>1. /\ version' = [version EXCEPT ![d] = @ + 1]
      /\ version \in [Dossiers -> Nat]
  BY DEF Change, TypeOK
<1>2. \A e \in Dossiers :
        e # d => /\ version'[e] = version[e]
                 /\ updated'[e] = updated[e]
                 /\ class'[e] = class[e]
  BY DEF Change, TypeOK
<1>3. version'[d] = version[d] + 1 /\ version[d] \in Nat
  BY <1>1
<1>4. \A e \in Dossiers : e # d => \A f : Matches(e, f)' <=> Matches(e, f)
  BY <1>2 DEF Matches
<1>5. \A e \in Dossiers : e # d => \A c : Beyond(e, c)' <=> Beyond(e, c)
  BY <1>2 DEF Beyond, Before
<1>6. q.walk \in Walk /\ q.cursor \in Cursor \cup {NoCursor}
  BY FlightFields
<1>7. /\ q.walk.asOf \in [Dossiers -> Nat]
      /\ q.walk.seen \in [Dossiers -> Times]
      /\ \A r \in q.walk.again : r.id \in Dossiers
  BY <1>6, WalkFields DEF Repeat
<1>8. AsOfPast(q.walk)'
  BY <1>2, <1>3, <1>7 DEF AsOfPast, FlightHolds
<1>9. \A e \in Dossiers :
        version'[e] = q.walk.asOf[e] => e # d /\ version[e] = q.walk.asOf[e]
  BY <1>2, <1>3, <1>7 DEF AsOfPast, FlightHolds
<1>10. CursorHolds(q.cursor)'
  <2>1. SUFFICES ASSUME q.cursor \in Cursor PROVE CursorHolds(q.cursor)'
    BY <1>6 DEF CursorHolds
  <2>2. q.cursor.id \in Dossiers /\ q.cursor.of \in Nat /\ q.cursor # NoCursor
    BY <2>1, NoCursorApart
  <2>3. /\ q.cursor.of <= version[q.cursor.id]
        /\ version[q.cursor.id] = q.cursor.of =>
             /\ updated[q.cursor.id] = q.cursor.stamp
             /\ Matches(q.cursor.id, q.cursor.filter)
    BY <2>2 DEF FlightHolds, CursorHolds
  <2>4. CASE q.cursor.id = d
    BY <1>3, <2>2, <2>3, <2>4 DEF CursorHolds
  <2>5. CASE q.cursor.id # d
    BY <1>2, <1>4, <2>2, <2>3, <2>5 DEF CursorHolds
  <2>6. QED
    BY <2>4, <2>5
<1>11. CoveredBy(q.walk, q.cursor)'
  <2>1. CoveredBy(q.walk, q.cursor)
    BY DEF FlightHolds
  <2>2. QED
    BY <1>4, <1>5, <1>9, <2>1 DEF CoveredBy
<1>12. Fresh(q.walk)'
  <2>1. Fresh(q.walk)
    BY DEF FlightHolds
  <2>2. QED
    BY <1>7, <1>9, <2>1 DEF Fresh
<1>13. Completed(q.walk, q.filter) => Completed(q.walk, q.filter)'
  BY <1>4, <1>9 DEF Completed
<1>14. ASSUME q.step = "refused"
       PROVE  \/ q.filter # q.cursor.filter
              \/ version'[q.cursor.id] # q.cursor.of
  <2>1. q.cursor \in Cursor
    BY <1>14, FlightFields
  <2>2. q.cursor.id \in Dossiers /\ q.cursor.of \in Nat
        /\ q.cursor.of <= version[q.cursor.id]
    BY <2>1, NoCursorApart DEF FlightHolds, CursorHolds
  <2>3. CASE q.cursor.id = d
    BY <1>3, <2>2, <2>3
  <2>4. CASE q.cursor.id # d
    BY <1>2, <1>14, <2>2, <2>4 DEF FlightHolds
  <2>5. QED
    BY <2>3, <2>4
<1>15. q.step = "answered" =>
         /\ q.cursor # NoCursor => q.cursor.filter = q.filter
         /\ q.cursor = NoCursor => Completed(q.walk, q.filter)'
  BY <1>13 DEF FlightHolds
<1>16. ShownBefore(q.walk)'
  <2>1. updated[d] \in Nat /\ clock \in Nat /\ updated[d] <= clock
    BY DEF TypeOK, Times, NoneEarly
  <2>2. updated'[d] \in Nat /\ clock <= updated'[d]
    BY DEF Change, TypeOK, Times
  <2>3. q.walk.seen[d] \in Nat /\ q.walk.seen[d] <= updated[d]
    BY <1>7 DEF FlightHolds, ShownBefore, Times
  <2>4. q.walk.seen[d] <= updated'[d]
    BY <2>1, <2>2, <2>3
  <2>5. QED
    BY <1>2, <2>4 DEF FlightHolds, ShownBefore
<1>17. ShownBehind(q.walk, q.cursor)' /\ WithinSeconds(q.walk)'
  BY DEF FlightHolds, ShownBehind, WithinSeconds
<1>18. QED
  BY <1>8, <1>10, <1>11, <1>12, <1>14, <1>15, <1>16, <1>17 DEF FlightHolds

LEMMA NoneEarlyNext ==
  ASSUME TypeOK, NoneEarly, [Next]_queueVars
  PROVE  NoneEarly'
<1>1. CASE UNCHANGED <<updated, clock>>
  BY <1>1 DEF NoneEarly
<1>2. ASSUME NEW d \in Dossiers, Change(d) PROVE NoneEarly'
  <2>1. PICK t \in Times : t >= clock /\ clock' = t /\ updated' = [updated EXCEPT ![d] = t]
    BY <1>2 DEF Change
  <2>2. t \in Nat /\ clock \in Nat /\ \A e \in Dossiers : updated[e] \in Nat
    BY DEF TypeOK, Times
  <2>3. QED
    BY <2>1, <2>2 DEF NoneEarly, TypeOK
<1>3. QED
  BY <1>1, <1>2 DEF Next, Submit, NextPage, Serve, Arrive, dossierVars, queueVars

-----------------------------------------------------------------------------
(***************************************************************************)
(* An answer is given.                                                     *)
(***************************************************************************)
LEMMA RestDivides ==
  ASSUME NEW c, NEW f, NEW d \in Dossiers, Matches(d, f)
  PROVE  d \in Rest(c, f) <=>
           c = NoCursor \/ Before(updated[c.id], c.id, updated[d], d)
  BY DEF Rest, Matching

LEMMA NothingShownYet ==
  ASSUME NEW q, q.cursor = NoCursor
  PROVE  Shown(Begun(q)) = {}
<1>1. Begun(q).seen = [d \in Dossiers |-> 0]
  BY BegunFields
<1>2. QED
  BY <1>1 DEF Shown

\* What the page shows lies beyond the cursor it goes on from; what is left of
\* the matching ones lies up to it.
LEMMA PageFollowsCursor ==
  ASSUME TypeOK, NEW q \in Flight, FlightHolds(q), Accepts(q.cursor, q.filter),
         NEW d \in Dossiers, version[d] = Begun(q).asOf[d]
  PROVE  /\ d \in Rest(q.cursor, q.filter) => d \notin Shown(Begun(q))
         /\ Matches(d, q.filter) =>
              d \in Rest(q.cursor, q.filter) \/ d \in Shown(Begun(q))
<1>1. CASE q.cursor = NoCursor
  <2>1. Shown(Begun(q)) = {}
    BY <1>1, NothingShownYet
  <2>2. QED
    BY <1>1, <2>1, RestDivides
<1>2. CASE q.cursor # NoCursor
  <2>1. Begun(q) = q.walk
    BY <1>2 DEF Begun
  <2>2. /\ q.cursor.filter = q.filter
        /\ updated[q.cursor.id] = q.cursor.stamp
    BY <1>2 DEF Accepts, IsValid
  <2>3. /\ Matches(d, q.filter) /\ ~Beyond(d, q.cursor) => d \in Shown(q.walk)
        /\ d \in Shown(q.walk) => ~Beyond(d, q.cursor)
    BY <1>2, <2>1, <2>2 DEF FlightHolds, CoveredBy
  <2>4. Rest(q.cursor, q.filter) \subseteq Matching(q.filter)
    BY RestType
  <2>5. Matches(d, q.filter) =>
          (d \in Rest(q.cursor, q.filter) <=> Beyond(d, q.cursor))
    BY <1>2, <2>2, RestDivides DEF Beyond
  <2>6. QED
    BY <2>1, <2>3, <2>4, <2>5 DEF Matching
<1>3. QED
  BY <1>1, <1>2

\* Everything shown before lies before everything on the page.
LEMMA SeenComesFirst ==
  ASSUME TypeOK, NEW q \in Flight, FlightHolds(q), Accepts(q.cursor, q.filter),
         NEW d \in Shown(Begun(q)), version[d] = Begun(q).asOf[d],
         NEW a \in Rest(q.cursor, q.filter)
  PROVE  ~Before(updated[a], a, updated[d], d)
<1>1. q.cursor # NoCursor
  BY NothingShownYet
<1>2. Begun(q) = q.walk
  BY <1>1 DEF Begun
<1>3. d \in Dossiers /\ a \in Dossiers
  BY RestType DEF Shown
<1>4. updated[q.cursor.id] = q.cursor.stamp /\ q.cursor.id \in Dossiers
  BY <1>1 DEF Accepts, IsValid, Matching
<1>5. ~Beyond(d, q.cursor)
  BY <1>1, <1>2, <1>3 DEF FlightHolds, CoveredBy
<1>6. Before(updated[q.cursor.id], q.cursor.id, updated[a], a)
  BY <1>1 DEF Rest
<1>7. /\ updated[d] \in Times /\ updated[a] \in Times
      /\ updated[q.cursor.id] \in Times
  BY <1>3, <1>4 DEF TypeOK
<1>8. QED
  BY <1>3, <1>4, <1>5, <1>6, <1>7, BeforeIsOrder DEF Beyond

\* What was shown before stood, when it was, before everything the page shows,
\* so that the page shows it again only after a change within its second.
LEMMA ShownStoodFirst ==
  ASSUME TypeOK, NEW q \in Flight, FlightHolds(q), Accepts(q.cursor, q.filter),
         NEW d \in Shown(Begun(q)), NEW a \in Rest(q.cursor, q.filter)
  PROVE  /\ Begun(q) = q.walk
         /\ q.walk.seen[d] \in Times
         /\ ~Before(updated[a], a, q.walk.seen[d], d)
         /\ a = d => Second(updated[d]) = Second(q.walk.seen[d])
<1>1. q.cursor # NoCursor
  BY NothingShownYet
<1>2. Begun(q) = q.walk
  BY <1>1 DEF Begun
<1>3. d \in Dossiers /\ a \in Dossiers
  BY RestType DEF Shown
<1>4. updated[q.cursor.id] = q.cursor.stamp /\ q.cursor.id \in Dossiers
  BY <1>1 DEF Accepts, IsValid, Matching
<1>5. /\ q.walk.seen[d] \in Times /\ updated[d] \in Times /\ updated[a] \in Times
      /\ q.cursor.stamp \in Times
  BY <1>3, <1>4, FlightFields, WalkFields DEF TypeOK
<1>6. ~Before(q.cursor.stamp, q.cursor.id, q.walk.seen[d], d)
  BY <1>1, <1>2 DEF FlightHolds, ShownBehind
<1>7. Before(q.cursor.stamp, q.cursor.id, updated[a], a)
  BY <1>1, <1>4 DEF Rest
<1>8. ~Before(updated[a], a, q.walk.seen[d], d)
  BY <1>3, <1>4, <1>5, <1>6, <1>7, BeforeIsOrder
<1>9. ASSUME a = d PROVE Second(updated[d]) = Second(q.walk.seen[d])
  <2>1. q.walk.seen[d] <= updated[d]
    BY <1>3 DEF FlightHolds, ShownBefore
  <2>2. q.walk.seen[d] \in Nat /\ updated[d] \in Nat
    BY <1>5 DEF Times
  <2>3. Before(q.walk.seen[d], d, updated[d], d) \/ Text(q.walk.seen[d]) = Text(updated[d])
    <3>1. Text(q.walk.seen[d]) \in Nat /\ Text(updated[d]) \in Nat
      BY <2>2, TextType
    <3>2. QED
      BY <1>8, <1>9, <3>1 DEF Before
  <2>4. Text(updated[d]) <= Text(q.walk.seen[d])
    BY <2>2, <2>3, TextType DEF Before
  <2>5. Second(updated[d]) <= Second(q.walk.seen[d])
    BY <2>2, <2>4, TextKeepsSeconds
  <2>6. Second(q.walk.seen[d]) <= Second(updated[d])
    BY <2>1, <2>2, SecondsGrow
  <2>7. Second(updated[d]) \in Nat /\ Second(q.walk.seen[d]) \in Nat
    BY <2>2, SecondType
  <2>8. QED
    BY <2>5, <2>6, <2>7
<1>10. QED
  BY <1>2, <1>5, <1>8, <1>9

LEMMA AnswerHolds ==
  ASSUME TypeOK, NEW q \in Flight, FlightHolds(q), Accepts(q.cursor, q.filter),
         NEW a, Answered(q, a)
  PROVE  FlightHolds(a)
<1> DEFINE S == Rest(q.cursor, q.filter)
           P == Page(S, q.filter.size)
           w == Walked(Begun(q), P)
<1>1. PICK c \in CursorsTo(S, P, q.filter) :
             a = [step |-> "answered", filter |-> q.filter, cursor |-> c,
                  walk |-> w]
  BY DEF Answered
<1>2. /\ a.step = "answered" /\ a.filter = q.filter
      /\ a.cursor = c /\ a.walk = w
  BY <1>1
<1>3. S \in SUBSET Dossiers /\ S \subseteq Matching(q.filter) /\ P \subseteq S
  BY RestType, PageType
<1>4. q.filter \in Filters /\ q.filter.size \in Nat
  BY FlightFields, SizesAreNumbers
<1>5. /\ updated \in [Dossiers -> Times]
      /\ version \in [Dossiers -> Nat]
  BY DEF TypeOK
<1>6. /\ Begun(q) \in Walk
      /\ Begun(q).asOf \in [Dossiers -> Nat]
      /\ Begun(q).seen \in [Dossiers -> Times]
  BY <1>5, BegunType, WalkFields
<1>7. /\ w.asOf = Begun(q).asOf
      /\ \A d \in Dossiers : w.seen[d] = IF d \in P THEN updated[d] ELSE Begun(q).seen[d]
      /\ w.again = Begun(q).again \cup Repeated(Begun(q), P)
      /\ Shown(w) = Shown(Begun(q)) \cup P
  <2>1. \A d \in P : updated[d] # 0
    BY <1>3 DEF Matching, Matches
  <2>2. P \in SUBSET Dossiers
    BY <1>3
  <2>3. QED
    BY <1>5, <1>6, <2>1, <2>2, WalkedFields
<1>8. ASSUME NEW d \in Dossiers, version[d] = Begun(q).asOf[d]
      PROVE  /\ d \in S => d \notin Shown(Begun(q))
             /\ Matches(d, q.filter) => d \in S \/ d \in Shown(Begun(q))
  BY <1>8, PageFollowsCursor
<1>9. AsOfPast(w)
  <2>1. CASE q.cursor = NoCursor
    BY <1>7, <1>5, <2>1, BegunFields DEF AsOfPast
  <2>2. CASE q.cursor # NoCursor
    BY <1>7, <2>2 DEF AsOfPast, FlightHolds, Begun
  <2>3. QED
    BY <2>1, <2>2
<1>10. Fresh(w)
  <2>1. SUFFICES ASSUME NEW r \in w.again, version[r.id] = w.asOf[r.id] PROVE FALSE
    BY DEF Fresh
  <2>2. CASE r \in Begun(q).again
    <3>1. q.cursor # NoCursor
      BY <2>2, BegunFields
    <3>2. QED
      BY <1>7, <2>1, <2>2, <3>1 DEF FlightHolds, Fresh, Begun
  <2>3. CASE r \in Repeated(Begun(q), P)
    <3>1. r.id \in P /\ r.id \in Shown(Begun(q))
      BY <2>3 DEF Repeated
    <3>2. QED
      BY <1>7, <1>3, <1>8, <2>1, <3>1
  <2>4. QED
    BY <1>7, <2>1, <2>2, <2>3
<1>11. ShownBefore(w)
  <2>1. SUFFICES ASSUME NEW d \in Dossiers PROVE w.seen[d] <= updated[d]
    BY DEF ShownBefore
  <2>2. updated[d] \in Nat
    BY <1>5 DEF Times
  <2>3. CASE d \in P
    BY <1>7, <2>2, <2>3
  <2>4. CASE d \notin P /\ q.cursor = NoCursor
    <3>1. Begun(q).seen[d] = 0
      BY <2>4, BegunFields
    <3>2. QED
      BY <1>7, <2>2, <2>4, <3>1
  <2>5. CASE d \notin P /\ q.cursor # NoCursor
    BY <1>7, <2>5 DEF FlightHolds, ShownBefore, Begun
  <2>6. QED
    BY <2>3, <2>4, <2>5
<1>12. WithinSeconds(w)
  <2>1. SUFFICES ASSUME NEW r \in w.again PROVE Second(r.is) = Second(r.was)
    BY DEF WithinSeconds
  <2>2. CASE r \in Begun(q).again
    <3>1. q.cursor # NoCursor
      BY <2>2, BegunFields
    <3>2. QED
      BY <2>2, <3>1 DEF FlightHolds, WithinSeconds, Begun
  <2>3. CASE r \in Repeated(Begun(q), P)
    <3>1. PICK d \in P \cap Shown(Begun(q)) :
                 r = [id |-> d, was |-> Begun(q).seen[d], is |-> updated[d]]
      BY <2>3 DEF Repeated
    <3>2. d \in S
      BY <1>3, <3>1
    <3>3. Begun(q) = q.walk /\ Second(updated[d]) = Second(q.walk.seen[d])
      BY <3>1, <3>2, ShownStoodFirst
    <3>4. QED
      BY <3>1, <3>3
  <2>4. QED
    BY <1>7, <2>1, <2>2, <2>3
<1>13. CASE S = P
  <2>1. c = NoCursor
    BY <1>1, <1>13 DEF CursorsTo
  <2>2. Completed(w, q.filter)
    BY <1>7, <1>8, <1>13 DEF Completed
  <2>3. CursorHolds(c) /\ CoveredBy(w, c) /\ ShownBehind(w, c)
    BY <2>1 DEF CursorHolds, CoveredBy, ShownBehind
  <2>4. QED
    BY <1>2, <1>9, <1>10, <1>11, <1>12, <2>1, <2>2, <2>3 DEF FlightHolds
<1>14. CASE S # P
  <2>1. PICK last \in P : /\ IsLast(last, P)
                          /\ c = [id |-> last, stamp |-> updated[last],
                                  filter |-> q.filter, of |-> version[last]]
    BY <1>1, <1>14 DEF CursorsTo
  <2>2. /\ c.id = last /\ c.stamp = updated[last] /\ c.filter = q.filter
        /\ c.of = version[last]
    BY <2>1
  <2>3. last \in Dossiers /\ last \in S /\ Matches(last, q.filter)
    BY <1>3, <2>1 DEF Matching
  <2>4. c # NoCursor
    BY <2>2, <2>3 DEF NoCursor, Dossiers
  <2>5. CursorHolds(c)
    BY <1>5, <2>2, <2>3 DEF CursorHolds
  <2>6. ASSUME NEW d \in S PROVE d \in P <=> ~Beyond(d, c)
    BY <1>3, <1>4, <1>5, <2>1, <2>2, <2>6, LastDividesRest DEF Beyond
  <2>7. CoveredBy(w, c)
    <3>1. SUFFICES ASSUME NEW d \in Dossiers, version[d] = w.asOf[d]
                   PROVE  /\ Matches(d, q.filter) /\ ~Beyond(d, c) => d \in Shown(w)
                          /\ d \in Shown(w) => ~Beyond(d, c)
      BY <2>2 DEF CoveredBy
    <3>2. Matches(d, q.filter) /\ ~Beyond(d, c) => d \in Shown(w)
      BY <1>7, <1>8, <2>6, <3>1
    <3>3. ASSUME d \in P PROVE ~Beyond(d, c)
      <4>1. d \in S
        BY <1>3, <3>3
      <4>2. QED
        BY <2>6, <3>3, <4>1
    <3>4. ASSUME d \in Shown(Begun(q)) PROVE ~Beyond(d, c)
      BY <1>7, <2>2, <2>3, <3>1, <3>4, SeenComesFirst DEF Beyond
    <3>5. Shown(w) = Shown(Begun(q)) \cup P
      BY <1>7
    <3>6. QED
      BY <3>2, <3>3, <3>4, <3>5
  <2>8. ShownBehind(w, c)
    <3>1. SUFFICES ASSUME NEW d \in Shown(w)
                   PROVE  ~Before(updated[last], last, w.seen[d], d)
      BY <2>2 DEF ShownBehind
    <3>2. CASE d \in P
      BY <1>7, <1>3, <2>1, <3>2 DEF IsLast
    <3>3. CASE d \notin P
      <4>1. d \in Shown(Begun(q)) /\ d \in Dossiers
        BY <1>7, <3>1, <3>3 DEF Shown
      <4>2. ~Before(updated[last], last, q.walk.seen[d], d) /\ Begun(q) = q.walk
        BY <2>3, <4>1, ShownStoodFirst
      <4>3. QED
        BY <1>7, <3>3, <4>1, <4>2
    <3>4. QED
      BY <3>2, <3>3
  <2>9. QED
    BY <1>2, <1>9, <1>10, <1>11, <1>12, <2>2, <2>4, <2>5, <2>7, <2>8 DEF FlightHolds
<1>15. QED
  BY <1>13, <1>14

\* A cursor is refused because it is of other filters or has been overtaken.
LEMMA RefusalHolds ==
  ASSUME TypeOK, NEW q \in Flight, FlightHolds(q), q.step = "asked",
         ~Accepts(q.cursor, q.filter),
         NEW a, a = [q EXCEPT !.step = "refused"]
  PROVE  FlightHolds(a)
<1>1. q.cursor # NoCursor /\ ~IsValid(q.cursor, q.filter)
  BY DEF Accepts
<1>2. a = [step |-> "refused", filter |-> q.filter, cursor |-> q.cursor,
           walk |-> q.walk]
  BY <1>1, RefusedType
<1>3. q.cursor \in Cursor
  BY <1>1, FlightFields
<1>4. q.cursor.id \in Dossiers
  BY <1>3, NoCursorApart
<1>5. \/ q.filter # q.cursor.filter
      \/ version[q.cursor.id] # q.cursor.of
  BY <1>1, <1>4 DEF FlightHolds, CursorHolds, IsValid, Matching
<1>6. /\ a.step = "refused" /\ a.filter = q.filter /\ a.cursor = q.cursor
      /\ a.walk = q.walk
  BY <1>2
<1>7. QED
  BY <1>5, <1>6 DEF FlightHolds

LEMMA ServeKeeps ==
  ASSUME QueueInv, NEW q, Serve(q)
  PROVE  \A p \in flights' : FlightHolds(p)
<1>1. q \in flights /\ q \in Flight /\ q.step = "asked" /\ FlightHolds(q)
  BY DEF QueueInv, TypeOK, Serve
<1>2. PICK a : /\ flights' = (flights \ {q}) \cup {a}
               /\ \/ Accepts(q.cursor, q.filter) /\ Answered(q, a)
                  \/ /\ ~Accepts(q.cursor, q.filter)
                     /\ a = [q EXCEPT !.step = "refused"]
  BY ServeAnswers
<1>3. FlightHolds(a)
  BY <1>1, <1>2, AnswerHolds, RefusalHolds DEF QueueInv
<1>4. QED
  BY <1>2, <1>3 DEF QueueInv

-----------------------------------------------------------------------------
\* Without a change of a dossier, what held of a flight holds still.
LEMMA QuietKeeps ==
  ASSUME UNCHANGED <<updated, class, version>>, NEW q
  PROVE  FlightHolds(q)' <=> FlightHolds(q)
  BY DEF FlightHolds, CursorHolds, CoveredBy, AsOfPast, Fresh, Completed,
         ShownBehind, ShownBefore, WithinSeconds, Matches, Beyond, Before

LEMMA QueueInvHolds == Safety => []QueueInv
<1>1. ASSUME Init PROVE QueueInv
  <2>1. TypeOK
    BY <1>1, InitTypes
  <2>2. version \in [Dossiers -> Nat] /\ updated \in [Dossiers -> Times]
    BY <2>1 DEF TypeOK
  <2>3. page = [step |-> "asked", filter |-> form, cursor |-> NoCursor,
                walk |-> NoWalk] /\ flights = {page}
    BY <1>1 DEF Init
  <2>4. FlightHolds(page)
    BY <2>2, <2>3, FirstRequestHolds
  <2>5. NoneEarly
    BY <1>1 DEF Init, NoneEarly
  <2>6. QED
    BY <2>1, <2>3, <2>4, <2>5 DEF QueueInv
<1>2. ASSUME QueueInv, [Next]_queueVars PROVE QueueInv'
  <2>1. TypeOK' /\ NoneEarly'
    BY <1>2, StepTypes, NoneEarlyNext DEF QueueInv
  <2>2. ASSUME NEW d \in Dossiers, Change(d) PROVE QueueInv'
    <3>1. page' = page /\ flights' = flights
      BY <2>2 DEF Change, clientVars
    <3>2. page \in Flight /\ flights \subseteq Flight
      BY <1>2 DEF QueueInv, TypeOK
    <3>3. ASSUME NEW q \in Flight, FlightHolds(q) PROVE FlightHolds(q)'
      BY <1>2, <2>2, <3>3, ChangeKeeps DEF QueueInv
    <3>4. FlightHolds(page)'
      <4>1. PICK q \in Flight : q = page
        BY <3>2
      <4>2. FlightHolds(q)'
        BY <1>2, <3>3, <4>1 DEF QueueInv
      <4>3. q = page'
        BY <3>1, <4>1
      <4>4. QED
        BY <4>2, <4>3 DEF FlightHolds, CursorHolds, CoveredBy, AsOfPast, Fresh,
                          Completed, ShownBehind, ShownBefore, WithinSeconds,
                          Matches, Beyond, Before
    <3>5. \A q \in flights : FlightHolds(q)'
      BY <1>2, <3>2, <3>3 DEF QueueInv
    <3>6. QED
      BY <2>1, <3>1, <3>4, <3>5 DEF QueueInv
  <2>3. ASSUME NEW f \in Filters, NEW c, NEW w, Ask(f, c, w),
               UNCHANGED <<updated, class, version, page>>,
               FlightHolds([step |-> "asked", filter |-> f, cursor |-> c,
                            walk |-> w])
        PROVE  QueueInv'
    <3>1. \A q \in flights' : FlightHolds(q)
      BY <1>2, <2>3 DEF Ask, QueueInv
    <3>2. FlightHolds(page)
      BY <1>2 DEF QueueInv
    <3>3. QED
      BY <2>1, <2>3, <3>1, <3>2, QuietKeeps DEF QueueInv
  <2>4. ASSUME NEW f \in Filters, Submit(f) PROVE QueueInv'
    <3>1. version \in [Dossiers -> Nat] /\ updated \in [Dossiers -> Times]
      BY <1>2 DEF QueueInv, TypeOK
    <3>2. QED
      BY <2>3, <2>4, <3>1, FirstRequestHolds DEF Submit, dossierVars
  <2>5. ASSUME NextPage PROVE QueueInv'
    <3>1. form \in Filters /\ FlightHolds(page)
      BY <1>2 DEF QueueInv, TypeOK
    <3>2. QED
      BY <2>3, <2>5, <3>1, NextRequestHolds DEF NextPage, dossierVars, clientVars
  <2>6. ASSUME NEW q, Serve(q) PROVE QueueInv'
    <3>1. \A p \in flights' : FlightHolds(p)
      BY <1>2, <2>6, ServeKeeps
    <3>2. UNCHANGED <<updated, class, version, page>>
      BY <2>6 DEF Serve, dossierVars, clientVars
    <3>3. QED
      BY <1>2, <2>1, <3>1, <3>2, QuietKeeps DEF QueueInv
  <2>7. ASSUME NEW q \in flights, Arrive(q) PROVE QueueInv'
    <3>1. /\ UNCHANGED <<updated, class, version>>
          /\ flights' \subseteq flights /\ page' \in {q, page}
      BY <2>7 DEF Arrive, dossierVars
    <3>2. FlightHolds(page') /\ \A p \in flights' : FlightHolds(p)
      BY <1>2, <3>1 DEF QueueInv
    <3>3. QED
      BY <2>1, <3>1, <3>2, QuietKeeps DEF QueueInv
  <2>8. CASE UNCHANGED queueVars
    <3>1. UNCHANGED <<updated, class, version, page, flights>>
      BY <2>8 DEF queueVars
    <3>2. QED
      BY <1>2, <2>1, <3>1, QuietKeeps DEF QueueInv
  <2>9. QED
    BY <1>2, <2>2, <2>4, <2>5, <2>6, <2>7, <2>8 DEF Next
<1>3. QED
  BY <1>1, <1>2, PTL DEF Safety

-----------------------------------------------------------------------------
(***************************************************************************)
(* What it is for.                                                         *)
(***************************************************************************)
\* WalksAreComplete: QueryQueue loses no dossier between two pages that has
\* not been changed meanwhile.
THEOREM NothingIsMissed == Safety => []WalksAreComplete
<1>1. ASSUME QueueInv PROVE WalksAreComplete
  <2>1. \A q \in Answers : FlightHolds(q) /\ q.step = "answered"
    BY <1>1 DEF QueueInv, Answers
  <2>2. QED
    BY <2>1 DEF WalksAreComplete, FlightHolds, Completed, Unchanged, Matching
<1>2. QED
  BY <1>1, QueueInvHolds, PTL

\* NothingTwice: QueryQueue shows a dossier on two pages only if it has been
\* changed between them.
THEOREM NothingIsRepeated == Safety => []NothingTwice
<1>1. ASSUME QueueInv PROVE NothingTwice
  <2>1. \A q \in Answers : FlightHolds(q)
    BY <1>1 DEF QueueInv, Answers
  <2>2. QED
    BY <2>1 DEF NothingTwice, FlightHolds, Fresh, Unchanged
<1>2. QED
  BY <1>1, QueueInvHolds, PTL

\* RefusalsAreExplained: a cursor QueryQueue made is refused only with other
\* filters than its own, or once its dossier has been changed.
THEOREM NoneRefusedWithoutCause == Safety => []RefusalsAreExplained
<1>1. ASSUME QueueInv PROVE RefusalsAreExplained
  BY <1>1 DEF QueueInv, RefusalsAreExplained, FlightHolds
<1>2. QED
  BY <1>1, QueueInvHolds, PTL

\* RepeatsStayInTheirSecond: whatever changes between two pages, QueryQueue shows
\* a dossier again only if it was changed within the second it was shown in.
THEOREM RepeatsAreOfOneSecond == Safety => []RepeatsStayInTheirSecond
<1>1. ASSUME QueueInv PROVE RepeatsStayInTheirSecond
  <2>1. \A q \in Answers : FlightHolds(q)
    BY <1>1 DEF QueueInv, Answers
  <2>2. QED
    BY <2>1 DEF RepeatsStayInTheirSecond, FlightHolds, WithinSeconds
<1>2. QED
  BY <1>1, QueueInvHolds, PTL
=============================================================================
