------------------------------ MODULE MCDossier ------------------------------
(***************************************************************************)
(* Instances of Dossier for model checking.                                *)
(***************************************************************************)
EXTENDS Dossier, TLC

CONSTANTS ed, rev

Seg(start, end, speaker, text) ==
  [start |-> start, end |-> end, speaker |-> speaker, text |-> text]

Mask(start, end, repl) == [start |-> start, end |-> end, repl |-> repl]

\* Two segments with a gap between them: a blocker on "a", a warning on "b".
TwoSegments ==
  [a |-> Seg(0, 1, "s", <<"ident", "plain">>),
   b |-> Seg(2, 3, "s", <<"plain">>)]

\* One segment with three identifiers: three blockers whose ranges can collide.
ThreeIdentifiers ==
  [a |-> Seg(0, 1, "s", <<"ident", "ident", "ident">>), b |-> NoSegment]

\* One identifier and a token a wider range may take with it.
OneIdentifier == [a |-> Seg(0, 1, "s", <<"ident", "plain">>), b |-> NoSegment]

\* The same, by a speaker the client left blank: the finding about the speaker
\* spans the text, and with it the identifier.
BlankSpeaker == [a |-> Seg(0, 1, "", <<"ident", "plain">>), b |-> NoSegment]

\* Nothing for the check to report.
CleanText == [a |-> Seg(0, 1, "s", <<"plain">>), b |-> NoSegment]

\* For the review cycles.
ReviewSubmissions == {TwoSegments}
ReviewFixes == {Mask(0, 1, <<"mask">>), Mask(0, 2, <<"mask">>)}
NoExceptions == {}

BlankSubmissions == {BlankSpeaker}

\* For collisions of ranges: every range of a text of up to three tokens, shorter
\* and longer than what replaces it, and some that the validation has to refuse.
RangeSubmissions == {ThreeIdentifiers, OneIdentifier}
RangeFixes ==
  {Mask(s, e, <<"mask">>) : s, e \in 0..3}
    \cup {Mask(-1, 1, <<"mask">>), Mask(2, 4, <<"mask">>), Mask(0, 1, <<>>),
          Mask(0, 1, <<"mask", "mask">>)}

\* One consent is enough: nothing here depends on its history.
RangesScope == auth.uses \in {{}, {"oral"}} /\ authRevisions = <<>>

\* Parts of the masked text: apart, on top of each other, beyond what the masks
\* leave of it, for a use without authorization, in a segment that is not there.
Except(id, start, end, use) ==
  [seg |-> id, start |-> start, end |-> end, use |-> use]
RangeExceptions ==
  {Except("a", 0, 1, "oral"), Except("a", 0, 2, "oral"), Except("a", 2, 3, "oral"),
   Except("a", 1, 2, "web"), Except("b", 0, 1, "oral")}

\* For authoring: overlap, blank speaker, usage marker, a later correction.
LifeSubmissions ==
  {CleanText, TwoSegments,
   [a |-> Seg(0, 2, "", <<"oral", "plain">>), b |-> Seg(2, 3, "s", <<"ident">>)],
   [a |-> Seg(0, 2, "s", <<"plain">>), b |-> Seg(1, 3, "s", <<"oral">>)],
   [a |-> Seg(4, 6, "s", <<"web">>), b |-> Seg(1, 3, "s", <<"plain">>)]}

\* Every start of a dossier, and from there the review cycles of one: two
\* segments saved at once under a consent given for one use.
LifeScope ==
  \/ revision < 7
  \/ /\ auth = [uses |-> {"oral"}, terms |-> "t1"]
     /\ transcript = TwoSegments
     /\ SubSeq(audit, 2, 4) = <<"lock_consent", "save_transcript", "freeze_transcript">>

\* Editors and reviewers are interchangeable.
PeopleSymmetry == Permutations(People)

MCReplacements == {<<"mask">>, <<"mask", "mask">>}

=============================================================================
