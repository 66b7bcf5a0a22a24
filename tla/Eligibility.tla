----------------------------- MODULE Eligibility -----------------------------
(***************************************************************************)
(* The eligibility check of internal/application/checker.go: the findings  *)
(* it reports for a transcript under an authorization.                     *)
(*                                                                         *)
(* A transcript is a function from segment identifiers to segments; an     *)
(* identifier that carries no segment has the empty text.  One token       *)
(* stands for one finding of the code's regular expressions (a direct      *)
(* identifier, a usage marker naming the use) or for a run of text they    *)
(* leave alone, so token positions play the part of rune offsets.          *)
(***************************************************************************)
EXTENDS Integers, Sequences

CONSTANTS SegmentIds,   \* the identifiers a segment may have
          Speakers,     \* the speaker codes clients submit
          Identifiers,  \* tokens that match directIdentifier
          Uses,         \* usage purposes; as a token, the marker of that use
          PlainTokens   \* tokens that match neither

Token == Identifiers \cup Uses \cup PlainTokens

\* The speaker code SaveTranscript writes when the client leaves it blank.
Undeclared == "UNDECLARED"

\* The blank speaker code of a submitted segment.
Blank == ""

Segment == [start   : Int,
            end     : Int,
            speaker : Speakers \cup {Undeclared, Blank},
            text    : Seq(Token)]

NoSegment == [start |-> 0, end |-> 0, speaker |-> Blank, text |-> <<>>]

Transcript == [SegmentIds -> Segment]

\* The segments a transcript holds.
Present(t) == {id \in SegmentIds : t[id].text # <<>>}

(***************************************************************************)
(* Issues.  An issue is identified by what the code digests into its id.   *)
(***************************************************************************)
Rules == {"TIMELINE_GAP", "UNDECLARED_SPEAKER", "DIRECT_IDENTIFIER",
          "UNAUTHORIZED_USE"}

IssueKey == [seg : SegmentIds, rule : Rules, start : Nat, end : Nat]

IsBlocker(k) == k.rule # "TIMELINE_GAP"

Finding(id, rule, start, end) ==
  [seg |-> id, rule |-> rule, start |-> start, end |-> end]

\* segment.StartMS > d.Segments[i-1].EndMS for i > 0: some segment comes
\* before this one and none reaches it.
GapBefore(t, id) ==
  LET earlier == {p \in Present(t) : t[p].start < t[id].start}
  IN  /\ earlier # {}
      /\ \A p \in earlier : t[p].end < t[id].start

Gaps(t) ==
  {Finding(id, "TIMELINE_GAP", 0, 0) :
     id \in {s \in Present(t) : GapBefore(t, s)}}

\* The comparison is exact: a speaker code that only folds to UNDECLARED is
\* not reported here, although TranscriptPrecheck lists it.
UndeclaredSpeakers(t) ==
  {Finding(id, "UNDECLARED_SPEAKER", 0, Len(t[id].text)) :
     id \in {s \in Present(t) : t[s].speaker = Undeclared}}

\* The tokens of kind toks, each a finding of one rule.
TokenFindings(t, toks, rule) ==
  UNION {{Finding(id, rule, i - 1, i) :
            i \in {j \in 1..Len(t[id].text) : t[id].text[j] \in toks}} :
          id \in Present(t)}

CheckEligibility(t, allowed) ==
  Gaps(t)
    \cup UndeclaredSpeakers(t)
    \cup TokenFindings(t, Identifiers, "DIRECT_IDENTIFIER")
    \cup TokenFindings(t, Uses \ allowed, "UNAUTHORIZED_USE")
=============================================================================
