------------------------------ MODULE Redaction ------------------------------
(***************************************************************************)
(* The text algebra of internal/domain/redaction.go and of the range       *)
(* checks in internal/domain/extensions.go.                                *)
(*                                                                         *)
(* A text is a sequence of tokens, one token standing for the run of runes *)
(* the checker reports as one finding (or for any run it leaves alone).    *)
(* A fix [start, end, repl] masks the half-open range start..end-1 of the  *)
(* ORIGINAL text, counted from 0 as in the code.                           *)
(*                                                                         *)
(* A definition named D_Fault is D with a fault a change of the code could *)
(* introduce; see Dossier.                                                 *)
(***************************************************************************)
EXTENDS Integers, SequencesExt

(***************************************************************************)
(* Ranges.                                                                 *)
(***************************************************************************)

\* A fix the validation accepts for a text of n runes.
RangeIn(f, n) == /\ 0 <= f.start
                 /\ f.start < f.end
                 /\ f.end <= n

\* Two fixes of the same text mask a common rune.
Overlap(f, g) == f.start < g.end /\ g.start < f.end

\* The orders in which sort.Slice may leave ranges: by their start offset,
\* those that start together in either order.
Arrangements(is) == {[i \in DOMAIN p |-> is[p[i]]] : p \in SetToSeqs(DOMAIN is)}
Ascending(is) ==
  {s \in Arrangements(is) : \A i \in 2..Len(s) : s[i-1].start <= s[i].start}
Descending_Ascending(is) == Ascending(is)
Descending(is) ==
  {s \in Arrangements(is) : \A i \in 2..Len(s) : s[i-1].start >= s[i].start}

\* The scan of ResolveIssues over the ranges of one segment in ascending order:
\* it compares neighbours only.
NeighboursOverlap_Touching(rs) ==
  \E i \in 2..Len(rs) : rs[i-1].end >= rs[i].start
NeighboursOverlap(rs) ==
  \E i \in 2..Len(rs) : rs[i-1].end > rs[i].start

(***************************************************************************)
(* Producing the candidate text.                                           *)
(***************************************************************************)

\* One replacement: runes[:start] + replacement + runes[end:].
Splice(text, f) ==
  SubSeq(text, 1, f.start) \o f.repl \o SubSeq(text, f.end + 1, Len(text))

\* The loop of CandidateText over the fixes in descending order, so that the
\* offsets of those still to come stay those of the original text: what the
\* text is after each of them.
Splicing(text, s) ==
  LET after[i \in 0..Len(s)] ==
        IF i = 0 THEN text ELSE Splice(after[i-1], s[i])
  IN  after

\* The same text position by position: what each rune of the original becomes.
\* Dossier uses this form and states that the loop ends in the same text
\* (SplicesSpellPieces).
Pieces(text, fixes) ==
  [i \in 1..Len(text) |->
     IF \E f \in fixes : f.start = i - 1
       THEN (CHOOSE f \in fixes : f.start = i - 1).repl
     ELSE IF \E f \in fixes : f.start < i - 1 /\ i - 1 < f.end
       THEN <<>>
     ELSE <<text[i]>>]

\* The text that pieces spell, which is what the code digests.
Spelled(pieces) == FlattenSeq(pieces)
=============================================================================
