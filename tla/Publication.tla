----------------------------- MODULE Publication -----------------------------
(***************************************************************************)
(* What the archive promises about one interview: a text is published only *)
(* under the consent it was prepared under, only as the subject agreed to  *)
(* it, and only once.  How texts are edited, checked and reviewed is left  *)
(* open.  Dossier implements this module.                                  *)
(***************************************************************************)
CONSTANTS Texts,     \* the texts an interview can become
          Consents   \* the terms a subject can give

VARIABLES stage,     \* how far the publication has come
          consent,   \* the terms in force
          text,      \* the text as it would be published now
          published  \* the publications: none, or one

vars == <<stage, consent, text, published>>

Stages == {"none", "consenting", "editing", "offered", "agreed", "published"}

Init == /\ stage = "none"
        /\ consent \in Consents
        /\ text \in Texts
        /\ published = {}

\* The interview is registered with the terms the subject gave.
Register == /\ stage = "none"
            /\ stage' = "consenting"
            /\ consent' \in Consents
            /\ UNCHANGED <<text, published>>

\* The terms may still change; no text is worked on.
Amend == /\ stage = "consenting"
         /\ consent' \in Consents
         /\ UNCHANGED <<stage, text, published>>

\* From here on the terms are fixed.
FixConsent == /\ stage = "consenting"
              /\ stage' = "editing"
              /\ UNCHANGED <<consent, text, published>>

\* The text is worked on and, at some step, offered to the subject.
Edit == /\ stage = "editing"
        /\ stage' \in {"editing", "offered"}
        /\ text' \in Texts
        /\ UNCHANGED <<consent, published>>

\* The subject agrees to the text on offer, unchanged.
Agree == /\ stage = "offered"
         /\ stage' = "agreed"
         /\ UNCHANGED <<consent, text, published>>

\* The subject or the reviewer sends the text back to be worked on.
SendBack == /\ stage \in {"offered", "agreed"}
            /\ stage' = "editing"
            /\ text' \in Texts
            /\ UNCHANGED <<consent, published>>

\* The agreed text goes out, as it was agreed.
Publish == /\ stage = "agreed"
           /\ stage' = "published"
           /\ published' = {[text |-> text, consent |-> consent]}
           /\ UNCHANGED <<consent, text>>

Next == \/ Register \/ Amend \/ FixConsent
        \/ Edit \/ Agree \/ SendBack \/ Publish

Spec == Init /\ [][Next]_vars
=============================================================================
