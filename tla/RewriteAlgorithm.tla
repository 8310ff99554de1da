--------------------------- MODULE RewriteAlgorithm ---------------------------
(***************************************************************************)
(* The per-file rewrite of src/scripts/namefsck.py (lines 879-885) as a    *)
(* pure function, checked over every text of at most MaxLen statements:   *)
(* one visit takes a source text to Rewrite(source).                       *)
(***************************************************************************)
EXTENDS RewriteText

CONSTANT MaxLen   \* bound on the statements of a text

VARIABLES
  source,  \* the text as the script reads it
  text,    \* the text on disk
  stage    \* "source" before the visit, "rewritten" after it

vars == <<source, text, stage>>

Init ==
  /\ source \in BoundedSeq(SourceStmt, MaxLen)
  /\ text = source
  /\ stage = "source"

\* One visit of the file: read, findall, and the loop of replace-and-write.
RewriteOnce ==
  /\ stage = "source"
  /\ text' = Rewrite(text)
  /\ stage' = "rewritten"
  /\ UNCHANGED source

Done ==
  /\ stage = "rewritten"
  /\ UNCHANGED vars

Next == RewriteOnce \/ Done

Spec == Init /\ [][Next]_vars

\* The script does what spec sections 8 and 9 say (every allow-listed
\* forward declaration becomes its include, nothing else changes) exactly
\* for the texts in SafeOrder: no allow-listed friend declaration (which
\* should stay as it is), and no template declaration after a plain one of
\* the same class unless a declaration with the very same template header
\* text comes before the plain one.
RewriteIsIntendedIffSafeOrder ==
  stage = "rewritten" => (text = IntendedText(source) <=> SafeOrder(source))

\* Running the script again over its own output (or visiting a file a
\* second time through a symlink) changes nothing: one visit leaves no
\* statement the regex matches.
RewriteIdempotent ==
  stage = "rewritten" => Rewrite(text) = text
=============================================================================
