----------------------------- MODULE RewriteText -----------------------------
(***************************************************************************)
(* The text operations of src/scripts/namefsck.py: the regex built from   *)
(* classlist (line 869), regex.findall (line 881) and str.replace (line   *)
(* 884), over text abstracted to one statement per line.  A statement is  *)
(* a forward declaration `pre key mac cls;` whose prefix pre is nothing, *)
(* `friend` or one of several `template <...>` headers (distinct texts)   *)
(* and whose mac is nothing or an                                         *)
(* export macro, an include directive, or the                             *)
(* mangled text `pre #include <cls>` that str.replace leaves when it      *)
(* rewrites a match found inside a longer statement.                      *)
(***************************************************************************)
EXTENDS Integers, Sequences, SequencesExt

CONSTANTS
  ClassList,      \* classlist: the allow-list of framework classes
  OtherClasses,   \* class names that are not in the allow-list
  Keys,           \* subset of {"class", "struct"}
  TemplateHeaders, \* distinct texts of `template <...>` headers
  DeclPrefixes,   \* subset of {"none", "friend"} \cup TemplateHeaders
  ExportMacros    \* export macros a declaration may carry before the name

ASSUME RewriteTextAssumption ==
  /\ ClassList # {} /\ ClassList \cap OtherClasses = {}
  /\ Keys \subseteq {"class", "struct"} /\ Keys # {}
  /\ TemplateHeaders \cap {"none", "friend"} = {}
  /\ DeclPrefixes \subseteq {"none", "friend"} \cup TemplateHeaders /\ "none" \in DeclPrefixes
  /\ "none" \notin ExportMacros

Classes == ClassList \cup OtherClasses

IsTemplate(pre) == pre \in TemplateHeaders

Fwd(pre, key, mac, cls) == [kind |-> "fwd", pre |-> pre, key |-> key, mac |-> mac, cls |-> cls]
Include(cls)       == [kind |-> "include", pre |-> "none", key |-> "none", mac |-> "none", cls |-> cls]
Mangled(pre, cls)  == [kind |-> "mangled", pre |-> pre, key |-> "none", mac |-> "none", cls |-> cls]

\* Statements a file can hold before the script runs.
SourceStmt ==
  {Fwd(p, k, m, c) : p \in DeclPrefixes, k \in Keys, m \in {"none"} \cup ExportMacros,
                     c \in Classes} \cup
  {Include(c) : c \in Classes}

Stmt == SourceStmt \cup {Mangled(p, c) : p \in DeclPrefixes \ {"none"}, c \in Classes}

(***************************************************************************)
(* regex: "class" or "struct" or "template" and any text, a space, one of *)
(* the allow-listed names and ";".                                         *)
(* A match is the text the regex captures.  At a `template` statement the *)
(* leftmost match starts at `template`, so it is the whole statement.  At *)
(* a `friend` statement nothing matches at `friend` and the scan moves on *)
(* to `class`, so the match is the bare `key cls;`: the pattern has no    *)
(* word boundary before class/struct.  A macro between key and name     *)
(* hides the statement from `class` and `struct`, which must be followed *)
(* by one space and the name, but not from the greedy `template.*`.        *)
(***************************************************************************)
HasMatch(s) ==
  /\ s.kind = "fwd" /\ s.cls \in ClassList
  /\ s.mac = "none" \/ IsTemplate(s.pre)

\* Mutant: the pattern lacks the template alternative, so the match at a
\* template statement is only its `key cls;` tail.
MatchOf_BareKey(s) == [pre |-> "none", key |-> s.key, mac |-> "none", cls |-> s.cls]

MatchOf(s) ==
  IF IsTemplate(s.pre) THEN [pre |-> s.pre, key |-> s.key, mac |-> s.mac, cls |-> s.cls]
                      ELSE [pre |-> "none", key |-> s.key, mac |-> "none", cls |-> s.cls]

\* Mutant: regex.search instead of findall, only the first match.
FindAll_FirstOnly(c) ==
  LET hits == SelectSeq(c, HasMatch)
  IN IF hits = <<>> THEN <<>> ELSE <<MatchOf(hits[1])>>

\* regex.findall(cppcontent): the matches in text order.
FindAll(c) ==
  LET hits == SelectSeq(c, HasMatch)
  IN [i \in DOMAIN hits |-> MatchOf(hits[i])]

\* The text of match m occurs inside statement s: `key cls;` occurs in every
\* forward declaration of cls with that key and no macro, whatever its
\* prefix; a template match only in statements with the same header text.
Occurs(m, s) ==
  /\ s.kind = "fwd" /\ s.key = m.key /\ s.cls = m.cls /\ s.mac = m.mac
  /\ (m.pre = "none" \/ s.pre = m.pre)

\* Mutant: every occurrence is taken for an exact match.
ReplaceStmt_AlwaysMangles(m, s) ==
  IF ~Occurs(m, s) THEN s ELSE Mangled(s.pre, s.cls)

\* One statement after str.replace(match, '#include <cls>').
ReplaceStmt(m, s) ==
  IF ~Occurs(m, s) THEN s
  ELSE IF s.pre = m.pre THEN Include(s.cls)
  ELSE Mangled(s.pre, s.cls)

\* cppcontent.replace(match, ...): every occurrence, not only the match.
Replace(c, m) == [i \in DOMAIN c |-> ReplaceStmt(m, c[i])]

\* The script's loop over the matches of one file (lines 881-884), applied
\* to a buffer: each match in turn is replaced everywhere in the text that
\* the earlier replacements left.
RECURSIVE ReplaceEach(_, _)
ReplaceEach(c, ms) ==
  IF ms = <<>> THEN c ELSE ReplaceEach(Replace(c, Head(ms)), Tail(ms))

\* What one visit of the script does to a file's text.
Rewrite(c) == ReplaceEach(c, FindAll(c))

\* What the spec (sections 4.2, 8 and 9) says the rewriter does to a file:
\* each allow-listed forward declaration becomes an include of that class
\* and nothing else changes.  A friend declaration is not a forward
\* declaration that an include can stand for, so it is left as it is.
Intended(s) == IF HasMatch(s) /\ s.pre # "friend" THEN Include(s.cls) ELSE s

IntendedText(c) == [i \in DOMAIN c |-> Intended(c[i])]

(***************************************************************************)
(* When the script's rewrite is the intended one.  An allow-listed friend  *)
(* declaration is always changed: its `key cls;` tail is replaced inside   *)
(* it.  A template declaration is broken when a plain or friend           *)
(* declaration of the same key and class comes before it and no template  *)
(* declaration with the very same header text comes before that one: the  *)
(* bare match is applied first and rewrites the tail of every template    *)
(* line, whereas a template match replaces every line with its own header *)
(* text, and only those.                                                   *)
(***************************************************************************)
SameDecl(s, t) == s.key = t.key /\ s.mac = t.mac /\ s.cls = t.cls

SafeOrder(c) ==
  /\ \A i \in DOMAIN c : ~(HasMatch(c[i]) /\ c[i].pre = "friend")
  /\ \A i, j \in DOMAIN c :
       /\ i < j /\ HasMatch(c[i]) /\ HasMatch(c[j]) /\ SameDecl(c[i], c[j])
       /\ ~IsTemplate(c[i].pre) /\ IsTemplate(c[j].pre)
       => \E k \in 1..(i - 1) : c[k] = c[j]
=============================================================================
