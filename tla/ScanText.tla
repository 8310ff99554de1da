------------------------------ MODULE ScanText ------------------------------
(***************************************************************************)
(* The regex of src/scripts/genmap.py line 41 over a declaration          *)
(* `key m1 .. mk name`: a keyword, the macro tokens after it, the name.   *)
(***************************************************************************)
EXTENDS Integers, Sequences

CONSTANTS
  Components,   \* keys of the components dict
  Keywords,     \* Components -> SUBSET Macros: the dict's alternation
  Macros        \* macro tokens: export keywords and other annotations

ASSUME ScanTextAssumption == Keywords \in [Components -> SUBSET Macros]

(***************************************************************************)
(* re.findall('(?:class|struct) (?:KW) (\w+)'): after `class` or `struct`  *)
(* comes exactly one of the component's keywords, and the capture is the  *)
(* next token, which is the class name only if no other macro follows.    *)
(***************************************************************************)
Matches(c, d) ==
  /\ d.key \in {"class", "struct"}
  /\ Len(d.macros) >= 1
  /\ d.macros[1] \in Keywords[c]

Captured(d) == IF Len(d.macros) >= 2 THEN d.macros[2] ELSE d.name
====
