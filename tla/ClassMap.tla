------------------------------ MODULE ClassMap ------------------------------
(***************************************************************************)
(* The exported-class scanner, src/scripts/genmap.py.                      *)
(*                                                                         *)
(* For each entry of the components dict (in dict order, which Python 2,  *)
(* named by the shebang, does not fix) exportscan walks src/<component>,   *)
(* reads every file whose name ends in .h, decodes it as UTF-8 and appends *)
(* one table row per regex match to a per-component string, bumping the   *)
(* global classcount (initially -1).  The rows are appended to mapdata,   *)
(* and at the end the map, with classcount, is written to                  *)
(* src/shared/qclass_lib_map.h.                                            *)
(*                                                                         *)
(* A header is a sequence of declarations `key m1 m2 ... name`: a keyword, *)
(* the macro tokens that follow it and a class name.                       *)
(***************************************************************************)
EXTENDS ScanText, Integers, Sequences, SequencesExt, FiniteSets

CONSTANTS
  Names,        \* class names
  DeclKeys,     \* keywords a declaration may start with
  SrcFiles,     \* files under the component directories
  CompOf,       \* SrcFiles -> Components
  DirOf,        \* SrcFiles -> directory relative to the component, or Root
  BaseOf,       \* SrcFiles -> file name
  IsHeader,     \* SrcFiles -> BOOLEAN: the name ends in .h
  Root,         \* the component directory itself
  MaxDecls,     \* bound on declarations per header
  MaxMacros,    \* bound on macro tokens per declaration
  Label         \* Components -> 'Qt%s' % component.capitalize() (line 48)

ASSUME ClassMapAssumption ==
  /\ Names \cap Macros = {}
  /\ {"class", "struct"} \cap DeclKeys # {}
  /\ CompOf \in [SrcFiles -> Components]
  /\ IsHeader \in [SrcFiles -> BOOLEAN]
  /\ Root \in Range(DirOf)
  /\ MaxDecls \in Nat /\ MaxMacros \in Nat
  /\ Label \in [Components -> STRING]

Decl == [key : DeclKeys, macros : BoundedSeq(Macros, MaxMacros), name : Names]

Headers == {f \in SrcFiles : IsHeader[f]}

FilesOf(c) == {f \in SrcFiles : CompOf[f] = c}

(***************************************************************************)
(* os.walk(src/<c>) is top-down: the component directory's files come     *)
(* first; each directory's files are listed together, in no fixed order.  *)
(***************************************************************************)
WalkOrders(c) ==
  { s \in SetToSeqs(FilesOf(c)) :
      /\ \A i, j \in DOMAIN s : i < j /\ DirOf[s[j]] = Root => DirOf[s[i]] = Root
      /\ \A i, j, k \in DOMAIN s :
           i < j /\ j < k /\ DirOf[s[i]] = DirOf[s[k]] => DirOf[s[j]] = DirOf[s[i]] }

\* Row '{ "%s", "%s/%s"}' % (match, component, sfile), where component is
\* the label exportscan was called with: the label and the bare file name.
Row(c, f, d) == [name |-> Captured(d), comp |-> Label[c], file |-> <<BaseOf[f]>>]

\* The rows exportscan adds for one header, in text order.
ScanRows(c, f, text) ==
  LET hits == SelectSeq(text, LAMBDA d : Matches(c, d))
  IN [i \in DOMAIN hits |-> Row(c, f, hits[i])]

Old == [kind |-> "old", table |-> <<>>, count |-> 0]
Empty == [kind |-> "empty", table |-> <<>>, count |-> 0]

-----------------------------------------------------------------------------
VARIABLES
  pending,      \* components the top-level loop has not started
  component,    \* the component exportscan is scanning
  files,        \* the files os.walk still has to yield for it
  dirmap,       \* rows found in the current component
  mapdata,      \* rows of the finished components
  classcount,   \* the global counter
  out,          \* qclass_lib_map.h: the old map, a generated one, or empty
  pc,           \* "components", "scan", "done" or "failed"
  content,      \* SrcFiles -> Seq(Decl): the headers' text
  undecodable,  \* headers whose text is not valid UTF-8
  unlistable    \* components whose directory os.walk cannot list

vars == <<pending, component, files, dirmap, mapdata, classcount, out, pc,
          content, undecodable, unlistable>>

Init ==
  /\ content \in [SrcFiles -> BoundedSeq(Decl, MaxDecls)]
  /\ \A f \in SrcFiles \ Headers : content[f] = <<>>
  /\ undecodable \in SUBSET Headers
  /\ unlistable \in SUBSET Components
  /\ pending = Components
  /\ component = CHOOSE c \in Components : TRUE
  /\ files = <<>>
  /\ dirmap = <<>>
  /\ mapdata = <<>>
  /\ classcount = -1
  /\ out = Old
  /\ pc = "components"

\* Lines 46-48 and the os.walk of line 33: start exportscan on the next
\* component.  os.walk reports a directory it cannot list to its onerror
\* hook, which genmap leaves unset, and yields nothing.
StartComponent ==
  /\ pc = "components"
  /\ \E c \in pending :
       /\ component' = c
       /\ pending' = pending \ {c}
       /\ IF c \in unlistable THEN files' = <<>> ELSE files' \in WalkOrders(c)
  /\ pc' = "scan"
  /\ UNCHANGED <<dirmap, mapdata, classcount, out, content, undecodable, unlistable>>

\* Lines 34-43 for one file: skip non-headers; read and decode (an error
\* propagates and ends the run before anything is written); append a row
\* and count one class per match.
ScanFile ==
  /\ pc = "scan"
  /\ files # <<>>
  /\ LET f == Head(files)
         rows == ScanRows(component, f, content[f])
     IN \/ /\ ~IsHeader[f]
           /\ UNCHANGED <<dirmap, classcount, pc>>
        \/ /\ IsHeader[f] /\ f \in undecodable
           /\ pc' = "failed"
           /\ UNCHANGED <<dirmap, classcount>>
        \/ /\ IsHeader[f] /\ f \notin undecodable
           /\ dirmap' = dirmap \o rows
           /\ classcount' = classcount + Len(rows)
           /\ UNCHANGED pc
  /\ files' = Tail(files)
  /\ UNCHANGED <<pending, component, mapdata, out, content, undecodable, unlistable>>

\* Mutant: the component's rows are appended as one element.
EndComponent_Appends ==
  /\ pc = "scan"
  /\ files = <<>>
  /\ mapdata' = Append(mapdata, dirmap)
  /\ dirmap' = <<>>
  /\ pc' = "components"
  /\ UNCHANGED <<pending, component, files, classcount, out, content, undecodable, unlistable>>

\* Mutant: the per-component accumulator is not reset.
EndComponent_KeepsDirmap ==
  /\ pc = "scan"
  /\ files = <<>>
  /\ mapdata' = mapdata \o dirmap
  /\ pc' = "components"
  /\ UNCHANGED <<pending, component, files, dirmap, classcount, out, content, undecodable, unlistable>>

\* Line 44 and the += of line 48: exportscan returns its rows.
EndComponent ==
  /\ pc = "scan"
  /\ files = <<>>
  /\ mapdata' = mapdata \o dirmap
  /\ dirmap' = <<>>
  /\ pc' = "components"
  /\ UNCHANGED <<pending, component, files, classcount, out, content, undecodable, unlistable>>

\* Lines 50-59: open(mapoutput, 'wb') truncates the file, then the
\* progress line is written to stdout and then the map.  The open can fail
\* (src/shared missing), leaving the old map; stdout can fail after the
\* truncation, leaving an empty file.
WriteOutput ==
  /\ pc = "components"
  /\ pending = {}
  /\ \/ /\ out' = [kind |-> "generated", table |-> mapdata, count |-> classcount]
        /\ pc' = "done"
     \/ /\ out' = Empty
        /\ pc' = "failed"
     \/ /\ UNCHANGED out
        /\ pc' = "failed"
  /\ UNCHANGED <<pending, component, files, dirmap, mapdata, classcount,
                 content, undecodable, unlistable>>

\* The interpreter has exited.
Terminated ==
  /\ pc \in {"done", "failed"}
  /\ UNCHANGED vars

Next == StartComponent \/ ScanFile \/ EndComponent \/ WriteOutput \/ Terminated

\* A single sequential process.
Spec == Init /\ [][Next]_vars /\ WF_vars(Next)

-----------------------------------------------------------------------------
Row0 == [name : Names \cup Macros, comp : Range(Label), file : {<<b>> : b \in Range(BaseOf)}]

TypeOK ==
  /\ pending \subseteq Components
  /\ component \in Components
  /\ files \in Seq(SrcFiles)
  /\ dirmap \in Seq(Row0)
  /\ mapdata \in Seq(Row0)
  /\ classcount \in Int
  /\ out \in {Old, Empty} \cup [kind : {"generated"}, table : Seq(Row0), count : Int]
  /\ pc \in {"components", "scan", "done", "failed"}

\* Reference for the rows: one per (header, matching declaration) of every
\* component os.walk can list, independent of any traversal order.
Occurrences ==
  { <<f, i>> \in (Headers \ {g \in SrcFiles : CompOf[g] \in unlistable}) \X (1..MaxDecls) :
      i \in DOMAIN content[f] /\ Matches(CompOf[f], content[f][i]) }

RefBag ==
  LET rowOf(o) == Row(CompOf[o[1]], o[1], content[o[1]][o[2]])
  IN [r \in {rowOf(o) : o \in Occurrences} |->
        Cardinality({o \in Occurrences : rowOf(o) = r})]

\* Whatever the dict order and the os.walk order, a generated map holds
\* exactly one row per matching declaration of the tree (as a multiset),
\* and its qclass_lib_count is the number of rows minus one (the legacy
\* convention of classcount = -1, spec section 4.1), which is -1 for an
\* empty tree.
OutputMatchesTree ==
  out.kind = "generated" =>
    /\ ToBag(out.table) = RefBag
    /\ out.count = Len(out.table) - 1

\* Spec 4.1: a row's path is the header's path relative to its component,
\* so every header with a matching declaration has a row naming that path.
RelPath(f) == IF DirOf[f] = Root THEN <<BaseOf[f]>> ELSE <<DirOf[f], BaseOf[f]>>

EntryPathIsRelative ==
  out.kind = "generated" =>
    \A o \in Occurrences :
      \E k \in DOMAIN out.table :
        out.table[k].comp = Label[CompOf[o[1]]] /\ out.table[k].file = RelPath(o[1])

\* Spec 4.1: the name in a row is the identifier that follows the export
\* keyword(s), i.e. a class name, never another macro.
EntryNamesAreClasses ==
  out.kind = "generated" => \A k \in DOMAIN out.table : out.table[k].name \in Names

\* Spec 7: an unreadable component directory is fatal, so no map is
\* generated from a tree where one could not be listed.
UnlistableDirAborts ==
  out.kind = "generated" => unlistable = {}
=============================================================================
