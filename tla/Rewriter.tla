------------------------------ MODULE Rewriter ------------------------------
(***************************************************************************)
(* The forward-declaration rewriter, src/scripts/namefsck.py.              *)
(*                                                                         *)
(* The script walks the current directory, keeps the paths whose name     *)
(* ends in .cpp/.cc/.hpp/.h, and for each of them reads the file behind   *)
(* os.path.realpath, runs regex.findall over its text and, once per match, *)
(* reopens the file for writing (truncating it), prints a progress line,  *)
(* applies str.replace(match, '#include <cls>') to the in-memory buffer   *)
(* and writes the whole buffer back.                                       *)
(*                                                                         *)
(* The text operations are those of RewriteText.                          *)
(***************************************************************************)
EXTENDS RewriteText, FiniteSets

CONSTANTS
  Paths,          \* names os.walk yields under the current directory
  Files,          \* the files those names resolve to
  Resolve,        \* os.path.realpath: Paths -> Files (symlinks share a file)
  IsSource,       \* Paths -> BOOLEAN: name ends in .cpp, .cc, .hpp or .h
  MaxStmts,       \* bound on the number of statements in a file
  MaxStmtsOf,     \* Files -> Nat: bound on a file's statements before the run
  NoFile,         \* model value: no file is being processed
  MayBeUndecodable, \* files the model lets be unreadable or not UTF-8
  MayBeReadOnly,  \* files the model lets be readable but not writable
  TreeFiles       \* the files that lie under the current directory

ASSUME RewriterAssumption ==
  /\ Resolve \in [Paths -> Files]
  /\ IsSource \in [Paths -> BOOLEAN]
  /\ MaxStmts \in Nat
  /\ MaxStmtsOf \in [Files -> 0..MaxStmts]
  /\ NoFile \notin Files
  /\ MayBeUndecodable \subseteq Files
  /\ MayBeReadOnly \subseteq Files
  /\ TreeFiles \subseteq Files

Content == BoundedSeq(Stmt, MaxStmts)

-----------------------------------------------------------------------------
VARIABLES
  disk,        \* Files -> Content: what is on the file system
  cppfiles,    \* the paths still to visit, in os.walk order
  cpp,         \* realpath of the file being processed
  cppcontent,  \* its in-memory buffer
  matches,     \* the findall results not yet applied
  pc,          \* "walk", "next", "replace", "done" or "failed"
  undecodable, \* files whose read raises (not valid UTF-8, unreadable)
  readonly,    \* files whose open(cpp, 'w') raises (no write permission)
  orig,        \* history: the disk before the run
  visit        \* history: the text of cpp when this visit read it

vars == <<disk, cppfiles, cpp, cppcontent, matches, pc, undecodable, readonly, orig, visit>>

Init ==
  /\ disk \in [Files -> BoundedSeq(SourceStmt, MaxStmts)]
  /\ \A f \in Files : Len(disk[f]) <= MaxStmtsOf[f]
  /\ undecodable \in SUBSET MayBeUndecodable
  /\ readonly \in SUBSET MayBeReadOnly
  /\ orig = disk
  /\ cppfiles = <<>>
  /\ cpp = NoFile
  /\ cppcontent = <<>>
  /\ matches = <<>>
  /\ pc = "walk"
  /\ visit = <<>>

\* Lines 871-875: collect the source paths; os.walk fixes no order.
Walk ==
  /\ pc = "walk"
  /\ cppfiles' \in SetToSeqs({p \in Paths : IsSource[p]})
  /\ pc' = "next"
  /\ UNCHANGED <<disk, cpp, cppcontent, matches, undecodable, readonly, orig, visit>>

\* Lines 877-881: resolve the next path, read the file, find the matches.
\* A read or decode error propagates and ends the run.
ReadFile ==
  /\ pc = "next"
  /\ cppfiles # <<>>
  /\ LET f == Resolve[Head(cppfiles)]
     IN /\ cpp' = f
        /\ cppfiles' = Tail(cppfiles)
        /\ IF f \in undecodable
             THEN /\ pc' = "failed"
                  /\ UNCHANGED <<cppcontent, matches, visit>>
             ELSE /\ cppcontent' = disk[f]
                  /\ visit' = disk[f]
                  /\ matches' = FindAll(disk[f])
                  /\ pc' = IF FindAll(disk[f]) = <<>> THEN "next" ELSE "replace"
  /\ UNCHANGED <<disk, undecodable, readonly, orig>>

\* The open(cpp, 'w') that raises on a file without write permission.
OpenFails ==
  /\ cpp \in readonly
  /\ pc' = "failed"
  /\ UNCHANGED <<disk, cppcontent, matches>>

\* A print or write that raises after open(cpp, 'w') has truncated the file.
WriteFails ==
  /\ cpp \notin readonly
  /\ disk' = [disk EXCEPT ![cpp] = <<>>]
  /\ pc' = "failed"
  /\ UNCHANGED <<cppcontent, matches>>

\* Mutant: the loop breaks after the first replacement.
ReplaceMatch_StopsAfterFirst ==
  /\ pc = "replace"
  /\ matches # <<>>
  /\ \/ OpenFails
     \/ /\ cpp \notin readonly
        /\ cppcontent' = Replace(cppcontent, Head(matches))
        /\ disk' = [disk EXCEPT ![cpp] = Replace(cppcontent, Head(matches))]
        /\ matches' = <<>>
        /\ pc' = "next"
     \/ WriteFails
  /\ UNCHANGED <<cppfiles, cpp, undecodable, readonly, orig, visit>>

ReplaceMatch_WritesStaleBuffer ==
  /\ pc = "replace"
  /\ matches # <<>>
  /\ \/ OpenFails
     \/ /\ cpp \notin readonly
        /\ cppcontent' = Replace(cppcontent, Head(matches))
        /\ disk' = [disk EXCEPT ![cpp] = cppcontent]
        /\ matches' = Tail(matches)
        /\ pc' = IF Tail(matches) = <<>> THEN "next" ELSE "replace"
     \/ WriteFails
  /\ UNCHANGED <<cppfiles, cpp, undecodable, readonly, orig, visit>>

\* Lines 882-885, one iteration of the match loop.  open(cpp, 'w') raises
\* on a file without write permission (at the first match of its visit,
\* since the permission does not change) and the run ends with the file
\* intact.  Otherwise it truncates the file; if the print or the write then
\* raises (closed stdout, a path the console encoding cannot represent, a
\* full disk) the file stays empty and the run ends.  Otherwise the buffer
\* is rewritten and written back.
ReplaceMatch ==
  /\ pc = "replace"
  /\ matches # <<>>
  /\ \/ OpenFails
     \/ /\ cpp \notin readonly
        /\ cppcontent' = Replace(cppcontent, Head(matches))
        /\ disk' = [disk EXCEPT ![cpp] = Replace(cppcontent, Head(matches))]
        /\ matches' = Tail(matches)
        /\ pc' = IF Tail(matches) = <<>> THEN "next" ELSE "replace"
     \/ WriteFails
  /\ UNCHANGED <<cppfiles, cpp, undecodable, readonly, orig, visit>>

\* The loop over cppfiles runs out and the script exits.
Finish ==
  /\ pc = "next"
  /\ cppfiles = <<>>
  /\ pc' = "done"
  /\ UNCHANGED <<disk, cppfiles, cpp, cppcontent, matches, undecodable, readonly, orig, visit>>

\* The process has exited, normally or with an exception.
Terminated ==
  /\ pc \in {"done", "failed"}
  /\ UNCHANGED vars

Next == Walk \/ ReadFile \/ ReplaceMatch \/ Finish \/ Terminated

\* The script is one sequential process: it takes its next step as long as
\* it has not exited.
Spec == Init /\ [][Next]_vars /\ WF_vars(Next)

-----------------------------------------------------------------------------
TypeOK ==
  /\ disk \in [Files -> Content]
  /\ orig \in [Files -> BoundedSeq(SourceStmt, MaxStmts)]
  /\ cppfiles \in Seq(Paths)
  /\ cpp \in Files \cup {NoFile}
  /\ cppcontent \in Content
  /\ matches \in Seq([pre : {"none"} \cup TemplateHeaders, key : Keys,
                        mac : {"none"} \cup ExportMacros, cls : ClassList])
  /\ pc \in {"walk", "next", "replace", "done", "failed"}
  /\ undecodable \subseteq Files
  /\ readonly \subseteq Files
  /\ visit \in Content

\* The files some walked path resolves to.
Reached == {Resolve[p] : p \in {q \in Paths : IsSource[q]}}

CompletedRunIsOneRewrite ==
  pc = "done" => \A f \in Reached : disk[f] = Rewrite(orig[f])

\* After a normal exit every reached file is the intended rewrite of its
\* original content.
ForwardDeclsBecomeIncludes ==
  pc = "done" =>
    \A f \in Reached : disk[f] = IntendedText(orig[f])

\* The refinement mapping.  While a file's match loop runs, the abstract
\* disk still holds the text the visit read; the visit takes effect at its
\* last write or at the failed print.
AbstractDisk ==
  [f \in Files |-> IF pc = "replace" /\ f = cpp THEN visit ELSE disk[f]]

AbstractPc == IF pc \in {"done", "failed"} THEN pc ELSE "running"

Abstract == INSTANCE RewriterAbstract
              WITH adisk <- AbstractDisk, apc <- AbstractPc, Targets <- Reached

\* The match loop of lines 881-885, one truncate-print-replace-write per
\* match, implements RewriterAbstract: each visit of a reached file either
\* leaves it holding Rewrite of the text the visit read, or empties it and
\* ends the run; no intermediate write is ever left behind on a normal
\* exit, and a symlinked second visit starts from the first visit's result.
RefinesAbstract == Abstract!Spec

\* Spec sections 2 and 6: the rewriter works on the tree under the current
\* directory.  A file outside it keeps its content, even when a source
\* name in the tree is a symlink that os.path.realpath resolves out of it.
RewritesStayInTree ==
  \A f \in Files \ TreeFiles : disk[f] = orig[f]

\* No run leaves a file that had content empty.
NoFileEmptied ==
  \A f \in Files : orig[f] # <<>> => disk[f] # <<>>
=============================================================================
