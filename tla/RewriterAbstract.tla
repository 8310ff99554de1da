--------------------------- MODULE RewriterAbstract ---------------------------
(***************************************************************************)
(* What a run of src/scripts/namefsck.py promises, one file at a time.     *)
(* A visit of a reached file replaces its content by Rewrite(content) in  *)
(* one step, or, if the file had something to rewrite, leaves it empty and *)
(* ends the run.  A read error ends the run with nothing changed; the run *)
(* may also end normally.                                                  *)
(***************************************************************************)
EXTENDS RewriteText

CONSTANTS
  Files,     \* the files of the tree
  Targets,   \* the files the walk reaches
  MaxStmts   \* bound on the statements of a file

VARIABLES
  adisk,  \* Files -> text on disk
  apc     \* "running", "done" or "failed"

avars == <<adisk, apc>>

Init ==
  /\ adisk \in [Files -> BoundedSeq(SourceStmt, MaxStmts)]
  /\ apc = "running"

\* A visit that completes: the file now holds the rewrite of what it held.
RewriteFile(f) ==
  /\ apc = "running"
  /\ adisk' = [adisk EXCEPT ![f] = Rewrite(adisk[f])]
  /\ UNCHANGED apc

\* A visit that fails between truncating the file and writing it back.
\* Only a file with something to rewrite is ever opened for writing.
EmptyFile(f) ==
  /\ apc = "running"
  /\ FindAll(adisk[f]) # <<>>
  /\ adisk' = [adisk EXCEPT ![f] = <<>>]
  /\ apc' = "failed"

\* A read or decode error: the run ends and no file changes.
Fail ==
  /\ apc = "running"
  /\ apc' = "failed"
  /\ UNCHANGED adisk

Finish ==
  /\ apc = "running"
  /\ apc' = "done"
  /\ UNCHANGED adisk

Next ==
  \/ \E f \in Targets : RewriteFile(f) \/ EmptyFile(f)
  \/ Fail
  \/ Finish

Spec == Init /\ [][Next]_avars
=============================================================================
