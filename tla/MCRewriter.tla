----------------------------- MODULE MCRewriter -----------------------------
(* Model of the rewriter over a tree of four names and two files:          *)
(* p1 -> f1 and p2 -> f2 are headers, p3 is a second header name (a        *)
(* symlink) for f1, and p4 names f2 with an extension the walk skips.     *)
EXTENDS Rewriter

CONSTANTS QWidget, QFoo, p1, p2, p3, p4, f1, f2

MCResolve == (p1 :> f1) @@ (p2 :> f2) @@ (p3 :> f1) @@ (p4 :> f2)

MCIsSource == (p1 :> TRUE) @@ (p2 :> TRUE) @@ (p3 :> TRUE) @@ (p4 :> FALSE)

\* Initial file sizes: the symlinked file f1, visited twice, holds up to
\* three statements; f2, visited once, up to two.
MCMaxStmtsOf == (f1 :> 3) @@ (f2 :> 2)

MCTwoStmts == (f1 :> 2) @@ (f2 :> 2)

\* A tree of two header names: p2 -> f2, and p3, a symlink whose target f1
\* lies outside the current directory.
MCResolveEscape == (p2 :> f2) @@ (p3 :> f1)

MCIsSourceEscape == (p2 :> TRUE) @@ (p3 :> TRUE)
=============================================================================
