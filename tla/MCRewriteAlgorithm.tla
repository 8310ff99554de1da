-------------------------- MODULE MCRewriteAlgorithm --------------------------
(* The per-file rewrite over texts of up to four statements that mention  *)
(* two allow-listed classes and one other class, with two different       *)
(* template headers and one export macro.                                 *)
EXTENDS RewriteAlgorithm

CONSTANTS QWidget, QEvent, QFoo
=============================================================================
