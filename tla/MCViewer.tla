------------------------------ MODULE MCViewer ------------------------------
(* One account and two sources, of which a window keeps one row each.      *)
EXTENDS Viewer
=============================================================================
