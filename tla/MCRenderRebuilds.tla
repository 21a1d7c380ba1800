-------------------------- MODULE MCRenderRebuilds --------------------------
(* One administrator, one reader and the worker on one page.  The safety     *)
(* properties are proved for any number of each in RenderRebuildsProofs.     *)
EXTENDS RenderRebuilds
=============================================================================
