--------------------------- MODULE MCBrowserShell ---------------------------
(***************************************************************************)
(* Instances of BrowserShell for TLC.                                      *)
(***************************************************************************)
EXTENDS BrowserShell

\* Three loads of two tabs, and two loads of three.  Polls change neither
\* number, so what the fairness asks for is not cut off.
FewTabsOrLoads == nextId <= 3 \/ navId <= 2
=============================================================================
