--------------------------- MODULE MCBrowserPool ---------------------------
(* BrowserPool on a few calls of fetch_page. *)
EXTENDS BrowserPool, TLC

MCSymmetry == Permutations(Fetches)
=============================================================================
