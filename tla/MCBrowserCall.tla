---------------------------- MODULE MCBrowserCall ----------------------------
(* Small instances of BrowserCall.  Browsers and call ids are symmetric in   *)
(* the runs that check safety only.                                          *)
EXTENDS BrowserCall

Symmetry == Permutations(Browser) \union Permutations(CallId)

=============================================================================
