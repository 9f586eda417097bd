--------------------------- MODULE MCBrowserTabs ---------------------------
(* Two tabs of one browser. *)
EXTENDS BrowserTabs, TLC

TabsAlike == Permutations(Tab)
=============================================================================
