----------------------------- MODULE MCSessions -----------------------------
(* Two calls at a time, three in all, after the browser's own login or     *)
(* before anyone has registered.  There is one password: what a login with *)
(* a wrong one does, that of a deactivated account does too.               *)
EXTENDS Sessions, TLC

AnyCall == Permutations(Calls)
=============================================================================
