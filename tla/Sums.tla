--------------------------------- MODULE Sums ---------------------------------
(***************************************************************************)
(* Sums of integers indexed by the elements of a finite set.               *)
(***************************************************************************)
EXTENDS Integers, FiniteSetsExt

\* The sum of f[x] over the elements x of S.
SumOver(f, S) == MapThenSumSet(LAMBDA x : f[x], S)

\* The sum of a function's values.
SumOf(f) == SumOver(f, DOMAIN f)
=============================================================================
