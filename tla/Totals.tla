------------------------------- MODULE Totals -------------------------------
(* Sums, as Django's ORM and the loops over queryset rows take them: f[x]  *)
(* added up over the rows x that f is about.                               *)
EXTENDS Integers, FiniteSetsExt

Total(f) == MapThenSumSet(LAMBDA x : f[x], DOMAIN f)

=============================================================================
