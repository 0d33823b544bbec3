---------------------------- MODULE MCS5Convert -----------------------------
(* Two callers of S5Convert, with three fillings that tell the place.      *)
EXTENDS ConvertCallers

MCFillings == {[i \in 1..Room |-> (seed + 3 * i) % CharMod] : seed \in {0, 2, 5}}
=============================================================================
