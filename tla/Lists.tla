-------------------------------- MODULE Lists --------------------------------
(***************************************************************************)
(* What the loops over slices compute: an append loop and a running sum.   *)
(* They are recursive functions, as the loops are, so that their results   *)
(* can be proved.                                                          *)
(***************************************************************************)
EXTENDS Integers, Sequences

\* The items with the chosen indices, appended one after the other.
Chosen(items, chosen) ==
  LET taken[k \in 0 .. Len(items)] ==
        IF k = 0 THEN <<>>
        ELSE IF k \in chosen THEN Append(taken[k - 1], items[k])
        ELSE taken[k - 1]
  IN  taken[Len(items)]

\* The sum of f[1], f[2], and so on until f[n].
Total(f, n) ==
  LET sum[k \in 0 .. n] == IF k = 0 THEN 0 ELSE sum[k - 1] + f[k]
  IN  sum[n]
=============================================================================
