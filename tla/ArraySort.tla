----------------------------- MODULE ArraySort -----------------------------
(***************************************************************************)
(* Array.prototype.sort as the engine of the site runs it on a list of     *)
(* fewer than 32 elements: the leading run is taken as it is (reversed     *)
(* when it descends) and the others are inserted by binary search.  For a  *)
(* comparison that is no order the result depends on where elements stood. *)
(* The elements are given by their places 1..n; cmp[<<i, j>>] < 0 puts the *)
(* one at i before the one at j.                                           *)
(***************************************************************************)
EXTENDS Integers, Sequences, SequencesExt

LeadingRun(cmp, n) ==
    LET descends == n > 1 /\ cmp[<<2, 1>>] < 0
        runs == {k \in 1..n : \A i \in 2..k : descends <=> cmp[<<i, i - 1>>] < 0}
        run == [i \in 1..(CHOOSE k \in runs : \A j \in runs : j <= k) |-> i]
    IN  IF descends THEN Reverse(run) ELSE run

(* Half of the window is left: of the places in it, those before or behind *)
(* the middle one.                                                         *)
Halved(cmp, sorted, pivot, window) ==
    LET mid == (window[1] + window[2]) \div 2
        before == cmp[<<pivot, sorted[mid + 1]>>] < 0
    IN  IF window[1] = window[2] THEN window
        ELSE IF before THEN <<window[1], mid>> ELSE <<mid + 1, window[2]>>

(* How many elements of the sorted list stay before the one at pivot.      *)
PlaceOf(cmp, sorted, pivot) ==
    LET window[k \in 0..Len(sorted)] ==
          IF k = 0 THEN <<0, Len(sorted)>> ELSE Halved(cmp, sorted, pivot, window[k - 1])
    IN  window[Len(sorted)][1]

(* The places up to the k-th, sorted.                                      *)
SortedPlaces(cmp, n) ==
    LET start == LeadingRun(cmp, n)
        sorted[k \in 0..n] ==
          IF k = 0 THEN start
          ELSE IF k <= Len(start) THEN sorted[k - 1]
          ELSE InsertAt(sorted[k - 1], PlaceOf(cmp, sorted[k - 1], k) + 1, k)
    IN  IF n = 0 THEN <<>> ELSE sorted[n]

(* The list s sorted by Compare.                                           *)
SortedBy(s, Compare(_, _)) ==
    LET cmp == [p \in (DOMAIN s) \X (DOMAIN s) |-> Compare(s[p[1]], s[p[2]])]
        places == SortedPlaces(cmp, Len(s))
    IN  [k \in DOMAIN s |-> s[places[k]]]
=============================================================================
