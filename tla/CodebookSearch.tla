---------------------------- MODULE CodebookSearch ---------------------------
(***************************************************************************)
(* The search of the fixed codebook (split_cb_search_shape_sign in         *)
(* jni/cb_search.c with vq_nbest and vq_nbest_sign in jni/vq.c): a         *)
(* subframe is a row of subvectors, and for each the N best continuations  *)
(* of the N best beginnings are kept.  With N = 1 the code runs a copy     *)
(* without lists, split_cb_search_shape_sign_N1, that takes the same       *)
(* steps.                                                                  *)
(*                                                                         *)
(* A target is known by the codewords that were taken out of it and by     *)
(* what was measured on the way; what the filters measure next, the        *)
(* correlation with each codeword and the energy, is an input.             *)
(***************************************************************************)
EXTENDS Integers, Sequences, FiniteSetsExt

CONSTANTS Complexities,   \* values of SPEEX_SET_COMPLEXITY (1 in the application)
          Subvectors,     \* nb_subvect
          CodeEnergy,     \* half the energy of each codeword: E[i] >> 1
          Corrs,          \* correlations of a target with a codeword
          TargetEnergies, \* tener
          VERY_LARGE32

CbSize == Len(CodeEnergy)

\* The list that erases the last one: distance, index, and the target it extends.
Erased(n) == [k \in 1 .. n |-> [err |-> VERY_LARGE32, nind |-> 0, ntarget |-> 1]]

\* N as split_cb_search_shape_sign computes it.
NOf(complexity) ==
  LET n == (2 * (IF complexity > 10 THEN 10 ELSE complexity)) \div 3
  IN IF n < 1 THEN 1 ELSE n

ASSUME CodebookSearchAssumption ==
  /\ Complexities \subseteq Nat /\ Subvectors \in Nat
  /\ CodeEnergy \in Seq(Nat) /\ \A c \in Complexities : NOf(c) <= CbSize
  /\ Corrs \subseteq Int /\ TargetEnergies \subseteq Nat /\ VERY_LARGE32 \in Nat

VARIABLES have_sign,
          old,        \* the beginnings kept: [target, oind, odist]
          list,       \* continuations found for this subvector: [err, nind, ntarget]
          measured,   \* for each beginning tried, what was measured: [corr, tener]
          done        \* subvectors that are done

kvars == <<have_sign, old, list, measured, done>>

N == Len(old)
FirstTargets(n) == [k \in 1 .. n |-> [target |-> <<>>, true |-> 0, oind |-> <<>>, odist |-> 0]]

SearchInit ==
  /\ have_sign \in BOOLEAN
  /\ \E c \in Complexities : old = FirstTargets(NOf(c)) /\ list = Erased(NOf(c))
  /\ measured = <<>> /\ done = 0

\* Distance of codeword c; with a sign the better of the codeword and its negative.
Dist(corr, c) ==
  CodeEnergy[c] - (IF have_sign /\ corr[c] < 0 THEN -corr[c] ELSE corr[c])

\* The index carries the sign: a correlation that is not positive takes the negative.
Index(corr, c) == IF have_sign /\ corr[c] <= 0 THEN c - 1 + CbSize ELSE c - 1

\* The list of n entries with x behind the first k of l.
Inserted(l, x, k, n) == SubSeq(l, 1, k) \o <<x>> \o SubSeq(l, k + 1, n - 1)

\* One codeword in vq_nbest: the list has `used` entries, at most N.
Scan(best, x) ==
  LET used == Len(best)
      stops == {k \in 0 .. N - 1 : k <= used /\ (k = 0 \/ x.dist >= best[k].dist)}
  IN IF used < N \/ x.dist < best[N].dist
     THEN Inserted(best, x, Max(stops), IF used < N THEN used + 1 ELSE N)
     ELSE best

vq_nbest(corr) ==
  LET scanned[c \in 0 .. CbSize] ==
        IF c = 0 THEN <<>>
        ELSE Scan(scanned[c - 1], [dist |-> Dist(corr, c), index |-> Index(corr, c)])
  IN scanned[CbSize]

\* The distance over all subvectors so far.
Total(j, dist, tener) == old[j].odist + dist + tener

\* Mutant: a better continuation overwrites the one at its place.
MergeOverwrites(l, x) ==
  IF x.err < l[N].err THEN [l EXCEPT ![Min({k \in 1 .. N : x.err < l[k].err})] = x] ELSE l

\* One continuation in the list over all beginnings.
Merge(l, x) ==
  LET worse == {k \in 1 .. N : x.err < l[k].err}
  IN IF x.err < l[N].err THEN Inserted(l, x, Min(worse) - 1, N) ELSE l

\* The continuations of the next beginning.
TryBeginning(corr, tener) ==
  LET j == Len(measured) + 1
      best == vq_nbest(corr)
      found == [k \in 1 .. N |-> [err |-> Total(j, best[k].dist, tener),
                                  nind |-> best[k].index, ntarget |-> j]]
      merged[k \in 0 .. N] == IF k = 0 THEN list ELSE Merge(merged[k - 1], found[k])
  IN /\ done < Subvectors
     /\ j <= IF done = 0 THEN 1 ELSE N   \* at first all beginnings are the same
     /\ measured' = Append(measured, [corr |-> corr, tener |-> tener])
     /\ list' = merged[N]
     /\ UNCHANGED <<have_sign, old, done>>

\* The codeword of an index: its number and whether it is negated.
Codeword(index) ==
  IF index >= CbSize THEN [c |-> index - CbSize + 1, neg |-> TRUE]
                     ELSE [c |-> index + 1, neg |-> FALSE]

\* Mutant: the indices of a beginning are those at its own place in the list.
ExtendedInPlace(x, j) == Append(old[j].oind, x.nind)

\* The indices of the beginning that is extended.
Extended(x, j) == Append(old[x.ntarget].oind, x.nind)

\* What codeword w really adds to the distance of beginning t.
Measured(t, w) ==
  LET corr == measured[t].corr[w.c]
  IN CodeEnergy[w.c] - (IF w.neg THEN -corr ELSE corr) + measured[t].tener

\* All beginnings were tried: the kept ones become the new beginnings.
NextSubvector ==
  /\ done < Subvectors
  /\ Len(measured) = IF done = 0 THEN 1 ELSE N
  /\ old' = [j \in 1 .. N |->
       LET x == list[j]
           w == Codeword(x.nind)
       IN [target |-> Append(old[x.ntarget].target, w),
           true |-> old[x.ntarget].true + Measured(x.ntarget, w),
           oind |-> Extended(x, j),
           odist |-> x.err]]
  /\ list' = Erased(N) /\ measured' = <<>> /\ done' = done + 1
  /\ UNCHANGED have_sign

\* The indices of the best path are packed; the next subframe begins.
SaveIndices ==
  /\ done = Subvectors
  /\ old' = FirstTargets(N) /\ done' = 0
  /\ UNCHANGED <<have_sign, list, measured>>

SearchNext ==
  \/ \E corr \in [1 .. CbSize -> Corrs], tener \in TargetEnergies : TryBeginning(corr, tener)
  \/ NextSubvector
  \/ SaveIndices

SearchSpec == SearchInit /\ [][SearchNext]_kvars

-----------------------------------------------------------------------------
(* Properties                                                               *)

\* The indices kept with a target are those of the codewords that were taken
\* out of it, sign included, and the distance kept with it is what was measured
\* along that path: the bits that are packed describe the excitation that the
\* encoder goes on with, although the lists change places in every step
\* (cb_search.c, "just swap pointers instead of a long copy").
IndicesFollowTarget ==
  \A j \in 1 .. N :
    /\ [k \in 1 .. done |-> Codeword(old[j].oind[k])] = old[j].target
    /\ old[j].odist = old[j].true

\* When every beginning was tried, the list holds different continuations in
\* order, and none of those left out, of any beginning, has a smaller distance:
\* neither list has lost a good one (vq_nbest, split_cb_search_shape_sign).
ContinuationsAreBest ==
  Len(measured) = (IF done = 0 THEN 1 ELSE N) =>
    LET all == {[ntarget |-> j, c |-> c] : j \in DOMAIN measured, c \in 1 .. CbSize}
        kept == {[ntarget |-> list[k].ntarget, c |-> Codeword(list[k].nind).c] : k \in 1 .. N}
        Err(x) == old[x.ntarget].odist + Dist(measured[x.ntarget].corr, x.c)
                    + measured[x.ntarget].tener
    IN /\ Cardinality(kept) = N /\ kept \subseteq all
       /\ \A k \in 1 .. N - 1 : list[k].err <= list[k + 1].err
       /\ \A x \in all \ kept : Err(x) >= list[N].err
=============================================================================
