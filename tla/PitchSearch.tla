----------------------------- MODULE PitchSearch -----------------------------
(***************************************************************************)
(* The open-loop pitch search of the voice codec (open_loop_nbest_pitch in *)
(* jni/ltp.c): the list of the periods with the largest correlation^2 /    *)
(* energy.  It is computed in 16-bit integers, which both quantities are   *)
(* scaled down for, and without a division.                                *)
(*                                                                         *)
(* A short is a number from -Half to Half - 1.  What the filters measure   *)
(* for each period, correlation and energy, is an input.                   *)
(***************************************************************************)
EXTENDS Integers, Sequences, FiniteSetsExt

CONSTANTS Half,          \* 2^15
          CorrScale,     \* 180: what correlations are scaled down to
          Candidates,    \* periods from start to end
          ListLen,       \* N: the length of the list
          RawCorrs,      \* correlations, 32 bits wide
          RawEnergies    \* energies, 32 bits wide

\* CorrScale is such that the square of the next larger number is a short.
ASSUME PitchSearchAssumption ==
  /\ Half \in Nat \ {0} /\ CorrScale \in Nat \ {0} /\ (CorrScale + 1) * (CorrScale + 1) < Half
  /\ Candidates \in Nat /\ ListLen \in 1 .. Candidates
  /\ RawCorrs \subseteq Int /\ RawEnergies \subseteq Nat

VARIABLES corr16,   \* scaled correlation of each period
          ener16,   \* scaled energy of each period
          best,     \* the list: [score, ener, pitch]
          i         \* the next period; 0 when no search is running

svars == <<corr16, ener16, best, i>>

Abs(x) == IF x < 0 THEN -x ELSE x

\* The cast to spx_word16_t.
Word16(x) == ((x + Half) % (2 * Half)) - Half

Pow2[s \in Nat] == IF s = 0 THEN 1 ELSE 2 * Pow2[s - 1]

\* How often the largest value is halved until it is within the scale.
Shift(x, max_scale) ==
  LET max_val == Max({1} \cup {Abs(x[k]) : k \in DOMAIN x})
  IN CHOOSE s \in 0 .. max_val :
       /\ max_val \div Pow2[s] <= max_scale
       /\ \A t \in 0 .. s - 1 : max_val \div Pow2[t] > max_scale

\* The arithmetic shift rounds down, a negative value away from zero.
normalize16(x, max_scale) == [k \in DOMAIN x |-> Word16(x[k] \div Pow2[Shift(x, max_scale)])]

\* Mutant: correlations are scaled to the largest number whose square fits.
ScaledCorrWide(c) == normalize16(c, CorrScale + 1)

ScaledCorr(c) == normalize16(c, CorrScale)

\* One is added to an energy before it is used.
ScaledEnergy(e) == normalize16(e, Half - 2)

Unmeasured == [k \in 1 .. Candidates |-> 0]
Unsearched == [k \in 1 .. ListLen |-> [score |-> -1, ener |-> 0, pitch |-> 1]]

\* i = 0: no search is running.
PitchInit == corr16 = Unmeasured /\ ener16 = Unmeasured /\ best = Unsearched /\ i = 0

\* What the filters measured is scaled down before the search.
Normalize(c, e) ==
  /\ i = 0
  /\ corr16' = ScaledCorr(c) /\ ener16' = ScaledEnergy(e)
  /\ i' = 1
  /\ UNCHANGED best

\* Whether a/b of the period is larger than that of an entry, multiplied out.
Beats(tmp, ener, b) == Word16(tmp) * Word16(b.ener) > Word16(b.score) * Word16(1 + ener)

\* The period replaces the last entry and moves before the first one it beats.
Candidate ==
  LET tmp == Word16(corr16[i] * corr16[i])
      new == [score |-> tmp, ener |-> ener16[i] + 1, pitch |-> i]
      beaten == {j \in 1 .. ListLen - 1 : Beats(tmp, ener16[i], best[j])}
      at == IF beaten = {} THEN ListLen ELSE Min(beaten)
  IN /\ i \in 1 .. Candidates
     /\ i' = i + 1
     /\ best' = IF Beats(tmp, ener16[i], best[ListLen])
                THEN SubSeq(best, 1, at - 1) \o <<new>> \o SubSeq(best, at, ListLen - 1)
                ELSE best
     /\ UNCHANGED <<corr16, ener16>>

Return ==
  /\ i > Candidates
  /\ corr16' = Unmeasured /\ ener16' = Unmeasured /\ best' = Unsearched /\ i' = 0

PitchNext ==
  \/ \E c \in [1 .. Candidates -> RawCorrs], e \in [1 .. Candidates -> RawEnergies] :
       Normalize(c, e)
  \/ Candidate
  \/ Return

PitchSpec == PitchInit /\ [][PitchNext]_svars

-----------------------------------------------------------------------------
(* Properties                                                               *)

\* correlation^2 / (energy + 1) of one period is at least that of another.
AtLeast(p, q) ==
  corr16[p] * corr16[p] * (ener16[q] + 1) >= corr16[q] * corr16[q] * (ener16[p] + 1)

\* Once every period was considered, the list holds different periods, the best
\* ones, the best first: no square and no incremented energy has left the range
\* of a short on the way, although a negative correlation may be rounded to one
\* beyond the scale (open_loop_nbest_pitch, normalize16).
PitchesAreBest ==
  i > Candidates =>
    LET kept == {best[k].pitch : k \in 1 .. ListLen}
    IN /\ Cardinality(kept) = ListLen
       /\ \A k \in 1 .. ListLen - 1 : AtLeast(best[k].pitch, best[k + 1].pitch)
       /\ \A p \in (1 .. Candidates) \ kept : AtLeast(best[ListLen].pitch, p)
=============================================================================
