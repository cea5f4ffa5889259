--------------------------- MODULE RedspeexProofs ----------------------------
(***************************************************************************)
(* The parts of the native library that keep a state: the time scaler, for *)
(* every range of pitch periods, every rate and every length of the input; *)
(* the play-out buffer, for every frame length, stamps and queue; the bit  *)
(* packer, for every field, width and buffer; the packet loss concealer,   *)
(* for every block, period and length of the history.                      *)
(***************************************************************************)
EXTENDS TimeScale, Playout, BitStream, PacketLossConcealer, PitchSearch,
        SequenceTheorems, FiniteSetTheorems, WellFoundedInduction, TLAPS


-----------------------------------------------------------------------------
(* Induction over data: a set of numbers has a least one, and one that is   *)
(* bounded has a greatest one.                                              *)
LEMMA LessWellFounded == IsWellFoundedOn({ss \in Nat \X Nat : ss[1] < ss[2]}, Nat)
BY NatLessThanWellFounded, Zenon DEF OpToRel

LEMMA NatMin ==
  ASSUME NEW T, T \subseteq Nat, T # {}
  PROVE  \E x \in T : \A y \in T : x <= y
<1> DEFINE LT == {ss \in Nat \X Nat : ss[1] < ss[2]}
<1>1. \A x, y \in Nat : y < x => <<y, x>> \in LT
  OBVIOUS
<1>2. IsWellFoundedOn(LT, Nat)
  BY LessWellFounded
<1> HIDE DEF LT
<1>3. PICK x \in T : \A y \in T : ~ (<<y, x>> \in LT)
  BY WFMin, <1>2
<1>4. \A y \in T : ~(y < x)
  BY <1>1, <1>3
<1> QED BY <1>4

LEMMA NatMax ==
  ASSUME NEW n \in Nat, NEW T, T \subseteq 0 .. n, T # {}
  PROVE  \E x \in T : \A y \in T : y <= x
<1> DEFINE U == {n - ix : ix \in T}
<1>1. U \subseteq Nat /\ U # {}
  <2>1. \A ix \in T : ix \in 0 .. n /\ n - ix \in Nat
    OBVIOUS
  <2>2. PICK ix \in T : TRUE
    OBVIOUS
  <2>3. n - ix \in U
    OBVIOUS
  <2> QED BY <2>1, <2>3
<1>2. PICK u \in U : \A v \in U : u <= v
  BY <1>1, NatMin
<1>3. PICK x \in T : u = n - x
  OBVIOUS
<1>4. ASSUME NEW y \in T PROVE y <= x
  <2>1. u <= n - y
    BY <1>2
  <2> QED BY <1>3, <2>1
<1> QED BY <1>4

-----------------------------------------------------------------------------
(* The time scaler.                                                        *)

(* The parts of the inductive invariant: in the loop the buffer is full,   *)
(* and the rate is not the normal one.                                     *)
Counts ==
  /\ fill \in Nat /\ lcp \in Nat /\ len \in Nat /\ in_len \in Nat /\ out_len \in Nat
  /\ held \in Nat /\ dropped \in Nat /\ inserted \in Nat

Kinds == running \in BOOLEAN /\ rate \in Rates \cup {Normal}

FullInLoop == running => fill = buf_len /\ rate \in Rates

ScaleIInv == Counts /\ Kinds /\ FullInLoop /\ SamplesConserved /\ BufferHolds

LEMMA BufferLength == buf_len \in Nat /\ buf_len >= 2
BY TimeScaleAssumption DEF buf_len

LEMMA PeriodFits == \A p \in Periods : p \in Nat /\ 0 < p /\ p < buf_len
BY TimeScaleAssumption DEF Periods, buf_len

LEMMA TimesPositive == \A m, n \in Nat \ {0} : m * n \in Nat /\ m * n >= 1
OBVIOUS

(* A stretch is a number of samples.                                       *)
LEMMA StretchIsCount ==
  ASSUME NEW p \in Periods, rate \in Rates
  PROVE  NextStretch(p) \subseteq Nat
<1>1. PICK c \in Comps : rate.comp = c
  BY DEF Rates
<1>2. c \in Nat \ {0} /\ p \in Nat \ {0}
  BY TimeScaleAssumption, PeriodFits
<1>3. p * c \in Nat /\ p * c >= 1
  BY <1>2, TimesPositive
<1>4. \A d \in -1 .. 1 : p * c + d \in Nat
  BY <1>3
<1> QED BY <1>1, <1>4 DEF NextStretch

LEMMA InitScale == TimeScaleInit => ScaleIInv
<1> SUFFICES ASSUME TimeScaleInit PROVE ScaleIInv
  OBVIOUS
<1> USE DEF TimeScaleInit
<1>1. Counts
  BY DEF Counts
<1>2. Kinds /\ FullInLoop
  BY DEF Kinds, FullInLoop
<1>3. SamplesConserved
  BY DEF SamplesConserved
<1>4. BufferHolds
  BY BufferLength DEF BufferHolds
<1> QED BY <1>1, <1>2, <1>3, <1>4 DEF ScaleIInv

LEMMA ChangeSpeedScaleIInv ==
  ASSUME ScaleIInv, NEW speed \in Rates \cup {Normal}, NEW n \in Lengths, ChangeSpeed(speed, n)
  PROVE  ScaleIInv'
<1>1. n \in Nat
  BY TimeScaleAssumption
<1>2. CASE speed = Normal
  <2>1. /\ ~running /\ ~running'
        /\ rate' = speed /\ len' = n /\ held' = fill /\ dropped' = 0 /\ inserted' = 0
        /\ out_len' = n + fill /\ in_len' = n /\ fill' = 0 /\ lcp' = 0
        /\ running' = FALSE
    BY <1>1, <1>2 DEF ChangeSpeed, Straight
  <2>2. Counts'
    BY <2>1, <1>1, <1>2, BufferLength DEF ScaleIInv, Counts, FullInLoop, BufferHolds
  <2>3. Kinds'
    BY <2>1 DEF ScaleIInv, Kinds
  <2>4. FullInLoop'
    BY <2>1, <1>1, <1>2, BufferLength DEF ScaleIInv, Kinds, FullInLoop, buf_len
  <2>5. SamplesConserved'
    BY <2>1, <1>1, <1>2, BufferLength DEF ScaleIInv, Counts, FullInLoop, SamplesConserved
  <2>6. BufferHolds'
    BY <2>1, <1>1, <1>2, BufferLength DEF ScaleIInv, Counts, FullInLoop, BufferHolds, buf_len
  <2> QED BY <2>2, <2>3, <2>4, <2>5, <2>6 DEF ScaleIInv
<1>3. CASE speed # Normal /\ fill + n < buf_len
  <2>1. /\ ~running /\ running' = FALSE
        /\ rate' = speed /\ len' = n /\ held' = fill /\ dropped' = 0 /\ inserted' = 0
        /\ out_len' = 0 /\ in_len' = n /\ fill' = fill + n /\ lcp' = lcp
    BY <1>1, <1>3 DEF ChangeSpeed, TopUp
  <2>2. Counts'
    BY <2>1, <1>1, <1>3, BufferLength DEF ScaleIInv, Counts, FullInLoop, BufferHolds
  <2>3. Kinds'
    BY <2>1 DEF ScaleIInv, Kinds
  <2>4. FullInLoop'
    BY <2>1, <1>1, <1>3, BufferLength DEF ScaleIInv, Kinds, FullInLoop, buf_len
  <2>5. SamplesConserved'
    BY <2>1, <1>1, <1>3, BufferLength DEF ScaleIInv, Counts, FullInLoop, SamplesConserved
  <2>6. BufferHolds'
    BY <2>1, <1>1, <1>3, BufferLength DEF ScaleIInv, Counts, FullInLoop, BufferHolds, buf_len
  <2> QED BY <2>2, <2>3, <2>4, <2>5, <2>6 DEF ScaleIInv
<1>4. CASE speed # Normal /\ ~(fill + n < buf_len)
  <2>1. /\ ~running /\ running' = TRUE
        /\ rate' = speed /\ len' = n /\ held' = fill /\ dropped' = 0 /\ inserted' = 0
        /\ out_len' = 0 /\ in_len' = buf_len - fill /\ fill' = buf_len /\ lcp' = lcp
    BY <1>1, <1>4 DEF ChangeSpeed, TopUp
  <2>2. Counts'
    BY <2>1, <1>1, <1>4, BufferLength DEF ScaleIInv, Counts, FullInLoop, BufferHolds
  <2>3. Kinds'
    BY <2>1 DEF ScaleIInv, Kinds
  <2>4. FullInLoop'
    BY <2>1, <1>1, <1>4, BufferLength DEF ScaleIInv, Kinds, FullInLoop, buf_len
  <2>5. SamplesConserved'
    BY <2>1, <1>1, <1>4, BufferLength DEF ScaleIInv, Counts, FullInLoop, SamplesConserved
  <2>6. BufferHolds'
    BY <2>1, <1>1, <1>4, BufferLength DEF ScaleIInv, Counts, FullInLoop, BufferHolds, buf_len
  <2> QED BY <2>2, <2>3, <2>4, <2>5, <2>6 DEF ScaleIInv
<1> QED BY <1>2, <1>3, <1>4

LEMMA CopyBufferScaleIInv == ScaleIInv /\ CopyBuffer => ScaleIInv'
<1> SUFFICES ASSUME ScaleIInv, CopyBuffer PROVE ScaleIInv'
  OBVIOUS
<1>1. CASE len - in_len < buf_len
  <2>1. /\ running /\ running' = FALSE /\ lcp >= buf_len
        /\ UNCHANGED <<rate, len, held, dropped, inserted>>
        /\ out_len' = out_len + buf_len /\ lcp' = lcp - buf_len
        /\ fill' = len - in_len /\ in_len' = len
    BY <1>1 DEF CopyBuffer, Left
  <2>2. Counts'
    BY <2>1, <1>1, BufferLength DEF ScaleIInv, Counts, FullInLoop, BufferHolds
  <2>3. Kinds'
    BY <2>1 DEF ScaleIInv, Kinds
  <2>4. FullInLoop'
    BY <2>1, <1>1, BufferLength DEF ScaleIInv, Kinds, FullInLoop, buf_len
  <2>5. SamplesConserved'
    BY <2>1, <1>1, BufferLength DEF ScaleIInv, Counts, FullInLoop, SamplesConserved
  <2>6. BufferHolds'
    BY <2>1, <1>1, BufferLength DEF ScaleIInv, Counts, FullInLoop, BufferHolds, buf_len
  <2> QED BY <2>2, <2>3, <2>4, <2>5, <2>6 DEF ScaleIInv
<1>2. CASE ~(len - in_len < buf_len)
  <2>1. /\ running /\ UNCHANGED running /\ lcp >= buf_len
        /\ UNCHANGED <<rate, len, held, dropped, inserted>>
        /\ out_len' = out_len + buf_len /\ lcp' = lcp - buf_len
        /\ fill' = fill /\ in_len' = in_len + buf_len
    BY <1>2 DEF CopyBuffer, Left
  <2>2. Counts'
    BY <2>1, <1>2, BufferLength DEF ScaleIInv, Counts, FullInLoop, BufferHolds
  <2>3. Kinds'
    BY <2>1 DEF ScaleIInv, Kinds
  <2>4. FullInLoop'
    BY <2>1, <1>2, BufferLength DEF ScaleIInv, Kinds, FullInLoop, buf_len
  <2>5. SamplesConserved'
    BY <2>1, <1>2, BufferLength DEF ScaleIInv, Counts, FullInLoop, SamplesConserved
  <2>6. BufferHolds'
    BY <2>1, <1>2, BufferLength DEF ScaleIInv, Counts, FullInLoop, BufferHolds, buf_len
  <2> QED BY <2>2, <2>3, <2>4, <2>5, <2>6 DEF ScaleIInv
<1> QED BY <1>1, <1>2

LEMMA CopyRestScaleIInv == ScaleIInv /\ CopyRest => ScaleIInv'
<1> SUFFICES ASSUME ScaleIInv, CopyRest PROVE ScaleIInv'
  OBVIOUS
<1>1. CASE len - in_len < lcp
  <2>1. /\ running /\ running' = FALSE /\ lcp > 0 /\ lcp < buf_len
        /\ UNCHANGED <<rate, len, held, dropped, inserted>>
        /\ out_len' = out_len + lcp /\ lcp' = 0
        /\ fill' = buf_len - lcp + (len - in_len) /\ in_len' = len
    BY <1>1 DEF CopyRest, Left
  <2>2. Counts'
    BY <2>1, <1>1, BufferLength DEF ScaleIInv, Counts, FullInLoop, BufferHolds
  <2>3. Kinds'
    BY <2>1 DEF ScaleIInv, Kinds
  <2>4. FullInLoop'
    BY <2>1, <1>1, BufferLength DEF ScaleIInv, Kinds, FullInLoop, buf_len
  <2>5. SamplesConserved'
    BY <2>1, <1>1, BufferLength DEF ScaleIInv, Counts, FullInLoop, SamplesConserved
  <2>6. BufferHolds'
    BY <2>1, <1>1, BufferLength DEF ScaleIInv, Counts, FullInLoop, BufferHolds, buf_len
  <2> QED BY <2>2, <2>3, <2>4, <2>5, <2>6 DEF ScaleIInv
<1>2. CASE ~(len - in_len < lcp)
  <2>1. /\ running /\ UNCHANGED running /\ lcp > 0 /\ lcp < buf_len
        /\ UNCHANGED <<rate, len, held, dropped, inserted>>
        /\ out_len' = out_len + lcp /\ lcp' = 0
        /\ fill' = fill /\ in_len' = in_len + lcp
    BY <1>2 DEF CopyRest, Left
  <2>2. Counts'
    BY <2>1, <1>2, BufferLength DEF ScaleIInv, Counts, FullInLoop, BufferHolds
  <2>3. Kinds'
    BY <2>1 DEF ScaleIInv, Kinds
  <2>4. FullInLoop'
    BY <2>1, <1>2, BufferLength DEF ScaleIInv, Kinds, FullInLoop, buf_len
  <2>5. SamplesConserved'
    BY <2>1, <1>2, BufferLength DEF ScaleIInv, Counts, FullInLoop, SamplesConserved
  <2>6. BufferHolds'
    BY <2>1, <1>2, BufferLength DEF ScaleIInv, Counts, FullInLoop, BufferHolds, buf_len
  <2> QED BY <2>2, <2>3, <2>4, <2>5, <2>6 DEF ScaleIInv
<1> QED BY <1>1, <1>2

(* Speeding up takes a period out of the buffer and refills it.            *)
LEMMA DropScaleIInv ==
  ASSUME ScaleIInv, NEW p \in Periods, DropPeriod(p)
  PROVE  ScaleIInv'
<1>1. lcp' \in Nat
  BY StretchIsCount DEF DropPeriod, ScaleIInv, FullInLoop
<1>2. CASE len - in_len < p
  <2>1. /\ running /\ running' = FALSE
        /\ UNCHANGED <<rate, len, out_len, held, inserted>>
        /\ dropped' = dropped + p
        /\ fill' = fill + (len - in_len) - p /\ in_len' = len
    BY <1>1, <1>2 DEF DropPeriod, Left
  <2>2. Counts'
    BY <2>1, <1>1, <1>2, BufferLength, PeriodFits DEF ScaleIInv, Counts, FullInLoop, BufferHolds
  <2>3. Kinds'
    BY <2>1 DEF ScaleIInv, Kinds
  <2>4. FullInLoop'
    BY <2>1, <1>1, <1>2, BufferLength DEF ScaleIInv, Kinds, FullInLoop, buf_len
  <2>5. SamplesConserved'
    BY <2>1, <1>1, <1>2, BufferLength, PeriodFits DEF ScaleIInv, Counts, FullInLoop, SamplesConserved
  <2>6. BufferHolds'
    BY <2>1, <1>1, <1>2, BufferLength, PeriodFits DEF ScaleIInv, Counts, FullInLoop, BufferHolds, buf_len
  <2> QED BY <2>2, <2>3, <2>4, <2>5, <2>6 DEF ScaleIInv
<1>3. CASE ~(len - in_len < p)
  <2>1. /\ running /\ UNCHANGED running
        /\ UNCHANGED <<rate, len, out_len, held, inserted>>
        /\ dropped' = dropped + p
        /\ fill' = fill /\ in_len' = in_len + p
    BY <1>1, <1>3 DEF DropPeriod, Left
  <2>2. Counts'
    BY <2>1, <1>1, <1>3, BufferLength, PeriodFits DEF ScaleIInv, Counts, FullInLoop, BufferHolds
  <2>3. Kinds'
    BY <2>1 DEF ScaleIInv, Kinds
  <2>4. FullInLoop'
    BY <2>1, <1>1, <1>3, BufferLength DEF ScaleIInv, Kinds, FullInLoop, buf_len
  <2>5. SamplesConserved'
    BY <2>1, <1>1, <1>3, BufferLength, PeriodFits DEF ScaleIInv, Counts, FullInLoop, SamplesConserved
  <2>6. BufferHolds'
    BY <2>1, <1>1, <1>3, BufferLength, PeriodFits DEF ScaleIInv, Counts, FullInLoop, BufferHolds, buf_len
  <2> QED BY <2>2, <2>3, <2>4, <2>5, <2>6 DEF ScaleIInv
<1> QED BY <1>2, <1>3

LEMMA InsertScaleIInv ==
  ASSUME ScaleIInv, NEW p \in Periods, InsertPeriod(p)
  PROVE  ScaleIInv'
<1>1. lcp' \in Nat
  BY StretchIsCount DEF InsertPeriod, ScaleIInv, FullInLoop
<1>2. ScaleIInv'
  <2>1. /\ running
        /\ UNCHANGED <<rate, fill, len, in_len, running, held, dropped>>
        /\ out_len' = out_len + p /\ inserted' = inserted + p
    BY <1>1 DEF InsertPeriod
  <2>2. Counts'
    BY <2>1, <1>1, BufferLength, PeriodFits DEF ScaleIInv, Counts, FullInLoop, BufferHolds
  <2>3. Kinds'
    BY <2>1 DEF ScaleIInv, Kinds
  <2>4. FullInLoop'
    BY <2>1, <1>1, BufferLength DEF ScaleIInv, Kinds, FullInLoop, buf_len
  <2>5. SamplesConserved'
    BY <2>1, <1>1, BufferLength, PeriodFits DEF ScaleIInv, Counts, FullInLoop, SamplesConserved
  <2>6. BufferHolds'
    BY <2>1, <1>1, BufferLength, PeriodFits DEF ScaleIInv, Counts, FullInLoop, BufferHolds, buf_len
  <2> QED BY <2>2, <2>3, <2>4, <2>5, <2>6 DEF ScaleIInv
<1> QED BY <1>2

LEMMA NextScale == ScaleIInv /\ [TimeScaleNext]_tvars => ScaleIInv'
<1> SUFFICES ASSUME ScaleIInv, [TimeScaleNext]_tvars PROVE ScaleIInv'
  OBVIOUS
<1>1. CASE UNCHANGED tvars
  BY <1>1 DEF tvars, ScaleIInv, Counts, Kinds, FullInLoop, SamplesConserved, BufferHolds, buf_len
<1> QED BY <1>1, ChangeSpeedScaleIInv, CopyBufferScaleIInv, CopyRestScaleIInv, DropScaleIInv, InsertScaleIInv DEF TimeScaleNext

LEMMA ScaleInvariance == TimeScaleSpec => []ScaleIInv
BY InitScale, NextScale, PTL DEF TimeScaleSpec

\* What a call of time_scale took in and found in the buffer is what it wrote
\* and left there, up to the periods dropped or inserted.
THEOREM NoSampleLost == TimeScaleSpec => []SamplesConserved
BY ScaleInvariance, PTL DEF ScaleIInv

\* The buffer of two periods holds what waits in it, a call uses up its input,
\* and leaves room for one sample at least.
THEOREM BufferIsBigEnough == TimeScaleSpec => []BufferHolds
BY ScaleInvariance, PTL DEF ScaleIInv

-----------------------------------------------------------------------------
(* The play-out buffer.                                                    *)

QueueFrames == [type : {PLAYOUT_TYPE_CONTROL, PLAYOUT_TYPE_SPEECH}, stamp : Nat]

(* What may be in the queue: no speech before it starts.                   *)
Queueable == {f \in QueueFrames : started \/ f.type # PLAYOUT_TYPE_SPEECH}

PlayoutTypeOK ==
  /\ first \in Seq(Queueable)
  /\ started \in BOOLEAN /\ conf.dynamic \in BOOLEAN /\ conf.min_length \in Nat
  /\ last \in Int /\ last_len \in Nat /\ target \in Int
  /\ played \in [stamp : Int, length : Int]

(* A buffer that grows sets its clock back by as much as it grows, and one *)
(* that shrinks forward: clock and length together never fall back behind  *)
(* what they were when a frame was played.                                 *)
ClockAhead ==
  /\ started => last_len = SenderLen
  /\ played # Never => /\ started
                       /\ played.stamp + played.length <= last + target
                       /\ ~conf.dynamic => played.length = target

PlayoutIInv == PlayoutTypeOK /\ ClockAhead

LEMMA PlaceInQueue ==
  ASSUME NEW S, first \in Seq(S), NEW stamp
  PROVE  Place(stamp) \in 0 .. Len(first)
<1> DEFINE behind == {ix \in 2 .. Len(first) : first[ix].stamp <= stamp}
<1>1. Len(first) \in Nat
  OBVIOUS
<1>2. CASE behind # {}
  <2>1. behind \subseteq 0 .. Len(first)
    OBVIOUS
  <2>2. \E ix \in behind : \A j \in behind : j <= ix
    <3> HIDE DEF behind
    <3> QED BY <1>1, <1>2, <2>1, NatMax
  <2>3. (CHOOSE ix \in behind : \A j \in behind : j <= ix) \in behind
    <3> HIDE DEF behind
    <3> QED BY <2>2
  <2> QED BY <1>1, <1>2, <2>1, <2>3 DEF Place
<1>3. CASE behind = {}
  BY <1>1, <1>3 DEF Place
<1> QED BY <1>2, <1>3

LEMMA QueueInserted ==
  ASSUME NEW S, NEW q \in Seq(S), NEW e \in S, NEW at \in 0 .. Len(q)
  PROVE  SubSeq(q, 1, at) \o <<e>> \o SubSeq(q, at + 1, Len(q)) \in Seq(S)
<1>1. SubSeq(q, 1, at) \in Seq(S) /\ SubSeq(q, at + 1, Len(q)) \in Seq(S)
  OBVIOUS
<1>2. <<e>> \in Seq(S)
  OBVIOUS
<1> DEFINE front == SubSeq(q, 1, at)
           back == SubSeq(q, at + 1, Len(q))
<1> HIDE DEF front, back
<1>3. front \o <<e>> \in Seq(S)
  BY <1>1, <1>2 DEF front
<1>4. (front \o <<e>>) \o back \in Seq(S)
  BY <1>1, <1>3 DEF back
<1> QED BY <1>4 DEF front, back

LEMMA WiderQueue ==
  ASSUME first \in Seq(Queueable), started => started'
  PROVE  first \in Seq(Queueable')
<1>1. Queueable \subseteq Queueable'
  BY DEF Queueable, QueueFrames
<1> QED BY <1>1

LEMMA InitPlayout == PlayoutInit => PlayoutIInv
<1> SUFFICES ASSUME PlayoutInit PROVE PlayoutIInv
  OBVIOUS
<1>1. PICK l \in BufferLengths :
        /\ first = <<>> /\ started = FALSE /\ last = 0 /\ last_len = 0
        /\ conf = [dynamic |-> l[1] < l[2], min_length |-> l[1],
                   max_length |-> IF l[2] > l[1] THEN l[2] ELSE l[1]]
        /\ target = (conf.max_length - conf.min_length) \div 2
        /\ played = Never
  BY DEF PlayoutInit
<1>2. conf.dynamic \in BOOLEAN /\ conf.min_length \in Nat
  BY <1>1, PlayoutAssumption
<1>3. first \in Seq(Queueable)
  BY <1>1
<1>4. started \in BOOLEAN
  BY <1>1
<1>5. last \in Int /\ last_len \in Nat /\ target \in Int /\ played \in [stamp : Int, length : Int]
  BY <1>1, PlayoutAssumption DEF Never
<1>6. ClockAhead
  BY <1>1 DEF ClockAhead
<1> QED BY <1>2, <1>3, <1>4, <1>5, <1>6 DEF PlayoutIInv, PlayoutTypeOK

LEMMA PutPlayout ==
  ASSUME PlayoutIInv, NEW type \in {PLAYOUT_TYPE_CONTROL, PLAYOUT_TYPE_SPEECH},
         NEW t \in Stamps, playout_put(type, t)
  PROVE  PlayoutIInv'
<1> DEFINE frame == [type |-> type, stamp |-> t]
           at == Place(t)
<1>1. /\ first' = SubSeq(first, 1, at) \o <<frame>> \o SubSeq(first, at + 1, Len(first))
      /\ started' = (started \/ type = PLAYOUT_TYPE_SPEECH)
      /\ UNCHANGED <<conf, target, played>>
  BY DEF playout_put
<1>2. started' \in BOOLEAN /\ (started => started')
  BY <1>1
<1>3. first' \in Seq(Queueable')
  <2>1. first \in Seq(Queueable')
    BY <1>2, WiderQueue DEF PlayoutIInv, PlayoutTypeOK
  <2>2. frame \in Queueable'
    BY <1>1, PlayoutAssumption DEF Queueable, QueueFrames
  <2>3. at \in 0 .. Len(first)
    BY <2>1, PlaceInQueue
  <2> HIDE DEF frame, at
  <2> QED BY <1>1, <2>1, <2>2, <2>3, QueueInserted
<1>4. \/ ~started /\ last' = t - SenderLen - conf.min_length /\ last_len' = SenderLen
      \/ UNCHANGED <<last, last_len>>
  BY DEF playout_put
<1>5. last' \in Int /\ last_len' \in Nat
  BY <1>4, PlayoutAssumption DEF PlayoutIInv, PlayoutTypeOK
<1>6. ClockAhead'
  <2>1. CASE ~started
    <3>1. played = Never /\ played' = Never
      BY <1>1, <2>1 DEF PlayoutIInv, ClockAhead
    <3>2. started' => last_len' = SenderLen
      BY <1>1, <1>4, <2>1 DEF playout_put
    <3> QED BY <3>1, <3>2 DEF ClockAhead
  <2>2. CASE started
    <3>1. UNCHANGED <<last, last_len, started, conf, target, played>>
      BY <1>1, <2>2 DEF playout_put, PlayoutIInv, PlayoutTypeOK
    <3> QED BY <3>1 DEF PlayoutIInv, ClockAhead
  <2> QED BY <2>1, <2>2
<1> QED BY <1>1, <1>2, <1>3, <1>5, <1>6 DEF PlayoutIInv, PlayoutTypeOK

LEMMA HeadQueued ==
  ASSUME PlayoutIInv, first # <<>>
  PROVE  /\ Head(first) \in Queueable /\ Head(first).stamp \in Nat
         /\ Tail(first) \in Seq(Queueable)
<1>1. Head(first) \in Queueable /\ Tail(first) \in Seq(Queueable)
  BY DEF PlayoutIInv, PlayoutTypeOK
<1> QED BY <1>1 DEF Queueable, QueueFrames

(* What PlayoutInOrder says of a step.                                     *)
PlayoutOrdered ==
  PlaysAnother =>
    /\ result'.stamp + target' >= played.stamp + played.length + SenderLen
    /\ ~conf.dynamic => result'.stamp >= played.stamp + SenderLen

(* A speech frame is given: it is not before the clock, which the growth   *)
(* of the buffer has set back, and what is late is dropped.                *)
LEMMA GetSpeechPlayout ==
  ASSUME PlayoutIInv, NEW verdict, GetSpeech(verdict)
  PROVE  PlayoutIInv' /\ PlayoutOrdered
<1> DEFINE due == last + last_len
           frame == Head(first)
           stride == IF conf.dynamic THEN StepSize(verdict) ELSE 0
           now == due - stride * last_len
<1>1. /\ due >= frame.stamp /\ first # <<>> /\ first' = Tail(first)
      /\ frame.type = PLAYOUT_TYPE_SPEECH
      /\ target' = target + stride * SenderLen
      /\ last' = IF frame.stamp < now THEN now - last_len ELSE now
      /\ last_len' = IF frame.stamp < now THEN last_len ELSE SenderLen
      /\ result'.code = (IF frame.stamp < now THEN "drop" ELSE "ok") /\ result'.stamp = frame.stamp
      /\ played' = IF frame.stamp < now THEN played
                   ELSE [stamp |-> frame.stamp, length |-> target]
      /\ UNCHANGED <<started, conf>>
  BY DEF GetSpeech, queue_get, Late
<1>2. /\ frame \in Queueable /\ frame.stamp \in Nat /\ started /\ Tail(first) \in Seq(Queueable)
  BY <1>1, HeadQueued DEF Queueable
<1>3. stride \in {-1, 0, 1, 3} /\ (~conf.dynamic => stride = 0)
  BY DEF StepSize
<1>4. /\ last_len \in Nat /\ last \in Int /\ target \in Int /\ SenderLen \in Nat \ {0}
      /\ played \in [stamp : Int, length : Int]
  BY PlayoutAssumption DEF PlayoutIInv, PlayoutTypeOK
<1>5. /\ last_len = SenderLen
      /\ played # Never => /\ played.stamp + played.length <= last + target
                           /\ ~conf.dynamic => played.length = target
  BY <1>2 DEF PlayoutIInv, ClockAhead
<1>6. PICK x \in Int, y \in Int : x = stride * last_len /\ y = stride * SenderLen
  BY <1>3, <1>4
<1>7. x = y /\ (~conf.dynamic => y = 0)
  BY <1>3, <1>4, <1>5, <1>6
<1>8. due \in Int /\ now = due - x /\ now \in Int /\ target' = target + y /\ due = last + last_len
  <2>1. due = last + last_len /\ now = due - stride * last_len
    OBVIOUS
  <2>2. target' = target + stride * SenderLen
    BY <1>1
  <2> HIDE DEF frame, now, stride, due
  <2>3. now = due - x /\ target' = target + y
    BY <1>6, <2>1, <2>2
  <2>4. due \in Int
    BY <1>4, <2>1
  <2> QED BY <1>6, <2>1, <2>3, <2>4
<1> HIDE DEF frame, now, stride, due
<1>9. PlayoutOrdered
  <2> SUFFICES ASSUME PlaysAnother
               PROVE  /\ result'.stamp + target' >= played.stamp + played.length + SenderLen
                      /\ ~conf.dynamic => result'.stamp >= played.stamp + SenderLen
    BY DEF PlayoutOrdered
  <2>1. played # Never /\ ~(frame.stamp < now) /\ result'.stamp = frame.stamp
    BY <1>1 DEF PlaysAnother
  <2>2. PICK s, ps, pl : s = frame.stamp /\ ps = played.stamp /\ pl = played.length
    OBVIOUS
  <2>3. s \in Int /\ ps \in Int /\ pl \in Int
    BY <1>2, <1>4, <2>2
  <2>4. s >= due - x /\ x = y /\ last_len = SenderLen /\ ps + pl <= last + target
        /\ (~conf.dynamic => pl = target /\ y = 0)
    BY <1>2, <1>5, <1>7, <1>8, <2>1, <2>2
  <2>5. s + (target + y) >= ps + pl + SenderLen
    BY <1>4, <1>6, <1>8, <2>3, <2>4
  <2>6. ~conf.dynamic => s >= ps + SenderLen
    BY <1>4, <2>3, <2>4, <2>5
  <2> QED BY <1>8, <2>1, <2>2, <2>5, <2>6
<1>10. ClockAhead'
  <2>1. CASE frame.stamp < now
    <3>1. last' + target' = last + target
      <4>1. last' = (due - x) - last_len /\ target' = target + x /\ due = last + last_len
        BY <1>1, <1>7, <1>8, <2>1
      <4>2. last' = last - x
        BY ONLY <1>4, <1>6, <4>1
      <4> QED BY ONLY <1>4, <1>6, <4>1, <4>2
    <3>2. ~conf.dynamic => target' = target
      BY <1>4, <1>7, <1>8
    <3> QED BY <1>1, <1>2, <1>5, <2>1, <3>1, <3>2 DEF ClockAhead
  <2>2. CASE ~(frame.stamp < now)
    <3>1. /\ last' = now /\ last_len' = SenderLen
          /\ played' = [stamp |-> frame.stamp, length |-> target]
      BY <1>1, <2>2
    <3>2. frame.stamp <= due
      BY <1>1
    <3>3. frame.stamp + target <= last' + target'
      <4>1. last' = due - x /\ target' = target + x
        BY <1>7, <1>8, <3>1
      <4>2. PICK f \in Int, d \in Int : f = frame.stamp /\ d = due
        BY <1>2, <1>8
      <4>3. f <= d /\ last' = d - x /\ target' = target + x
        BY <3>2, <4>1, <4>2
      <4>4. f + target <= last' + target'
        BY ONLY <1>4, <1>6, <4>2, <4>3
      <4> QED BY <4>2, <4>4
    <3>4. ~conf.dynamic => target' = target
      BY <1>4, <1>7, <1>8
    <3>5. UNCHANGED <<started, conf>>
      BY <1>1
    <3>6. played'.stamp = frame.stamp /\ played'.length = target
      BY <3>1
    <3> QED BY <1>2, <3>1, <3>3, <3>4, <3>5, <3>6 DEF ClockAhead
  <2> QED BY <2>1, <2>2
<1>11. last' \in Int /\ last_len' \in Nat /\ target' \in Int
  <2>1. now - last_len \in Int
    BY <1>4, <1>8
  <2> QED BY <1>1, <1>4, <1>6, <1>8, <2>1
<1>12. played' \in [stamp : Int, length : Int]
  BY <1>1, <1>2, <1>4
<1>13. first' \in Seq(Queueable')
  BY <1>1, <1>2 DEF Queueable
<1>14. conf' = conf /\ started' = started
  BY <1>1
<1>15. PlayoutTypeOK'
  BY <1>11, <1>12, <1>13, <1>14 DEF PlayoutIInv, PlayoutTypeOK
<1> QED BY <1>9, <1>10, <1>15 DEF PlayoutIInv

LEMMA OtherPlayout ==
  ASSUME PlayoutIInv,
         \/ GetNothing \/ GetControl \/ playout_get_unconditional \/ UNCHANGED yvars
  PROVE  PlayoutIInv' /\ (PlayoutOrdered \/ UNCHANGED yvars)
<1>1. /\ first' = first \/ (first # <<>> /\ first' = Tail(first))
      /\ UNCHANGED <<started, conf, target, last_len, played>>
      /\ last' = last \/ last' = last + last_len
  <2>1. CASE GetNothing
    BY <2>1 DEF GetNothing
  <2>2. CASE GetControl
    <3>1. first # <<>> /\ first' = Tail(first)
      BY <2>2 DEF GetControl, queue_get
    <3>2. last' = last
      BY <2>2, SMT DEF GetControl, queue_get, PlayoutIInv, PlayoutTypeOK
    <3>3. UNCHANGED <<started, conf, target, last_len, played>>
      BY <2>2 DEF GetControl
    <3> QED BY <3>1, <3>2, <3>3
  <2>3. CASE playout_get_unconditional
    BY <2>3 DEF playout_get_unconditional
  <2>4. CASE UNCHANGED yvars
    BY <2>4 DEF yvars
  <2> QED BY <2>1, <2>2, <2>3, <2>4
<1>2. last' \in Int /\ last' >= last
  BY <1>1 DEF PlayoutIInv, PlayoutTypeOK
<1>3. first' \in Seq(Queueable)
  BY <1>1, HeadQueued DEF PlayoutIInv, PlayoutTypeOK
<1>4. Queueable' = Queueable
  BY <1>1 DEF Queueable
<1>5. ClockAhead'
  BY <1>1, <1>2 DEF PlayoutIInv, PlayoutTypeOK, ClockAhead
<1>6. PlayoutOrdered \/ UNCHANGED yvars
  BY DEF PlayoutOrdered, PlaysAnother, GetNothing, GetControl, playout_get_unconditional, Nothing
<1> QED BY <1>1, <1>2, <1>3, <1>4, <1>5, <1>6 DEF PlayoutIInv, PlayoutTypeOK

LEMMA RestartPlayout ==
  ASSUME PlayoutIInv, NEW l \in BufferLengths, playout_restart(l)
  PROVE  PlayoutIInv' /\ PlayoutOrdered
<1>1. /\ first' = <<>> /\ started' = FALSE /\ last' = 0 /\ last_len' = 0
      /\ conf' = [dynamic |-> l[1] < l[2], min_length |-> l[1],
                  max_length |-> IF l[2] > l[1] THEN l[2] ELSE l[1]]
      /\ target' = (conf'.max_length - conf'.min_length) \div 2
      /\ played' = Never /\ result' = Nothing
  BY DEF playout_restart, Restarted
<1>2. conf'.dynamic \in BOOLEAN /\ conf'.min_length \in Nat
  BY <1>1, PlayoutAssumption
<1>3. first' \in Seq(Queueable')
  BY <1>1
<1>4. started' \in BOOLEAN
  BY <1>1
<1>5. last' \in Int /\ last_len' \in Nat /\ target' \in Int /\ played' \in [stamp : Int, length : Int]
  BY <1>1, PlayoutAssumption DEF Never
<1>6. ClockAhead' /\ PlayoutOrdered
  BY <1>1 DEF ClockAhead, Nothing, PlayoutOrdered, PlaysAnother
<1> QED BY <1>2, <1>3, <1>4, <1>5, <1>6 DEF PlayoutIInv, PlayoutTypeOK

LEMMA NextPlayout ==
  ASSUME PlayoutIInv, [PlayoutNext]_yvars
  PROVE  PlayoutIInv' /\ (PlayoutOrdered \/ UNCHANGED yvars)
<1>1. ASSUME NEW type \in {PLAYOUT_TYPE_CONTROL, PLAYOUT_TYPE_SPEECH}, NEW t \in Stamps,
             playout_put(type, t)
      PROVE  PlayoutIInv' /\ PlayoutOrdered
  BY <1>1, PutPlayout DEF playout_put, PlayoutOrdered, PlaysAnother, Nothing
<1> QED BY <1>1, GetSpeechPlayout, RestartPlayout, OtherPlayout DEF PlayoutNext

(* Each speech frame given to be played was stamped at least a frame       *)
(* length after the one before, less what the buffer has grown since that  *)
(* one was asked for: never the same one twice, nor one behind a later     *)
(* one, in a buffer that has not grown, for all lengths of buffers and     *)
(* frames, all stamps and every order of arrival (playout_put,             *)
(* playout_get).                                                           *)
THEOREM PlayedByStamp == PlayoutSpec => PlayoutInOrder
<1>1. PlayoutIInv /\ [PlayoutNext]_yvars => PlayoutIInv' /\ [PlayoutOrdered]_yvars
  BY NextPlayout
<1> QED BY InitPlayout, <1>1, PTL DEF PlayoutSpec, PlayoutInOrder, PlayoutOrdered

-----------------------------------------------------------------------------
(* The bit packer.                                                         *)

Bit == {0, 1}

Packer ==
  [chars : Seq(Bit), nbBits : Nat, pos : Nat, overflow : BOOLEAN,
   buf_size : Nat \ {0}, owner : BOOLEAN]

(* The end of the byte in which position pos lies.                         *)
ByteEnd(b) == BITS_PER_CHAR * (CharPtr(b) + 1)

Tidy(b) ==
  /\ b \in Packer
  /\ ByteEnd(b) <= Len(b.chars)
  /\ Len(b.chars) <= BITS_PER_CHAR * b.buf_size

Clean(b) == \A k \in b.pos + 1 .. ByteEnd(b) : b.chars[k] = 0

LEMMA PackerFields ==
  ASSUME NEW b \in Packer
  PROVE  /\ b.chars \in Seq(Bit) /\ b.nbBits \in Nat /\ b.pos \in Nat
         /\ b.overflow \in BOOLEAN /\ b.buf_size \in Nat /\ b.buf_size >= 1
         /\ b.owner \in BOOLEAN /\ Len(b.chars) \in Nat
BY DEF Packer

LEMMA ByteOfPosition ==
  ASSUME NEW p \in Nat
  PROVE  /\ p \div 8 \in Nat /\ p % 8 \in 0 .. 7 /\ 8 * (p \div 8) + (p % 8) = p
<1>1. p \div 8 \in Nat /\ p % 8 \in 0 .. 7
  OBVIOUS
<1>2. p % 8 = p - 8 * (p \div 8)
  OBVIOUS
<1> DEFINE c == p \div 8
           d == p % 8
<1>3. c \in Nat /\ d \in 0 .. 7 /\ d = p - 8 * c
  BY <1>1, <1>2
<1> HIDE DEF c, d
<1>4. 8 * c + d = p
  BY <1>3
<1> QED BY <1>1, <1>4 DEF c, d

LEMMA BytesOf ==
  ASSUME NEW p \in Nat, NEW c \in Nat, NEW d \in 0 .. 7, 8 * c + d = p
  PROVE  p \div 8 = c /\ p % 8 = d
OBVIOUS

LEMMA BytesEntered ==
  ASSUME NEW p \in Nat, NEW n \in Nat
  PROVE  (p + n) \div 8 = p \div 8 + (n + (p % 8)) \div 8
<1> DEFINE c == p \div 8
           d == p % 8
           e == (n + d) \div 8
           f == (n + d) % 8
<1>1. c \in Nat /\ d \in 0 .. 7 /\ 8 * c + d = p
  BY ByteOfPosition
<1> HIDE DEF c, d
<1>2. e \in Nat /\ f \in 0 .. 7 /\ 8 * e + f = n + d
  <2>1. n + d \in Nat
    BY <1>1
  <2> QED BY <2>1, ByteOfPosition
<1> HIDE DEF e, f
<1>3. 8 * (c + e) + f = p + n
  BY <1>1, <1>2
<1>4. (p + n) \div 8 = c + e
  <2>1. p + n \in Nat /\ c + e \in Nat
    BY <1>1, <1>2
  <2> QED BY <1>2, <1>3, <2>1, BytesOf
<1> QED BY <1>4 DEF c, d, e

(* A packed field: what was before it is kept; it is there, and its byte    *)
(* clear behind it, if the byte was clear before.                          *)
Stored(b, field, a) ==
  /\ a.pos = b.pos + Len(field) /\ a.nbBits = b.nbBits + Len(field)
  /\ \A k \in 1 .. b.pos : a.chars[k] = b.chars[k]
  /\ Clean(b) => Clean(a) /\ \A k \in 1 .. Len(field) : a.chars[b.pos + k] = field[k]

LEMMA Ored ==
  ASSUME NEW b \in Packer, ByteEnd(b) <= Len(b.chars),
         NEW field \in Seq(Bit)
  PROVE  LET a == OrInto(b, field)
         IN /\ a \in Packer
            /\ Len(a.chars) = BITS_PER_CHAR * ((b.pos + Len(field)) \div BITS_PER_CHAR + 1)
            /\ a.overflow = b.overflow /\ a.buf_size = b.buf_size /\ a.owner = b.owner
            /\ Stored(b, field, a)
<1> USE DEF BITS_PER_CHAR
<1> DEFINE a == OrInto(b, field)
           n == Len(field)
           end == b.pos + n
           bytes == end \div 8 + 1
           old(k) == IF k <= 8 * (CharPtr(b) + 1) THEN b.chars[k] ELSE 0
           new(k) == IF k > b.pos /\ k <= end THEN field[k - b.pos] ELSE 0
           bit(k) == IF old(k) = 1 \/ new(k) = 1 THEN 1 ELSE 0
<1>1. /\ a.chars = [k \in 1 .. 8 * bytes |-> bit(k)]
      /\ a.pos = end /\ a.nbBits = b.nbBits + n
      /\ a.overflow = b.overflow /\ a.buf_size = b.buf_size /\ a.owner = b.owner
  BY DEF OrInto, Packer
<1>2. /\ b.pos \in Nat /\ n \in Nat /\ end \in Nat /\ bytes \in Nat /\ 8 * bytes > end
      /\ CharPtr(b) \in Nat /\ 8 * (CharPtr(b) + 1) > b.pos /\ CharPtr(b) < bytes
  BY PackerFields, SMTT(30) DEF CharPtr
<1>3. \A k \in 1 .. b.pos : b.chars[k] \in Bit
  BY <1>2, PackerFields, SMTT(30) DEF ByteEnd
<1>4. \A k \in 1 .. n : field[k] \in Bit
  OBVIOUS
<1>5. \A k \in 1 .. 8 * bytes : bit(k) \in Bit
  BY DEF Bit
<1> HIDE DEF a, bytes, bit
<1>6. a.chars \in Seq(Bit) /\ Len(a.chars) = 8 * bytes
  <2>1. PICK m \in Nat : m = 8 * bytes
    BY <1>2
  <2>2. a.chars \in [1 .. m -> Bit]
    BY <1>1, <1>5, <2>1
  <2>3. PICK f : f = a.chars
    OBVIOUS
  <2>4. f \in Seq(Bit) /\ Len(f) = m
    BY <2>2, <2>3
  <2> QED BY <2>1, <2>3, <2>4
<1>7. \A k \in 1 .. b.pos : a.chars[k] = b.chars[k]
  BY <1>1, <1>2, <1>3 DEF bit, Bit
<1>8. ASSUME Clean(b)
      PROVE  /\ \A k \in 1 .. n : a.chars[b.pos + k] = field[k]
             /\ \A k \in end + 1 .. 8 * bytes : a.chars[k] = 0
  <2>1. \A k \in b.pos + 1 .. 8 * bytes : old(k) = 0
    BY <1>2, <1>8 DEF Clean, ByteEnd
  <2>2. \A k \in 1 .. n : new(b.pos + k) = field[k]
    BY <1>2
  <2>3. \A k \in end + 1 .. 8 * bytes : new(k) = 0
    BY <1>2
  <2> HIDE DEF old, new
  <2>4. \A k \in 1 .. n : b.pos + k \in 1 .. 8 * bytes /\ b.pos + k \in b.pos + 1 .. 8 * bytes
    BY <1>2
  <2>5. \A k \in 1 .. n : bit(b.pos + k) = field[k]
    BY <1>4, <2>1, <2>2, <2>4 DEF bit, Bit
  <2>6. \A k \in end + 1 .. 8 * bytes : k \in b.pos + 1 .. 8 * bytes
    BY <1>2
  <2>7. \A k \in end + 1 .. 8 * bytes : bit(k) = 0
    BY <2>1, <2>3, <2>6 DEF bit
  <2>8. \A k \in end + 1 .. 8 * bytes : k \in 1 .. 8 * bytes
    BY <1>2
  <2> QED BY <1>1, <2>4, <2>5, <2>7, <2>8
<1>9. Clean(b) => Clean(a)
  BY <1>1, <1>8 DEF Clean, ByteEnd, CharPtr, bytes
<1>10. Stored(b, field, a)
  BY <1>1, <1>7, <1>8, <1>9 DEF Stored
<1>11. a \in Packer
  <2>1. a = [b EXCEPT !.chars = a.chars, !.pos = a.pos, !.nbBits = a.nbBits]
    BY <1>1 DEF a, OrInto, Packer
  <2>2. a.pos \in Nat /\ a.nbBits \in Nat
    BY <1>1, <1>2, PackerFields
  <2> HIDE DEF end, n
  <2> QED BY <1>6, <2>1, <2>2 DEF Packer
<1> QED BY <1>1, <1>6, <1>10, <1>11 DEF a, bytes

(* The byte in which a field ends lies in the buffer, once it has grown.   *)
LEMMA GrownIsEnough ==
  ASSUME NEW b, Tidy(b), NEW n \in 1 .. 32, ~TooSmall(b, n) \/ b.owner
  PROVE  LET g == Grown(b, n)
         IN /\ g \in Packer
            /\ (b.pos + n) \div BITS_PER_CHAR + 1 <= g.buf_size
            /\ g.chars = b.chars /\ g.pos = b.pos /\ g.nbBits = b.nbBits
            /\ g.overflow = b.overflow /\ g.owner = b.owner
<1> USE DEF BITS_PER_CHAR
<1> DEFINE c == b.pos \div 8
           d == b.pos % 8
           e == (n + d) \div 8
           size == ((b.buf_size + 5) * 3) \div 2
<1>1. b \in Packer /\ b.pos \in Nat /\ b.buf_size \in Nat /\ b.buf_size >= 1
  BY PackerFields DEF Tidy
<1>2. c \in Nat /\ d \in 0 .. 7
  BY <1>1, ByteOfPosition
<1>3. c + 1 <= b.buf_size
  BY <1>1, <1>2, PackerFields DEF Tidy, ByteEnd, CharPtr
<1>4. TooSmall(b, n) <=> c + e >= b.buf_size
  BY DEF TooSmall, CharPtr, BitPtr
<1>5. (b.pos + n) \div 8 = c + e
  BY <1>1, BytesEntered
<1> HIDE DEF c, d
<1>6. e \in Nat /\ e <= 4
  BY <1>2
<1> HIDE DEF e
<1>7. size \in Nat /\ size >= b.buf_size + 4
  BY <1>1
<1> HIDE DEF size
<1>8. CASE TooSmall(b, n)
  <2>1. Grown(b, n) = [b EXCEPT !.buf_size = size]
    BY <1>8 DEF Grown, size
  <2>2. [b EXCEPT !.buf_size = size] \in Packer
    BY <1>1, <1>7 DEF Packer
  <2>3. c + e + 1 <= size
    BY <1>1, <1>2, <1>3, <1>6, <1>7
  <2> QED BY <1>1, <1>5, <2>1, <2>2, <2>3 DEF Packer
<1>9. CASE ~TooSmall(b, n)
  <2>1. Grown(b, n) = b
    BY <1>9 DEF Grown
  <2>2. c + e + 1 <= b.buf_size
    BY <1>1, <1>2, <1>4, <1>6, <1>9
  <2> QED BY <1>1, <1>5, <2>1, <2>2
<1> QED BY <1>8, <1>9

(* A field is packed, or a buffer of someone else left as it was.          *)
LEMMA FieldPacked ==
  ASSUME NEW b, Tidy(b), NEW field \in Seq(Bit), Len(field) \in 1 .. 32
  PROVE  LET a == PackField(b, field)
         IN /\ Tidy(a) /\ a.owner = b.owner
            /\ a = b \/ Stored(b, field, a)
            /\ b.owner => Stored(b, field, a)
<1> DEFINE n == Len(field)
           a == PackField(b, field)
<1>1. CASE TooSmall(b, n) /\ ~b.owner
  BY <1>1 DEF PackField
<1>2. CASE ~TooSmall(b, n) \/ b.owner
  <2> DEFINE g == Grown(b, n)
  <2>1. a = OrInto(g, field)
    BY <1>2, Zenon DEF PackField
  <2>2. /\ g \in Packer
        /\ (b.pos + n) \div BITS_PER_CHAR + 1 <= g.buf_size
        /\ g.chars = b.chars /\ g.pos = b.pos /\ g.nbBits = b.nbBits
        /\ g.overflow = b.overflow /\ g.owner = b.owner
    BY <1>2, GrownIsEnough, Zenon
  <2> HIDE DEF g, a
  <2>3. ByteEnd(g) <= Len(g.chars)
    BY <2>2 DEF Tidy, ByteEnd, CharPtr
  <2>4. /\ a \in Packer
        /\ Len(a.chars) = BITS_PER_CHAR * ((g.pos + n) \div BITS_PER_CHAR + 1)
        /\ a.overflow = g.overflow /\ a.buf_size = g.buf_size /\ a.owner = g.owner
        /\ Stored(g, field, a)
    BY <2>1, <2>2, <2>3, Ored
  <2>5. Stored(b, field, a)
    BY <2>2, <2>4 DEF Stored, Clean, ByteEnd, CharPtr
  <2>6. a.pos = b.pos + n
    BY <2>5 DEF Stored
  <2>7. Tidy(a)
    <3>1. (b.pos + n) \div BITS_PER_CHAR \in Nat /\ a.buf_size \in Nat
      BY <2>2, <2>4, PackerFields DEF BITS_PER_CHAR, Tidy
    <3>2. ByteEnd(a) = Len(a.chars)
      BY <2>2, <2>4, <2>6 DEF ByteEnd, CharPtr
    <3> QED BY <2>2, <2>4, <3>1, <3>2, PackerFields DEF Tidy, BITS_PER_CHAR
  <2> QED BY <2>2, <2>4, <2>5, <2>7 DEF a
<1> QED BY <1>1, <1>2

(* A sequence whose parts are s and t.                                     *)
LEMMA TwoParts ==
  ASSUME NEW S, NEW s \in Seq(S), NEW t \in Seq(S), NEW u \in Seq(S),
         NEW m \in Nat, NEW n \in Nat, Len(s) = m, Len(t) = n, Len(u) = m + n,
         \A k \in 1 .. m : u[k] = s[k],
         \A k \in 1 .. n : u[m + k] = t[k]
  PROVE  u = s \o t
<1>1. Len(s) \in Nat /\ Len(t) \in Nat
  OBVIOUS
<1>2. s \o t \in Seq(S) /\ Len(s \o t) = Len(s) + Len(t)
  BY ConcatProperties
<1>3. ASSUME NEW k \in 1 .. Len(u) PROVE u[k] = (s \o t)[k]
  <2>1. (s \o t)[k] = IF k <= Len(s) THEN s[k] ELSE t[k - Len(s)]
    BY ConcatProperties, ZenonT(60)
  <2>2. CASE k <= Len(s)
    BY <2>1, <2>2
  <2>3. CASE k > Len(s)
    <3>1. k - Len(s) \in 1 .. Len(t) /\ Len(s) + (k - Len(s)) = k
      BY <1>1, <2>3
    <3>2. u[k] = t[k - Len(s)]
      BY <3>1
    <3> QED BY <1>1, <2>1, <2>3, <3>2
  <2> QED BY <1>1, <2>2, <2>3
<1> QED BY <1>2, <1>3, SeqEqual

LEMMA BitsAssociate == \A s, t, u \in Seq(Bit) : (s \o t) \o u = s \o (t \o u)
BY ConcatAssociative

LEMMA FirstPart ==
  ASSUME NEW S, NEW s \in Seq(S), NEW m \in Nat, NEW n \in Nat, m <= n, n <= Len(s)
  PROVE  /\ SubSeq(s, m + 1, n) \in Seq(S) /\ Len(SubSeq(s, m + 1, n)) = n - m
         /\ \A k \in 1 .. n - m : SubSeq(s, m + 1, n)[k] = s[m + k]
<1>1. \A ix \in m + 1 .. n : s[ix] \in S
  OBVIOUS
<1>2. m + 1 \in Int /\ n \in Int /\ n - (m + 1) + 1 = n - m
  OBVIOUS
<1> DEFINE p == SubSeq(s, m + 1, n)
<1>3. /\ p \in Seq(S) /\ Len(p) = (IF m + 1 <= n THEN n - (m + 1) + 1 ELSE 0)
      /\ \A ix \in 1 .. n - (m + 1) + 1 : p[ix] = s[m + 1 + ix - 1]
  BY <1>1, <1>2, SubSeqProperties
<1> HIDE DEF p
<1>4. Len(p) = n - m
  BY <1>3
<1>5. \A k \in 1 .. n - m : m + 1 + k - 1 = m + k
  OBVIOUS
<1> QED BY <1>2, <1>3, <1>4, <1>5 DEF p

(* The bits of the writer and of the reader.                               *)
WrittenIn(b) == SubSeq(b.chars, 1, b.nbBits)
UnreadIn(b) == SubSeq(b.chars, b.pos + 1, b.nbBits)

Writer(b) == Tidy(b) /\ b.pos = b.nbBits

Reader(b) ==
  /\ b \in Packer /\ b.owner
  /\ b.pos <= b.nbBits /\ b.nbBits <= Len(b.chars) /\ b.nbBits % BITS_PER_CHAR = 0

LEMMA WriterBits ==
  ASSUME NEW b, Writer(b)
  PROVE  /\ b.pos \in Nat /\ b.nbBits \in Nat /\ Len(b.chars) \in Nat
         /\ b.chars \in Seq(Bit) /\ b.nbBits < Len(b.chars)
         /\ WrittenIn(b) \in Seq(Bit) /\ Len(WrittenIn(b)) = b.nbBits
         /\ \A k \in 1 .. b.nbBits : WrittenIn(b)[k] = b.chars[k]
<1>1. b \in Packer /\ b.pos = b.nbBits
  BY DEF Writer, Tidy
<1>2. /\ b.pos \in Nat /\ b.nbBits \in Nat /\ Len(b.chars) \in Nat
      /\ b.chars \in Seq(Bit)
  BY <1>1, PackerFields
<1>3. b.nbBits < Len(b.chars)
  BY <1>1, <1>2 DEF Writer, Tidy, ByteEnd, CharPtr, BITS_PER_CHAR
<1>4. \A k \in 1 .. b.nbBits : b.chars[k] \in Bit
  BY <1>2, <1>3
<1> QED BY <1>2, <1>3, <1>4, SubSeqProperties DEF WrittenIn

LEMMA StoredAppends ==
  ASSUME NEW b, Writer(b), NEW field \in Seq(Bit), NEW a, Tidy(a), Stored(b, field, a), Clean(b)
  PROVE  Writer(a) /\ Clean(a) /\ WrittenIn(a) = WrittenIn(b) \o field
<1>1. Writer(a)
  BY DEF Writer, Stored
<1>2. Clean(a)
  BY DEF Stored
<1>3. /\ WrittenIn(a) \in Seq(Bit) /\ Len(WrittenIn(a)) = a.nbBits
      /\ \A k \in 1 .. a.nbBits : WrittenIn(a)[k] = a.chars[k]
  BY <1>1, WriterBits
<1>4. /\ WrittenIn(b) \in Seq(Bit) /\ Len(WrittenIn(b)) = b.nbBits
      /\ \A k \in 1 .. b.nbBits : WrittenIn(b)[k] = b.chars[k]
      /\ b.nbBits \in Nat /\ b.pos = b.nbBits
  BY WriterBits DEF Writer
<1>5. /\ a.nbBits = b.nbBits + Len(field) /\ Len(field) \in Nat
      /\ \A k \in 1 .. b.nbBits : a.chars[k] = b.chars[k]
      /\ \A k \in 1 .. Len(field) : a.chars[b.nbBits + k] = field[k]
  BY <1>4 DEF Stored
<1> DEFINE before == WrittenIn(b)
           after == WrittenIn(a)
<1> HIDE DEF before, after
<1>6. Len(after) = b.nbBits + Len(field) /\ Len(before) = b.nbBits
  BY <1>3, <1>4, <1>5 DEF before, after
<1>7. ASSUME NEW k \in 1 .. b.nbBits PROVE after[k] = before[k]
  BY <1>3, <1>4, <1>5 DEF before, after
<1>8. ASSUME NEW k \in 1 .. Len(field) PROVE after[b.nbBits + k] = field[k]
  <2>1. b.nbBits + k \in 1 .. a.nbBits
    BY <1>4, <1>5
  <2> QED BY <1>3, <1>5, <2>1 DEF after
<1>9. after = before \o field
  <2>1. before \in Seq(Bit) /\ after \in Seq(Bit)
    BY <1>3, <1>4 DEF before, after
  <2> QED BY <1>4, <1>5, <1>6, <1>7, <1>8, <2>1, TwoParts, ZenonT(60)
<1> QED BY <1>1, <1>2, <1>9 DEF before, after

LEMMA WholeBytesWritten ==
  ASSUME NEW b, Writer(b), Clean(b)
  PROVE  LET out == speex_bits_write_whole_bytes(b, speex_bits_nbytes(b))
         IN /\ Writer(out.bits) /\ Clean(out.bits) /\ out.bits.owner = b.owner
            /\ out.packet \in Seq(Bit) /\ Len(out.packet) % BITS_PER_CHAR = 0
            /\ out.packet \o WrittenIn(out.bits) = WrittenIn(b)
<1> USE DEF BITS_PER_CHAR
<1> DEFINE c == b.nbBits \div 8
           d == b.nbBits % 8
           kept == IF d > 0 THEN SubSeq(b.chars, 8 * c + 1, 8 * (c + 1)) ELSE Zeros(8)
           out == speex_bits_write_whole_bytes(b, speex_bits_nbytes(b))
<1>1. /\ b \in Packer /\ b.pos = b.nbBits /\ b.nbBits \in Nat /\ b.chars \in Seq(Bit)
      /\ b.buf_size \in Nat /\ b.buf_size >= 1 /\ Len(b.chars) \in Nat
  BY PackerFields DEF Writer, Tidy
<1>2. c \in Nat /\ d \in 0 .. 7 /\ 8 * c + d = b.nbBits
  BY <1>1, ByteOfPosition
<1>3. 8 * (c + 1) <= Len(b.chars)
  BY <1>1 DEF Writer, Tidy, ByteEnd, CharPtr
<1>4. /\ out.bits = [b EXCEPT !.chars = kept, !.pos = d, !.nbBits = d]
      /\ out.packet = SubSeq(b.chars, 1, 8 * c)
  <2> DEFINE max == speex_bits_nbytes(b)
  <2>1. max = (8 * c + d + 7) \div 8
    BY <1>1, <1>2 DEF speex_bits_nbytes, Chars
  <2>2. max >= c /\ max \in Nat
    BY <1>2, <2>1
  <2> HIDE DEF max
  <2>3. (IF max > c THEN c ELSE max) = c
    BY <1>2, <2>2
  <2>4. /\ out.bits = [b EXCEPT !.chars = IF d > 0
                                         THEN SubSeq(b.chars, 8 * (IF max > c THEN c ELSE max) + 1,
                                                     8 * ((IF max > c THEN c ELSE max) + 1))
                                         ELSE Zeros(8),
                                !.pos = d, !.nbBits = d]
        /\ out.packet = SubSeq(b.chars, 1, 8 * (IF max > c THEN c ELSE max))
    BY <1>1 DEF speex_bits_write_whole_bytes, BitPtr, max, Packer
  <2> QED BY <2>3, <2>4
<1> HIDE DEF out, c, d
<1>5. /\ out.packet \in Seq(Bit) /\ Len(out.packet) = 8 * c
      /\ \A k \in 1 .. 8 * c : out.packet[k] = b.chars[k]
  <2>1. 8 * c \in Nat /\ 8 * c <= Len(b.chars)
    BY <1>1, <1>2, <1>3
  <2>2. 0 \in Nat /\ 0 <= 8 * c /\ 0 + 1 = 1 /\ 8 * c - 0 = 8 * c /\ \A k \in 1 .. 8 * c : 0 + k = k
    BY <2>1
  <2> HIDE DEF c
  <2>3. /\ SubSeq(b.chars, 0 + 1, 8 * c) \in Seq(Bit)
        /\ Len(SubSeq(b.chars, 0 + 1, 8 * c)) = 8 * c - 0
        /\ \A k \in 1 .. 8 * c - 0 : SubSeq(b.chars, 0 + 1, 8 * c)[k] = b.chars[0 + k]
    BY <1>1, <2>1, <2>2, FirstPart
  <2> QED BY <1>4, <2>2, <2>3
<1>6. kept \in Seq(Bit) /\ Len(kept) = 8
  <2>1. CASE d > 0
    BY <1>1, <1>2, <1>3, <2>1, SubSeqProperties
  <2>2. CASE ~(d > 0)
    BY <2>2 DEF Zeros, Bit
  <2> QED BY <2>1, <2>2
<1>7. \A k \in 1 .. d : kept[k] = b.chars[8 * c + k]
  BY <1>1, <1>2, <1>3, SubSeqProperties
<1>8. \A k \in d + 1 .. 8 : kept[k] = 0
  <2>1. CASE d > 0
    <3>1. \A k \in 1 .. 8 : kept[k] = b.chars[8 * c + k]
      BY <1>1, <1>2, <1>3, <2>1, SubSeqProperties
    <3>2. \A k \in d + 1 .. 8 : 8 * c + k \in b.pos + 1 .. ByteEnd(b)
      <4>1. ByteEnd(b) = 8 * (c + 1)
        BY <1>1 DEF ByteEnd, CharPtr, c
      <4> QED BY <1>1, <1>2, <4>1
    <3> QED BY <1>2, <3>1, <3>2 DEF Clean
  <2>2. CASE ~(d > 0)
    BY <1>2, <2>2 DEF Zeros
  <2> QED BY <2>1, <2>2
<1> HIDE DEF kept
<1>9. /\ out.bits \in Packer /\ out.bits.chars = kept /\ out.bits.pos = d /\ out.bits.nbBits = d
      /\ out.bits.buf_size = b.buf_size /\ out.bits.owner = b.owner
  <2>1. d \in Nat
    BY <1>2
  <2> HIDE DEF d
  <2> QED BY <1>1, <1>4, <1>6, <2>1 DEF Packer
<1>10. ByteEnd(out.bits) = 8
  BY <1>2, <1>9 DEF ByteEnd, CharPtr
<1>11. Writer(out.bits)
  <2>1. Len(out.bits.chars) = 8
    BY <1>6, <1>9, Zenon
  <2>2. out.bits.buf_size \in Nat /\ out.bits.buf_size >= 1
    BY <1>1, <1>9, Zenon
  <2>3. Len(out.bits.chars) <= 8 * out.bits.buf_size
    BY <2>1, <2>2
  <2>4. ByteEnd(out.bits) <= Len(out.bits.chars)
    BY <1>10, <2>1
  <2> QED BY <1>9, <2>3, <2>4 DEF Writer, Tidy
<1>12. Clean(out.bits)
  BY <1>8, <1>9, <1>10 DEF Clean
<1>13. out.packet \o WrittenIn(out.bits) = WrittenIn(b)
  <2> DEFINE rest == WrittenIn(out.bits)
             all == WrittenIn(b)
  <2>1. rest \in Seq(Bit) /\ Len(rest) = d /\ \A k \in 1 .. d : rest[k] = kept[k]
    BY <1>9, <1>11, WriterBits
  <2>2. all \in Seq(Bit) /\ Len(all) = 8 * c + d /\ \A k \in 1 .. 8 * c + d : all[k] = b.chars[k]
    BY <1>2, WriterBits
  <2> HIDE DEF rest, all
  <2>3. 8 * c \in Nat /\ d \in Nat
    BY <1>2
  <2>4. ASSUME NEW k \in 1 .. 8 * c PROVE all[k] = out.packet[k]
    BY <1>5, <2>2, <2>3
  <2>5. ASSUME NEW k \in 1 .. d PROVE all[8 * c + k] = rest[k]
    <3>1. 8 * c + k \in 1 .. 8 * c + d
      BY <2>3
    <3> QED BY <1>7, <2>1, <2>2, <3>1
  <2>6. all = out.packet \o rest
    <3> DEFINE front == out.packet
    <3>1. front \in Seq(Bit) /\ Len(front) = 8 * c /\ \A k \in 1 .. 8 * c : all[k] = front[k]
      BY <1>5, <2>4
    <3> DEFINE m == 8 * c
    <3>2. m \in Nat /\ Len(front) = m /\ Len(all) = m + d
      BY <2>2, <2>3, <3>1
    <3>3. \A k \in 1 .. m : all[k] = front[k]
      BY <3>1
    <3>4. \A k \in 1 .. d : all[m + k] = rest[k]
      BY <2>5
    <3> HIDE DEF front, m
    <3>5. front \in Seq(Bit) /\ rest \in Seq(Bit) /\ all \in Seq(Bit) /\ d \in Nat /\ Len(rest) = d
      BY <2>1, <2>2, <2>3, <3>1
    <3>6. all = front \o rest
      BY <3>2, <3>3, <3>4, <3>5, TwoParts, ZenonT(60)
    <3> QED BY <3>6 DEF front
  <2> QED BY <2>6 DEF rest, all
<1>14. Len(out.packet) % 8 = 0
  BY <1>2, <1>5
<1> QED BY <1>5, <1>9, <1>11, <1>12, <1>13, <1>14 DEF out

LEMMA ReaderBits ==
  ASSUME NEW b, Reader(b)
  PROVE  /\ b.pos \in Nat /\ b.nbBits \in Nat /\ b.pos <= b.nbBits
         /\ UnreadIn(b) \in Seq(Bit) /\ Len(UnreadIn(b)) = b.nbBits - b.pos
         /\ \A k \in 1 .. b.nbBits - b.pos : UnreadIn(b)[k] = b.chars[b.pos + k]
<1>1. /\ b.pos \in Nat /\ b.nbBits \in Nat /\ b.chars \in Seq(Bit)
      /\ b.pos <= b.nbBits /\ b.nbBits <= Len(b.chars)
  BY PackerFields DEF Reader
<1> QED BY <1>1, FirstPart, SMTT(30) DEF UnreadIn

LEMMA WholeBytesRead ==
  ASSUME NEW b, Reader(b), NEW packet \in Seq(Bit), Len(packet) % BITS_PER_CHAR = 0
  PROVE  LET a == speex_bits_read_whole_bytes(b, packet)
         IN Reader(a) /\ UnreadIn(a) = UnreadIn(b) \o packet
<1> USE DEF BITS_PER_CHAR
<1> DEFINE a == speex_bits_read_whole_bytes(b, packet)
           c == b.pos \div 8
           d == b.pos % 8
           h == b.nbBits - 8 * c
           n == Len(packet)
           size == IF Chars(b.nbBits) + (n \div 8) > b.buf_size
                   THEN (b.nbBits \div 8) + (n \div 8) + 1 ELSE b.buf_size
           flushed == SubSeq(b.chars, 8 * c + 1, Len(b.chars))
           kept == SubSeq(flushed, 1, h)
<1>1. /\ b \in Packer /\ b.owner /\ b.pos \in Nat /\ b.nbBits \in Nat /\ b.pos <= b.nbBits
      /\ b.nbBits <= Len(b.chars) /\ b.chars \in Seq(Bit) /\ Len(b.chars) \in Nat
      /\ b.buf_size \in Nat /\ b.buf_size >= 1 /\ b.nbBits % 8 = 0
  BY PackerFields DEF Reader
<1>2. c \in Nat /\ d \in 0 .. 7 /\ 8 * c + d = b.pos
  BY <1>1, ByteOfPosition
<1>3. n \in Nat /\ n % 8 = 0 /\ n \div 8 \in Nat /\ 8 * (n \div 8) = n
  <2>1. n \in Nat /\ n % 8 = 0
    OBVIOUS
  <2>2. n \div 8 \in Nat /\ 8 * (n \div 8) + (n % 8) = n
    BY <2>1, ByteOfPosition
  <2> QED BY <2>1, <2>2
<1>4. b.nbBits \div 8 \in Nat /\ 8 * (b.nbBits \div 8) = b.nbBits
  <2>1. b.nbBits \div 8 \in Nat /\ 8 * (b.nbBits \div 8) + (b.nbBits % 8) = b.nbBits
    BY <1>1, ByteOfPosition
  <2> QED BY <1>1, <2>1
<1> HIDE DEF c, d
<1>5. h \in Nat /\ d <= h /\ 8 * (h \div 8) = h /\ h % 8 = 0
  <2> DEFINE e == b.nbBits \div 8
  <2>1. e \in Nat /\ b.nbBits = 8 * e
    BY <1>4
  <2> HIDE DEF e
  <2>2. e - c \in Nat /\ h = 8 * (e - c)
    BY <1>1, <1>2, <2>1
  <2>3. h \div 8 = e - c /\ h % 8 = 0
    BY <1>2, <2>1, <2>2
  <2> QED BY <1>1, <1>2, <2>2, <2>3, SMTT(30)
<1>6. size \in Nat \ {0}
  <2>1. (b.nbBits \div 8) + (n \div 8) + 1 \in Nat \ {0} /\ b.buf_size \in Nat \ {0}
    <3> HIDE DEF n
    <3> QED BY <1>1, <1>3, <1>4, SMTT(30)
  <2> QED BY <2>1, Zenon
<1>7. a = [b EXCEPT !.chars = kept \o SubSeq(packet, 1, n), !.nbBits = h + n, !.pos = d,
                    !.buf_size = size]
  <2> DEFINE f == speex_bits_flush(b)
  <2>1. f = [b EXCEPT !.chars = flushed, !.nbBits = h, !.pos = d]
    BY <1>1 DEF speex_bits_flush, CharPtr, BitPtr, c, d, Packer
  <2>2. /\ f.chars = flushed /\ f.nbBits = h /\ f.pos = d
    BY <1>1, <2>1 DEF Packer
  <2> HIDE DEF f, h, n, flushed
  <2>3. a = [f EXCEPT !.chars = SubSeq(f.chars, 1, 8 * (f.nbBits \div 8)) \o SubSeq(packet, 1, 8 * (n \div 8)),
                      !.nbBits = f.nbBits + 8 * (n \div 8), !.buf_size = size]
    BY <1>1, <2>1 DEF speex_bits_read_whole_bytes, f, n, Packer
  <2>4. a = [f EXCEPT !.chars = kept \o SubSeq(packet, 1, n), !.nbBits = h + n, !.buf_size = size]
    BY <1>3, <1>5, <2>2, <2>3
  <2> HIDE DEF kept, size, a
  <2> QED BY <1>1, <2>1, <2>4 DEF Packer
<1>8. /\ kept \in Seq(Bit) /\ Len(kept) = h
      /\ \A k \in 1 .. h : kept[k] = b.chars[8 * c + k]
  <2> DEFINE total == Len(b.chars)
  <2>1. 8 * c \in Nat /\ 8 * c <= total /\ total \in Nat /\ h <= total - 8 * c
    <3>1. total \in Nat /\ b.nbBits <= total
      BY <1>1
    <3> HIDE DEF total
    <3>2. 8 * c <= b.pos
      BY <1>1, <1>2
    <3> QED BY <1>1, <1>2, <3>1, <3>2
  <2>2. /\ flushed \in Seq(Bit) /\ Len(flushed) = total - 8 * c
        /\ \A k \in 1 .. total - 8 * c : flushed[k] = b.chars[8 * c + k]
    <3> DEFINE m == 8 * c
    <3>1. m \in Nat /\ m <= total /\ total \in Nat /\ total <= Len(b.chars)
      BY <2>1
    <3> HIDE DEF m, total
    <3>2. /\ SubSeq(b.chars, m + 1, total) \in Seq(Bit) /\ Len(SubSeq(b.chars, m + 1, total)) = total - m
          /\ \A k \in 1 .. total - m : SubSeq(b.chars, m + 1, total)[k] = b.chars[m + k]
      BY <1>1, <3>1, FirstPart
    <3> QED BY <3>2 DEF m, total
  <2> HIDE DEF flushed, total, h
  <2>3. \A k \in 1 .. h : flushed[k] \in Bit
    BY <1>5, <2>1, <2>2
  <2>4. 1 \in Int /\ h \in Int
    BY <1>5
  <2>5. /\ kept \in Seq(Bit) /\ Len(kept) = (IF 1 <= h THEN h - 1 + 1 ELSE 0)
        /\ \A k \in 1 .. h - 1 + 1 : kept[k] = flushed[1 + k - 1]
    BY <2>3, <2>4, SubSeqProperties
  <2> HIDE DEF kept
  <2>6. Len(kept) = h
    BY <1>5, <2>5
  <2>7. ASSUME NEW k \in 1 .. h PROVE kept[k] = b.chars[8 * c + k]
    <3>1. k \in 1 .. h - 1 + 1 /\ 1 + k - 1 = k /\ k \in 1 .. total - 8 * c
      BY <1>5, <2>1
    <3> QED BY <2>2, <2>5, <3>1
  <2> QED BY <2>5, <2>6, <2>7
<1>9. SubSeq(packet, 1, n) = packet
  BY SubSeqFull
<1> HIDE DEF kept, h, n, size, flushed, a
<1> DEFINE all == kept \o packet
<1>10. /\ all \in Seq(Bit) /\ Len(all) = h + n
       /\ \A k \in 1 .. h : all[k] = b.chars[8 * c + k]
       /\ \A k \in 1 .. n : all[h + k] = packet[k]
  <2>1. /\ all \in Seq(Bit) /\ Len(all) = h + n
        /\ \A k \in 1 .. h + n : all[k] = IF k <= h THEN kept[k] ELSE packet[k - h]
    BY <1>8, ConcatProperties DEF n
  <2> HIDE DEF all
  <2>2. \A k \in 1 .. h : all[k] = b.chars[8 * c + k]
    BY <1>3, <1>5, <1>8, <2>1
  <2>3. ASSUME NEW k \in 1 .. n PROVE all[h + k] = packet[k]
    <3> DEFINE j == h + k
    <3>1. j \in 1 .. h + n /\ ~(j <= h) /\ j - h = k
      BY <1>3, <1>5
    <3> HIDE DEF j
    <3>2. all[j] = packet[j - h]
      BY <2>1, <3>1
    <3> QED BY <3>1, <3>2 DEF j
  <2> QED BY <2>1, <2>2, <2>3
<1> HIDE DEF all
<1>11. /\ a \in Packer /\ a.chars = all /\ a.nbBits = h + n /\ a.pos = d /\ a.owner = b.owner
  <2>1. h + n \in Nat /\ d \in Nat
    BY <1>2, <1>3, <1>5
  <2>2. a = [b EXCEPT !.chars = all, !.nbBits = h + n, !.pos = d, !.buf_size = size]
    BY <1>7, <1>9 DEF all
  <2> QED BY <1>1, <1>6, <1>10, <2>1, <2>2 DEF Packer
<1>12. Reader(a)
  <2>1. a.pos <= a.nbBits /\ a.nbBits <= Len(a.chars)
    BY <1>2, <1>3, <1>5, <1>10, <1>11
  <2>2. a.nbBits % 8 = 0
    BY <1>3, <1>5, <1>11
  <2> QED BY <1>1, <1>11, <2>1, <2>2 DEF Reader
<1>13. UnreadIn(a) = UnreadIn(b) \o packet
  <2> DEFINE u == UnreadIn(a)
             s == UnreadIn(b)
             m == h - d
  <2>1. m \in Nat /\ b.nbBits - b.pos = m /\ h + n - d = m + n
    <3>1. m \in Nat /\ h + n - d = m + n
      BY <1>2, <1>3, <1>5
    <3>2. b.nbBits - b.pos = h - d
      BY <1>1, <1>2 DEF h
    <3> QED BY <3>1, <3>2
  <2>2. /\ u \in Seq(Bit) /\ Len(u) = h + n - d
        /\ \A k \in 1 .. h + n - d : u[k] = all[d + k]
    <3>1. /\ u \in Seq(Bit) /\ Len(u) = a.nbBits - a.pos
          /\ \A k \in 1 .. a.nbBits - a.pos : u[k] = a.chars[a.pos + k]
      BY <1>12, ReaderBits
    <3> HIDE DEF u
    <3>2. a.nbBits - a.pos = h + n - d
      <4>1. a.nbBits - a.pos = (h + n) - d
        BY <1>11
      <4> QED BY <1>2, <1>3, <1>5, <4>1
    <3>3. ASSUME NEW k \in 1 .. h + n - d PROVE u[k] = all[d + k]
      <4>1. u[k] = a.chars[a.pos + k]
        BY <3>1, <3>2
      <4> QED BY <1>11, <4>1
    <3> QED BY <3>1, <3>2, <3>3
  <2>3. /\ s \in Seq(Bit) /\ Len(s) = m
        /\ \A k \in 1 .. m : s[k] = b.chars[b.pos + k]
    BY <2>1, ReaderBits
  <2> HIDE DEF u, s
  <2>4. ASSUME NEW k \in 1 .. m PROVE u[k] = s[k]
    <3>1. k \in 1 .. h + n - d /\ d + k \in 1 .. h /\ 8 * c + (d + k) = b.pos + k
      BY <1>2, <1>3, <1>5, <2>1
    <3> QED BY <1>10, <2>2, <2>3, <3>1
  <2>5. ASSUME NEW k \in 1 .. n PROVE u[m + k] = packet[k]
    <3>1. m + k \in 1 .. h + n - d /\ d + (m + k) = h + k
      BY <1>2, <1>3, <1>5, <2>1
    <3> QED BY <1>10, <2>2, <3>1
  <2> HIDE DEF m
  <2>6. /\ Len(u) = m + n /\ Len(packet) = n /\ Len(s) = m
        /\ u \in Seq(Bit) /\ s \in Seq(Bit) /\ m \in Nat /\ n \in Nat
    BY <1>3, <2>1, <2>2, <2>3 DEF n
  <2>7. u = s \o packet
    BY <2>4, <2>5, <2>6, TwoParts, ZenonT(60)
  <2> QED BY <2>7 DEF u, s
<1> QED BY <1>12, <1>13 DEF a

(* What is left of two parts when bits of the first one are taken away.    *)
LEMMA TakenFromFront ==
  ASSUME NEW S, NEW s \in Seq(S), NEW t \in Seq(S), NEW n \in 1 .. Len(s)
  PROVE  /\ n \in 1 .. Len(s \o t)
         /\ SubSeq(s, n + 1, Len(s)) \o t = SubSeq(s \o t, n + 1, Len(s \o t))
<1> DEFINE ix == Len(s)
           j == Len(t)
           all == s \o t
           left == SubSeq(s, n + 1, ix)
           u == SubSeq(all, n + 1, ix + j)
<1>1. ix \in Nat /\ j \in Nat /\ n \in Nat /\ n <= ix /\ n >= 1
  OBVIOUS
<1>2. all \in Seq(S) /\ Len(all) = ix + j
  BY ConcatProperties
<1>3. \A k \in 1 .. ix + j : all[k] = IF k <= ix THEN s[k] ELSE t[k - ix]
  BY ConcatProperties
<1>4. /\ left \in Seq(S) /\ Len(left) = ix - n
      /\ \A k \in 1 .. ix - n : left[k] = s[n + k]
  BY <1>1, FirstPart
<1> HIDE DEF ix, j, all
<1>5. /\ u \in Seq(S) /\ Len(u) = (ix + j) - n
      /\ \A k \in 1 .. (ix + j) - n : u[k] = all[n + k]
  <2> DEFINE e == ix + j
  <2>1. e \in Nat /\ n <= e /\ e <= Len(all)
    BY <1>1, <1>2
  <2> HIDE DEF e
  <2>2. /\ SubSeq(all, n + 1, e) \in Seq(S) /\ Len(SubSeq(all, n + 1, e)) = e - n
        /\ \A k \in 1 .. e - n : SubSeq(all, n + 1, e)[k] = all[n + k]
    BY <1>1, <1>2, <2>1, FirstPart
  <2> QED BY <2>2 DEF e
<1> HIDE DEF left, u
<1> DEFINE m == ix - n
<1>6. m \in Nat /\ (ix + j) - n = m + j
  BY <1>1
<1>7. ASSUME NEW k \in 1 .. m PROVE u[k] = left[k]
  <2>1. k \in 1 .. (ix + j) - n /\ n + k \in 1 .. ix + j /\ n + k <= ix
    BY <1>1
  <2>2. u[k] = all[n + k] /\ left[k] = s[n + k]
    BY <1>4, <1>5, <2>1
  <2> QED BY <1>3, <2>1, <2>2
<1>8. ASSUME NEW k \in 1 .. j PROVE u[m + k] = t[k]
  <2> DEFINE p == ix + k
  <2>1. p \in 1 .. ix + j /\ ~(p <= ix) /\ p - ix = k
    BY <1>1
  <2>2. m + k \in 1 .. (ix + j) - n /\ n + (m + k) = p
    BY <1>1
  <2> HIDE DEF p
  <2>3. all[p] = t[p - ix]
    BY <1>3, <2>1
  <2>4. u[m + k] = all[p]
    BY <1>5, <2>2
  <2> QED BY <2>1, <2>3, <2>4
<1> HIDE DEF m
<1>9. /\ left \in Seq(S) /\ t \in Seq(S) /\ u \in Seq(S) /\ m \in Nat /\ j \in Nat
      /\ Len(left) = m /\ Len(t) = j /\ Len(u) = m + j
  BY <1>1, <1>4, <1>5, <1>6 DEF m, j
<1>10. u = left \o t
  BY <1>7, <1>8, <1>9, TwoParts, ZenonT(60)
<1>11. n \in 1 .. Len(all)
  BY <1>1, <1>2
<1> QED BY <1>2, <1>10, <1>11 DEF u, left, all, ix, j

LEMMA BitsTaken ==
  ASSUME NEW b, Reader(b), NEW n \in Nat \ {0}
  PROVE  LET a == speex_bits_advance(b, n)
         IN /\ Reader(a)
            /\ \/ UnreadIn(a) = UnreadIn(b)
               \/ /\ n \in 1 .. Len(UnreadIn(b))
                  /\ UnreadIn(a) = SubSeq(UnreadIn(b), n + 1, Len(UnreadIn(b)))
<1> DEFINE a == speex_bits_advance(b, n)
           ix == b.nbBits - b.pos
<1>1. /\ b \in Packer /\ b.owner /\ b.pos \in Nat /\ b.nbBits \in Nat /\ b.pos <= b.nbBits
      /\ b.nbBits <= Len(b.chars) /\ b.chars \in Seq(Bit)
  BY PackerFields DEF Reader
<1>2. CASE Exhausted(b, n)
  <2>1. a = [b EXCEPT !.overflow = TRUE]
    BY <1>2 DEF speex_bits_advance, Advanced
  <2>2. /\ a \in Packer /\ a.owner = b.owner /\ a.pos = b.pos /\ a.nbBits = b.nbBits
        /\ a.chars = b.chars
    BY <1>1, <2>1 DEF Packer
  <2> HIDE DEF a
  <2>3. Reader(a) /\ UnreadIn(a) = UnreadIn(b)
    BY <2>2 DEF Reader, UnreadIn
  <2> QED BY <2>3 DEF a
<1>3. CASE ~Exhausted(b, n)
  <2>1. a = [b EXCEPT !.pos = b.pos + n]
    BY <1>1, <1>3 DEF speex_bits_advance, Advanced, Packer
  <2>2. b.pos + n \in Nat /\ b.pos + n <= b.nbBits
    BY <1>1, <1>3 DEF Exhausted
  <2>3. /\ a \in Packer /\ a.owner = b.owner /\ a.pos = b.pos + n /\ a.nbBits = b.nbBits
        /\ a.chars = b.chars
    BY <1>1, <2>1, <2>2 DEF Packer
  <2> HIDE DEF a
  <2>4. Reader(a)
    BY <2>2, <2>3 DEF Reader
  <2> DEFINE s == UnreadIn(b)
             u == UnreadIn(a)
             v == SubSeq(s, n + 1, ix)
  <2>5. /\ s \in Seq(Bit) /\ Len(s) = ix /\ \A k \in 1 .. ix : s[k] = b.chars[b.pos + k]
    BY ReaderBits
  <2>6. ix \in Nat /\ n <= ix /\ ix - n \in Nat
    BY <1>1, <2>2
  <2>7. /\ u \in Seq(Bit) /\ Len(u) = ix - n
        /\ \A k \in 1 .. ix - n : u[k] = b.chars[b.pos + (n + k)]
    <3>1. /\ u \in Seq(Bit) /\ Len(u) = a.nbBits - a.pos
          /\ \A k \in 1 .. a.nbBits - a.pos : u[k] = a.chars[a.pos + k]
      BY <2>4, ReaderBits
    <3> HIDE DEF u
    <3>2. a.nbBits - a.pos = ix - n
      BY <1>1, <2>3
    <3>3. ASSUME NEW k \in 1 .. ix - n PROVE u[k] = b.chars[b.pos + (n + k)]
      <4>1. u[k] = a.chars[a.pos + k]
        BY <3>1, <3>2
      <4>2. a.pos + k = b.pos + (n + k)
        BY <1>1, <2>3
      <4> QED BY <2>3, <4>1, <4>2
    <3> QED BY <3>1, <3>2, <3>3
  <2> HIDE DEF s, u, ix
  <2>8. /\ v \in Seq(Bit) /\ Len(v) = ix - n /\ \A k \in 1 .. ix - n : v[k] = s[n + k]
    BY <2>5, <2>6, FirstPart
  <2> HIDE DEF v
  <2>9. ASSUME NEW k \in 1 .. ix - n PROVE u[k] = v[k]
    <3>1. n + k \in 1 .. ix
      BY <2>6
    <3> QED BY <2>5, <2>7, <2>8, <3>1
  <2>10. u = v
    BY <2>7, <2>8, <2>9, SeqEqual
  <2>11. n \in 1 .. Len(s)
    BY <2>5, <2>6
  <2> QED BY <2>4, <2>5, <2>10, <2>11 DEF a, s, u, v
<1> QED BY <1>2, <1>3

(* A terminator is in the buffer only when the buffer is dirty: until then *)
(* nothing lies behind the position, and what lies before it is packed.    *)
Content == ~dirty => Clean(w) /\ (use = "packet" => WrittenIn(w) = packed)

UseTidy ==
  /\ use \in {"stream", "packet"} /\ dirty \in BOOLEAN /\ packed \in Seq(Bit)
  /\ use = "stream" => ~dirty /\ saved = <<>> /\ w.owner

SavedTidy ==
  saved # <<>> =>
    /\ saved[1].pos = saved[1].nbBits /\ saved[1].pos \in 0 .. w.pos
    /\ ~dirty => w.pos = saved[1].pos

BitIInv == Writer(w) /\ Reader(r) /\ UseTidy /\ SavedTidy /\ Content

LEMMA CleanStart ==
  ASSUME NEW size \in Nat \ {0}, NEW owned \in BOOLEAN
  PROVE  LET b == speex_bits_init(size, owned)
         IN /\ Writer(b) /\ Clean(b) /\ b.owner = owned
            /\ WrittenIn(b) = <<>> /\ UnreadIn(b) = <<>>
            /\ owned => Reader(b)
<1> USE DEF BITS_PER_CHAR
<1> DEFINE b == speex_bits_init(size, owned)
<1>1. /\ b.chars = Zeros(8) /\ b.nbBits = 0 /\ b.pos = 0 /\ b.buf_size = size /\ b.owner = owned
      /\ b \in Packer
  <2>1. Zeros(8) \in Seq(Bit)
    BY DEF Zeros, Bit
  <2> QED BY <2>1 DEF speex_bits_init, Packer
<1>2. Len(b.chars) = 8 /\ \A k \in 1 .. 8 : b.chars[k] = 0
  BY <1>1 DEF Zeros
<1> HIDE DEF b
<1>3. ByteEnd(b) = 8
  BY <1>1 DEF ByteEnd, CharPtr
<1>4. Writer(b) /\ Clean(b)
  <2>1. size \in Nat /\ 8 <= 8 * size
    OBVIOUS
  <2>2. ByteEnd(b) <= Len(b.chars)
    <3>1. 8 <= 8
      OBVIOUS
    <3> QED BY <1>2, <1>3, <3>1, Zenon
  <2>3. Len(b.chars) <= 8 * b.buf_size
    <3>1. Len(b.chars) = 8 /\ b.buf_size = size
      BY <1>1, <1>2, Zenon
    <3> QED BY <2>1, <3>1
  <2>4. Tidy(b)
    BY <1>1, <2>2, <2>3 DEF Tidy
  <2> QED BY <1>1, <1>2, <1>3, <2>4 DEF Writer, Clean
<1>5. WrittenIn(b) = <<>> /\ UnreadIn(b) = <<>>
  BY <1>1, SubSeqEmpty DEF WrittenIn, UnreadIn
<1>6. owned => Reader(b)
  BY <1>1, <1>2 DEF Reader
<1> QED BY <1>1, <1>4, <1>5, <1>6 DEF b

LEMMA InitBits == BitStreamInit => BitIInv /\ Queue!QueueInit
<1> SUFFICES ASSUME BitStreamInit PROVE BitIInv /\ Queue!QueueInit
  OBVIOUS
<1>1. PICK size \in BufferSizes, owned \in BOOLEAN : w = speex_bits_init(size, owned \/ use = "stream")
  BY DEF BitStreamInit
<1>2. /\ use \in {"stream", "packet"} /\ packed = <<>> /\ dirty = FALSE /\ saved = <<>>
      /\ r = speex_bits_init(1, TRUE)
  BY DEF BitStreamInit
<1> DEFINE mine == owned \/ use = "stream"
<1>3. mine \in BOOLEAN /\ size \in Nat \ {0} /\ w = speex_bits_init(size, mine)
  BY <1>1, BitStreamAssumption
<1> HIDE DEF mine
<1>4. Writer(w) /\ Clean(w) /\ w.owner = mine /\ WrittenIn(w) = <<>>
  BY <1>3, CleanStart
<1>5. Reader(r) /\ UnreadIn(r) = <<>>
  <2>1. 1 \in Nat \ {0} /\ TRUE \in BOOLEAN
    OBVIOUS
  <2> QED BY <1>2, <2>1, CleanStart, Zenon
<1>6. UseTidy
  <2>1. packed \in Seq(Bit)
    BY <1>2
  <2>2. use = "stream" => w.owner
    BY <1>4, Zenon DEF mine
  <2> QED BY <1>2, <2>1, <2>2, Zenon DEF UseTidy
<1>7. SavedTidy /\ Content
  BY <1>2, <1>4 DEF SavedTidy, Content
<1>8. Queue!QueueInit
  <2>1. Unread = <<>> /\ Unwritten = <<>>
    BY <1>4, <1>5 DEF Unread, Unwritten, UnreadIn, WrittenIn
  <2> QED BY <2>1 DEF Queue!QueueInit
<1> QED BY <1>4, <1>5, <1>6, <1>7, <1>8 DEF BitIInv

LEMMA FieldIsBits == \A field \in Fields : field \in Seq(Bit) /\ Len(field) \in 1 .. 32
BY BitStreamAssumption DEF Bit

LEMMA PackBits ==
  ASSUME BitIInv, NEW field \in Fields, Pack(field)
  PROVE  /\ BitIInv'
         /\ use = "stream" => WrittenIn(w)' = WrittenIn(w) \o field /\ UnreadIn(r)' = UnreadIn(r)
<1>1. /\ w' = PackField(w, field) /\ saved = <<>>
      /\ packed' = IF use = "packet" /\ w'.nbBits # w.nbBits THEN packed \o field ELSE packed
      /\ UNCHANGED <<use, r, dirty, saved>>
  BY DEF Pack
<1>2. field \in Seq(Bit) /\ Len(field) \in 1 .. 32
  BY FieldIsBits
<1>3. Writer(w) /\ Tidy(w) /\ Reader(r) /\ UseTidy /\ Content /\ packed \in Seq(Bit)
  BY DEF BitIInv, UseTidy, Writer
<1>4. /\ Tidy(w') /\ w'.owner = w.owner
      /\ w' = w \/ Stored(w, field, w')
      /\ w.owner => Stored(w, field, w')
  BY <1>1, <1>2, <1>3, FieldPacked
<1>5. Reader(r') /\ UnreadIn(r)' = UnreadIn(r) /\ SavedTidy'
  BY <1>1, <1>3 DEF SavedTidy, UnreadIn
<1>6. packed' \in Seq(Bit)
  BY <1>1, <1>2, <1>3
<1>7. UseTidy'
  BY <1>1, <1>3, <1>4, <1>6 DEF UseTidy
<1>8. CASE w' = w
  <2>1. packed' = packed
    BY <1>1, <1>8
  <2>2. Content'
    BY <1>1, <1>3, <1>8, <2>1 DEF Content, WrittenIn
  <2>3. ~(use = "stream")  \/ Stored(w, field, w')
    BY <1>3, <1>4 DEF UseTidy
  <2>4. ~Stored(w, field, w')
    <3>1. w.nbBits \in Nat /\ Len(field) \in Nat /\ Len(field) >= 1
      <4>1. w.nbBits \in Nat
        BY <1>3, WriterBits, Zenon
      <4>2. Len(field) \in Nat /\ Len(field) >= 1
        <5> DEFINE n == Len(field)
        <5>1. n \in 1 .. 32
          BY <1>2
        <5> HIDE DEF n
        <5>2. n \in Nat /\ n >= 1
          BY <5>1
        <5> QED BY <5>2 DEF n
      <4> QED BY <4>1, <4>2
    <3>2. Stored(w, field, w') => w.nbBits = w.nbBits + Len(field)
      BY <1>8 DEF Stored
    <3> QED BY <3>1, <3>2
  <2> QED BY <1>3, <1>5, <1>7, <1>8, <2>2, <2>3, <2>4 DEF BitIInv
<1>9. CASE Stored(w, field, w')
  <2>1. w'.nbBits # w.nbBits
    <3>1. w.nbBits \in Nat /\ Len(field) \in Nat /\ Len(field) >= 1
      <4>1. w.nbBits \in Nat
        BY <1>3, WriterBits, Zenon
      <4>2. Len(field) \in Nat /\ Len(field) >= 1
        <5> DEFINE n == Len(field)
        <5>1. n \in 1 .. 32
          BY <1>2
        <5> HIDE DEF n
        <5>2. n \in Nat /\ n >= 1
          BY <5>1
        <5> QED BY <5>2 DEF n
      <4> QED BY <4>1, <4>2
    <3>2. w'.nbBits = w.nbBits + Len(field)
      BY <1>9 DEF Stored
    <3> QED BY <3>1, <3>2
  <2>2. packed' = IF use = "packet" THEN packed \o field ELSE packed
    BY <1>1, <2>1
  <2>3. Writer(w')
    BY <1>3, <1>4, <1>9 DEF Writer, Stored
  <2>4. ~dirty => Clean(w') /\ WrittenIn(w') = WrittenIn(w) \o field
    BY <1>2, <1>3, <1>4, <1>9, StoredAppends DEF Content
  <2>5. Content'
    BY <1>1, <1>3, <2>2, <2>4 DEF Content, WrittenIn
  <2>6. use = "stream" => WrittenIn(w)' = WrittenIn(w) \o field
    BY <1>3, <2>4 DEF UseTidy, WrittenIn
  <2> QED BY <1>5, <1>7, <2>3, <2>5, <2>6 DEF BitIInv
<1> QED BY <1>4, <1>8, <1>9

LEMMA TransferBits ==
  ASSUME BitIInv, Transfer
  PROVE  /\ BitIInv' /\ use = "stream"
         /\ UnreadIn(r)' \o WrittenIn(w)' = UnreadIn(r) \o WrittenIn(w)
<1> DEFINE out == speex_bits_write_whole_bytes(w, speex_bits_nbytes(w))
           rest == WrittenIn(out.bits)
<1>1. /\ use = "stream" /\ w' = out.bits /\ r' = speex_bits_read_whole_bytes(r, out.packet)
      /\ UNCHANGED <<use, packed, dirty, saved>>
  BY DEF Transfer
<1>2. Writer(w) /\ Reader(r) /\ UseTidy /\ Content /\ ~dirty /\ Clean(w) /\ saved = <<>>
  BY <1>1 DEF BitIInv, UseTidy, Content
<1>3. /\ Writer(out.bits) /\ Clean(out.bits) /\ out.bits.owner = w.owner
      /\ out.packet \in Seq(Bit) /\ Len(out.packet) % BITS_PER_CHAR = 0
      /\ out.packet \o rest = WrittenIn(w)
  BY <1>2, WholeBytesWritten
<1> HIDE DEF out
<1>4. Reader(r') /\ UnreadIn(r') = UnreadIn(r) \o out.packet
  BY <1>1, <1>2, <1>3, WholeBytesRead
<1>5. rest \in Seq(Bit) /\ UnreadIn(r) \in Seq(Bit)
  BY <1>2, <1>3, WriterBits, ReaderBits
<1>6. UnreadIn(r') \o rest = UnreadIn(r) \o WrittenIn(w)
  <2>1. (UnreadIn(r) \o out.packet) \o rest = UnreadIn(r) \o (out.packet \o rest)
    BY <1>3, <1>5, BitsAssociate
  <2> QED BY <1>3, <1>4, <2>1
<1>7. UseTidy' /\ SavedTidy' /\ Content'
  BY <1>1, <1>2, <1>3 DEF UseTidy, SavedTidy, Content
<1> QED BY <1>1, <1>3, <1>4, <1>6, <1>7 DEF BitIInv, UnreadIn, WrittenIn

LEMMA UnpackBits ==
  ASSUME BitIInv, NEW n \in Reads, Unpack(n)
  PROVE  /\ BitIInv' /\ use = "stream" /\ WrittenIn(w)' = WrittenIn(w)
         /\ \/ UnreadIn(r)' = UnreadIn(r)
            \/ /\ n \in 1 .. Len(UnreadIn(r))
               /\ UnreadIn(r)' = SubSeq(UnreadIn(r), n + 1, Len(UnreadIn(r)))
<1>1. use = "stream" /\ r' = speex_bits_advance(r, n) /\ UNCHANGED <<use, w, packed, dirty, saved>>
  BY DEF Unpack
<1>2. n \in Nat \ {0} /\ Reader(r)
  BY BitStreamAssumption DEF BitIInv
<1>3. /\ Reader(r')
      /\ \/ UnreadIn(r') = UnreadIn(r)
         \/ /\ n \in 1 .. Len(UnreadIn(r))
            /\ UnreadIn(r') = SubSeq(UnreadIn(r), n + 1, Len(UnreadIn(r)))
  BY <1>1, <1>2, BitsTaken
<1>4. Writer(w') /\ UseTidy' /\ SavedTidy' /\ Content' /\ WrittenIn(w)' = WrittenIn(w)
  BY <1>1 DEF BitIInv, UseTidy, SavedTidy, Content, WrittenIn
<1> QED BY <1>1, <1>3, <1>4 DEF BitIInv, UnreadIn

(* The steps of a packet.                                                  *)
LEMMA StartWriteBits ==
  ASSUME BitIInv, StartWrite
  PROVE  BitIInv' /\ use' = "packet" /\ use = "packet"
<1>1. /\ use = "packet" /\ saved' = <<[pos |-> w.pos, nbBits |-> w.nbBits]>>
      /\ UNCHANGED <<use, w, r, packed, dirty>>
  BY DEF StartWrite
<1>2. w.pos = w.nbBits /\ w.pos \in Nat
  BY WriterBits DEF BitIInv, Writer
<1>3. saved'[1].pos = w.pos /\ saved'[1].nbBits = w.nbBits
  BY <1>1
<1>4. SavedTidy'
  BY <1>1, <1>2, <1>3 DEF SavedTidy
<1>5. UseTidy' /\ Content'
  BY <1>1 DEF BitIInv, UseTidy, Content, WrittenIn
<1> QED BY <1>1, <1>4, <1>5 DEF BitIInv

LEMMA OneBit == \A bit \in Bit : BitsOf(bit, 1) \in Seq(Bit) /\ Len(BitsOf(bit, 1)) = 1
<1>1. ASSUME NEW bit \in Bit PROVE BitsOf(bit, 1) \in Seq(Bit) /\ Len(BitsOf(bit, 1)) = 1
  <2>1. \A ix \in 1 .. 1 : (bit \div 2^(1 - ix)) % 2 \in Bit
    <3>1. 2^0 = 1 /\ bit \in Nat /\ \A ix \in 1 .. 1 : 1 - ix = 0
      BY DEF Bit
    <3>2. (bit \div 1) % 2 \in Bit
      BY <3>1 DEF Bit
    <3> QED BY <3>1, <3>2
  <2> QED BY <2>1 DEF BitsOf
<1> QED BY <1>1

LEMMA TerminatorBits ==
  ASSUME BitIInv, TerminatorBit
  PROVE  BitIInv' /\ use' = "packet" /\ use = "packet"
<1> DEFINE bit == IF w.nbBits = saved[1].nbBits THEN 0 ELSE 1
           field == BitsOf(bit, 1)
<1>1. /\ saved # <<>> /\ w' = PackField(w, field)
      /\ dirty' = (dirty \/ BitPtr(w') # BitPtr(w))
      /\ UNCHANGED <<use, r, packed, saved>>
  BY DEF TerminatorBit, speex_bits_pack
<1>2. field \in Seq(Bit) /\ Len(field) = 1
  BY OneBit DEF Bit
<1> HIDE DEF field
<1>3. Writer(w) /\ Tidy(w) /\ Reader(r) /\ UseTidy /\ Content /\ use = "packet"
  BY <1>1 DEF BitIInv, UseTidy, Writer
<1>4. /\ Tidy(w') /\ w'.owner = w.owner
      /\ w' = w \/ Stored(w, field, w')
  BY <1>1, <1>2, <1>3, FieldPacked
<1>5. UseTidy'
  BY <1>1, <1>3, <1>4 DEF UseTidy
<1>6. CASE w' = w
  <2>1. dirty' = dirty
    BY <1>1, <1>3, <1>6 DEF UseTidy
  <2>2. SavedTidy' /\ Content'
    BY <1>1, <1>3, <1>6, <2>1 DEF BitIInv, SavedTidy, Content, WrittenIn
  <2> QED BY <1>1, <1>3, <1>5, <1>6, <2>2 DEF BitIInv
<1>7. CASE Stored(w, field, w')
  <2>1. w'.pos = w.pos + 1 /\ w.pos \in Nat
    BY <1>2, <1>3, <1>7, WriterBits DEF Stored
  <2>2. BitPtr(w') # BitPtr(w)
    BY <2>1 DEF BitPtr, BITS_PER_CHAR
  <2>3. dirty'
    BY <1>1, <2>2
  <2>4. Writer(w')
    BY <1>3, <1>4, <1>7 DEF Writer, Stored
  <2>5. SavedTidy'
    <3>1. saved[1].pos = saved[1].nbBits /\ saved[1].pos \in 0 .. w.pos
      BY <1>1 DEF BitIInv, SavedTidy
    <3>2. saved[1].pos \in 0 .. w'.pos
      BY <2>1, <3>1
    <3> QED BY <1>1, <2>3, <3>1, <3>2 DEF SavedTidy
  <2>6. Content'
    BY <2>3 DEF Content
  <2> QED BY <1>1, <1>3, <1>5, <2>4, <2>5, <2>6 DEF BitIInv
<1> QED BY <1>1, <1>3, <1>4, <1>6, <1>7

LEMMA EndWriteBits ==
  ASSUME BitIInv, EndWrite
  PROVE  BitIInv' /\ use' = "packet" /\ use = "packet"
<1> DEFINE p == saved[1].pos
<1>1. /\ saved # <<>> /\ w' = [w EXCEPT !.pos = saved[1].pos, !.nbBits = saved[1].nbBits]
      /\ saved' = <<>> /\ UNCHANGED <<use, r, packed, dirty>>
  BY DEF EndWrite
<1>2. Writer(w) /\ Reader(r) /\ UseTidy /\ Content /\ use = "packet" /\ w \in Packer /\ w.pos \in Nat
  BY <1>1, PackerFields DEF BitIInv, UseTidy, Writer, Tidy
<1>3. p = saved[1].nbBits /\ p \in 0 .. w.pos /\ (~dirty => w.pos = p)
  BY <1>1 DEF BitIInv, SavedTidy
<1> HIDE DEF p
<1>4. p \in Nat /\ w' = [w EXCEPT !.pos = p, !.nbBits = p]
  BY <1>1, <1>2, <1>3 DEF p
<1>5. /\ w' \in Packer /\ w'.pos = p /\ w'.nbBits = p /\ w'.chars = w.chars
      /\ w'.buf_size = w.buf_size /\ w'.owner = w.owner
  BY <1>2, <1>4 DEF Packer
<1>6. Writer(w')
  <2>1. ByteEnd(w') <= ByteEnd(w) /\ ByteEnd(w') \in Nat /\ ByteEnd(w) \in Nat
    BY <1>2, <1>3, <1>4, <1>5 DEF ByteEnd, CharPtr, BITS_PER_CHAR
  <2>2. ByteEnd(w) <= Len(w.chars) /\ Len(w.chars) <= BITS_PER_CHAR * w.buf_size /\ Len(w.chars) \in Nat
    BY <1>2, WriterBits DEF Writer, Tidy
  <2>3. ByteEnd(w') <= Len(w'.chars)
    BY <1>5, <2>1, <2>2
  <2> QED BY <1>5, <2>2, <2>3 DEF Writer, Tidy
<1>7. UseTidy' /\ SavedTidy'
  BY <1>1, <1>2, <1>5 DEF UseTidy, SavedTidy
<1>8. ~dirty => w' = w
  <2>1. w.nbBits = w.pos
    BY <1>2 DEF Writer
  <2> QED BY <1>2, <1>3, <1>4, <2>1 DEF Packer
<1>9. Content'
  BY <1>1, <1>2, <1>8 DEF Content, WrittenIn
<1> QED BY <1>1, <1>2, <1>6, <1>7, <1>9 DEF BitIInv

LEMMA ResetBits ==
  ASSUME BitIInv, Reset
  PROVE  BitIInv' /\ use' = "packet" /\ use = "packet"
<1> USE DEF BITS_PER_CHAR
<1>1. /\ use = "packet" /\ saved = <<>> /\ w' = speex_bits_reset(w)
      /\ packed' = <<>> /\ dirty' = FALSE /\ UNCHANGED <<use, r, saved>>
  BY DEF Reset
<1>2. w \in Packer /\ Reader(r) /\ w.buf_size \in Nat /\ w.buf_size >= 1
  BY PackerFields DEF BitIInv, Writer, Tidy
<1>3. /\ w' \in Packer /\ w'.chars = Zeros(8) /\ w'.pos = 0 /\ w'.nbBits = 0
      /\ w'.buf_size = w.buf_size
  <2>1. Zeros(8) \in Seq(Bit)
    BY DEF Zeros, Bit
  <2> QED BY <1>1, <1>2, <2>1 DEF speex_bits_reset, Packer
<1>4. Len(w'.chars) = 8 /\ \A k \in 1 .. 8 : w'.chars[k] = 0
  BY <1>3 DEF Zeros
<1>5. ByteEnd(w') = 8
  BY <1>3 DEF ByteEnd, CharPtr
<1>6. Writer(w') /\ Clean(w')
  <2>1. w'.buf_size \in Nat /\ w'.buf_size >= 1
    BY <1>2, <1>3, Zenon
  <2>2. Len(w'.chars) <= 8 * w'.buf_size /\ ByteEnd(w') <= Len(w'.chars)
    BY <1>4, <1>5, <2>1
  <2>3. Tidy(w')
    BY <1>3, <2>2 DEF Tidy
  <2> QED BY <1>3, <1>4, <1>5, <2>3 DEF Writer, Clean
<1>7. WrittenIn(w') = <<>>
  BY <1>3, SubSeqEmpty DEF WrittenIn
<1>8. UseTidy' /\ SavedTidy' /\ Content'
  <2>1. packed' \in Seq(Bit) /\ use' = "packet"
    BY <1>1
  <2>2. Content'
    BY <1>1, <1>6, <1>7 DEF Content, WrittenIn
  <2> QED BY <1>1, <2>1, <2>2 DEF UseTidy, SavedTidy
<1> QED BY <1>1, <1>2, <1>6, <1>8 DEF BitIInv

(* The queue that a user of the packer sees.                               *)
Bits == IF use = "stream" THEN Unread \o Unwritten ELSE <<>>

LEMMA BitsOfParts == Bits = IF use = "stream" THEN UnreadIn(r) \o WrittenIn(w) ELSE <<>>
BY DEF Bits, Unread, Unwritten, UnreadIn, WrittenIn

LEMMA NextBits ==
  ASSUME BitIInv, [BitStreamNext]_bvars
  PROVE  BitIInv' /\ (Queue!QueueNext \/ Bits' = Bits)
<1>1. CASE UNCHANGED bvars
  <2>1. UNCHANGED <<use, w, r, packed, dirty, saved>>
    BY <1>1 DEF bvars
  <2>2. BitIInv'
    BY <2>1 DEF BitIInv, UseTidy, SavedTidy, Content, WrittenIn
  <2>3. Bits' = Bits
    BY <2>1 DEF Bits, Unread, Unwritten
  <2> QED BY <2>2, <2>3
<1>2. ASSUME NEW field \in Fields, Pack(field)
      PROVE  BitIInv' /\ (Queue!QueueNext \/ Bits' = Bits)
  <2>1. /\ BitIInv'
        /\ use = "stream" => WrittenIn(w)' = WrittenIn(w) \o field /\ UnreadIn(r)' = UnreadIn(r)
    BY <1>2, PackBits
  <2>2. use' = use
    BY <1>2 DEF Pack
  <2>3. CASE use = "stream"
    <3>1. UnreadIn(r) \in Seq(Bit) /\ WrittenIn(w) \in Seq(Bit) /\ field \in Seq(Bit)
      BY WriterBits, ReaderBits, FieldIsBits DEF BitIInv
    <3>2. UnreadIn(r) \o (WrittenIn(w) \o field) = (UnreadIn(r) \o WrittenIn(w)) \o field
      BY <3>1, BitsAssociate
    <3>3. Bits' = Bits \o field
      BY <2>1, <2>2, <2>3, <3>2, BitsOfParts DEF Bits, Unread, Unwritten, UnreadIn, WrittenIn
    <3>4. Queue!Put
      BY <3>3 DEF Queue!Put, Bits
    <3> QED BY <2>1, <3>4 DEF Queue!QueueNext
  <2>4. CASE use # "stream"
    BY <2>1, <2>2, <2>4 DEF Bits
  <2> QED BY <2>3, <2>4
<1>3. CASE Transfer
  <2>1. /\ BitIInv' /\ use = "stream"
        /\ UnreadIn(r)' \o WrittenIn(w)' = UnreadIn(r) \o WrittenIn(w)
    BY <1>3, TransferBits, SMTT(30)
  <2>2. Bits' = Bits
    BY <1>3, <2>1 DEF Transfer, Bits, Unread, Unwritten, UnreadIn, WrittenIn
  <2> QED BY <2>1, <2>2
<1>4. ASSUME NEW n \in Reads, Unpack(n)
      PROVE  BitIInv' /\ (Queue!QueueNext \/ Bits' = Bits)
  <2>1. /\ BitIInv' /\ use = "stream" /\ WrittenIn(w)' = WrittenIn(w)
        /\ \/ UnreadIn(r)' = UnreadIn(r)
           \/ /\ n \in 1 .. Len(UnreadIn(r))
              /\ UnreadIn(r)' = SubSeq(UnreadIn(r), n + 1, Len(UnreadIn(r)))
    BY <1>4, UnpackBits
  <2>2. use' = "stream"
    BY <1>4, <2>1 DEF Unpack
  <2>3. CASE UnreadIn(r)' = UnreadIn(r)
    <3>1. Bits' = Bits
      BY <2>1, <2>2, <2>3 DEF Bits, Unread, Unwritten, UnreadIn, WrittenIn
    <3> QED BY <2>1, <3>1
  <2>4. CASE /\ n \in 1 .. Len(UnreadIn(r))
             /\ UnreadIn(r)' = SubSeq(UnreadIn(r), n + 1, Len(UnreadIn(r)))
    <3>1. UnreadIn(r) \in Seq(Bit) /\ WrittenIn(w) \in Seq(Bit)
      BY WriterBits, ReaderBits DEF BitIInv
    <3> DEFINE all == UnreadIn(r) \o WrittenIn(w)
    <3>2. /\ n \in 1 .. Len(all)
          /\ SubSeq(UnreadIn(r), n + 1, Len(UnreadIn(r))) \o WrittenIn(w)
               = SubSeq(all, n + 1, Len(all))
      BY <2>4, <3>1, TakenFromFront, ZenonT(60)
    <3>3. Bits = all
      BY <2>1, BitsOfParts
    <3>4. Bits' = UnreadIn(r)' \o WrittenIn(w)'
      BY <2>2 DEF Bits, Unread, Unwritten, UnreadIn, WrittenIn
    <3> HIDE DEF all
    <3>5. n \in 1 .. Len(Bits) /\ Bits' = SubSeq(Bits, n + 1, Len(Bits))
      BY <2>1, <2>4, <3>2, <3>3, <3>4
    <3>6. Queue!Get
      BY <3>5 DEF Queue!Get, Bits
    <3> QED BY <2>1, <3>6 DEF Queue!QueueNext
  <2> QED BY <2>1, <2>3, <2>4
<1>5. CASE StartWrite \/ TerminatorBit \/ EndWrite \/ Reset
  <2>1. BitIInv' /\ use' = "packet" /\ use = "packet"
    BY <1>5, StartWriteBits, TerminatorBits, EndWriteBits, ResetBits
  <2> QED BY <2>1 DEF Bits
<1> QED BY <1>1, <1>2, <1>3, <1>4, <1>5 DEF BitStreamNext

LEMMA BitInvariance == BitStreamSpec => []BitIInv
<1>1. BitStreamInit => BitIInv
  BY InitBits
<1>2. BitIInv /\ [BitStreamNext]_bvars => BitIInv'
  BY NextBits
<1> QED BY <1>1, <1>2, PTL DEF BitStreamSpec

(* No byte is written behind the end of the buffer, neither of one that the *)
(* packer makes larger nor of someone else's (speex_bits_pack).            *)
THEOREM NeverOutsideBuffer == BitStreamSpec => []InBuffer
<1>1. BitIInv => InBuffer
  BY DEF BitIInv, Writer, Tidy, InBuffer
<1> QED BY <1>1, BitInvariance, PTL

(* Until a terminator is left in an unfinished byte, the buffer holds the   *)
(* fields that were accepted, in order: a field sets every bit it covers,  *)
(* and nothing in front of them (speex_bits_pack, speex_bits_write).       *)
THEOREM FieldsStayPacked == BitStreamSpec => []PackedIntact
<1>1. BitIInv => PackedIntact
  BY DEF BitIInv, Content, PackedIntact, Unwritten, WrittenIn
<1> QED BY <1>1, BitInvariance, PTL

(* The refinement: a writer that hands over whole bytes and a reader that   *)
(* appends them implement the queue of bits of BitQueue                    *)
(* (speex_bits_write_whole_bytes, speex_bits_read_whole_bytes).            *)
THEOREM StreamImplementsQueue == BitStreamSpec => StreamIsQueue
<1>1. BitStreamInit => Queue!QueueInit
  BY InitBits
<1>2. BitIInv /\ [BitStreamNext]_bvars => [Queue!QueueNext]_Bits
  BY NextBits
<1> QED BY <1>1, <1>2, BitInvariance, PTL DEF BitStreamSpec, StreamIsQueue, Queue!QueueSpec, Bits

-----------------------------------------------------------------------------
(* The packet loss concealer.                                              *)

(* Remainders.                                                             *)
LEMMA RemainderInRange ==
  ASSUME NEW p \in Nat \ {0}, NEW x \in Int
  PROVE  x % p \in 0 .. p - 1 /\ x \div p \in Int /\ p * (x \div p) + (x % p) = x
OBVIOUS

LEMMA RemainderOnce ==
  ASSUME NEW p \in Nat \ {0}, NEW x \in Nat, x < 2 * p
  PROVE  x % p = IF x < p THEN x ELSE x - p
OBVIOUS

LEMMA RemainderOfSum ==
  ASSUME NEW p \in Nat \ {0}, NEW x \in Int, NEW y \in Int
  PROVE  ((x % p) + y) % p = (x + y) % p
<1> DEFINE q == x \div p
           rem == x % p
           s == (rem + y) \div p
           t == (rem + y) % p
<1>1. q \in Int /\ rem \in 0 .. p - 1 /\ p * q + rem = x
  BY RemainderInRange
<1> HIDE DEF q, rem
<1>2. s \in Int /\ t \in 0 .. p - 1 /\ p * s + t = rem + y
  <2>1. rem + y \in Int
    BY <1>1
  <2> QED BY <2>1, RemainderInRange
<1> HIDE DEF s, t
<1>3. p * (q + s) + t = x + y
  <2>1. p * (q + s) = p * q + p * s
    BY <1>1, <1>2
  <2>2. p * q \in Int /\ p * s \in Int
    BY <1>1, <1>2
  <2> QED BY <1>1, <1>2, <2>1, <2>2
<1>4. (x + y) % p = t
  <2>1. \A u \in Int : (p * u + t) % p = t
    BY <1>2
  <2> QED BY <1>1, <1>2, <1>3, <2>1
<1> QED BY <1>4 DEF t, rem

LEMMA HistoryLength == PLC_HISTORY_LEN \in Nat \ {0} /\ Wrap \in Nat \ {0}
BY PlcAssumption DEF Wrap

(* From at on, once around, ring holds the last samples up to now.         *)
Heard(ring, at, now) ==
  \A k \in Offsets : ring[(at + k) % PLC_HISTORY_LEN] = (now + (k - PLC_HISTORY_LEN)) % Wrap

RingTidy ==
  /\ history \in [Offsets -> Int] /\ buf_ptr \in 0 .. PLC_HISTORY_LEN
  /\ clock \in 0 .. Wrap - 1 /\ missing_samples \in Nat

GapTidy ==
  missing_samples # 0 =>
    /\ pitch \in PLC_PITCH_MAX .. PLC_PITCH_MIN /\ synthetic \in Nat /\ lead \in Nat
    /\ pitch_offset = synthetic % pitch
    /\ synthetic <= lead + AtMost(missing_samples, Fade)

PlcIInv == RingTidy /\ Heard(history, buf_ptr, clock) /\ GapTidy

LEMMA AroundOnce ==
  ASSUME NEW at \in 0 .. PLC_HISTORY_LEN, NEW k \in Offsets
  PROVE  LET j == (at + k) % PLC_HISTORY_LEN
         IN j \in Offsets /\ (j = at + k \/ j = (at + k) - PLC_HISTORY_LEN)
<1> DEFINE x == at + k
<1>1. x \in Nat /\ x < 2 * PLC_HISTORY_LEN
  BY HistoryLength DEF Offsets
<1> HIDE DEF x
<1>2. x % PLC_HISTORY_LEN = IF x < PLC_HISTORY_LEN THEN x ELSE x - PLC_HISTORY_LEN
  BY <1>1, HistoryLength, RemainderOnce
<1>3. x % PLC_HISTORY_LEN \in Offsets
  BY <1>1, HistoryLength, RemainderInRange DEF Offsets
<1> QED BY <1>2, <1>3 DEF x

(* The sample at offset j of a ring.                                       *)
LEMMA HeardAt ==
  ASSUME NEW ring, NEW at \in 0 .. PLC_HISTORY_LEN, NEW now \in Int, Heard(ring, at, now),
         NEW ix \in Offsets, NEW j \in Offsets, j = at + ix \/ j = (at + ix) - PLC_HISTORY_LEN
  PROVE  ring[j] = (now + (ix - PLC_HISTORY_LEN)) % Wrap
<1>1. (at + ix) % PLC_HISTORY_LEN = j
  <2> DEFINE x == at + ix
  <2>1. x \in Nat /\ x < 2 * PLC_HISTORY_LEN
    BY HistoryLength DEF Offsets
  <2>2. j = IF x < PLC_HISTORY_LEN THEN x ELSE x - PLC_HISTORY_LEN
    BY HistoryLength DEF Offsets
  <2> HIDE DEF x
  <2>3. x % PLC_HISTORY_LEN = IF x < PLC_HISTORY_LEN THEN x ELSE x - PLC_HISTORY_LEN
    BY <2>1, HistoryLength, RemainderOnce
  <2> QED BY <2>2, <2>3 DEF x
<1> QED BY <1>1 DEF Heard

LEMMA HistorySaved ==
  ASSUME NEW h \in [Offsets -> Int], NEW at \in 0 .. PLC_HISTORY_LEN, NEW block \in Nat \ {0},
         clock \in Int, Heard(h, at, clock), save_history(h, at, block),
         clock' = (clock + block) % Wrap
  PROVE  /\ history' \in [Offsets -> Int] /\ buf_ptr' \in 0 .. PLC_HISTORY_LEN
         /\ clock' \in 0 .. Wrap - 1
         /\ Heard(history, buf_ptr, clock)'
<1> DEFINE H == PLC_HISTORY_LEN
<1>1. H \in Nat \ {0} /\ Wrap \in Nat \ {0}
  BY HistoryLength
<1>2. clock' \in 0 .. Wrap - 1
  BY <1>1, RemainderInRange
<1>3. \A x \in Int : x % Wrap \in Int
  BY <1>1, RemainderInRange
<1>4. \A k \in Offsets : (clock' + (k - H)) % Wrap = (clock + (block + (k - H))) % Wrap
  <2> TAKE k \in Offsets
  <2> DEFINE x == clock + block
             y == k - H
  <2>1. x \in Int /\ y \in Int /\ clock' = x % Wrap /\ x + y = clock + (block + (k - H))
    BY <1>1 DEF Offsets
  <2> HIDE DEF x, y
  <2>2. ((x % Wrap) + y) % Wrap = (x + y) % Wrap
    BY <1>1, <2>1, RemainderOfSum
  <2> QED BY <2>1, <2>2 DEF y
<1>5. CASE block >= H
  <2>1. /\ history' = [k \in Offsets |-> (clock + block - H + k) % Wrap]
        /\ buf_ptr' = 0
    BY <1>1, <1>5 DEF save_history
  <2>2. history' \in [Offsets -> Int]
    <3>1. \A k \in Offsets : (clock + block - H + k) % Wrap \in Int
      BY <1>1, <1>3 DEF Offsets
    <3> QED BY <2>1, <3>1
  <2>3. ASSUME NEW k \in Offsets
        PROVE  history'[(buf_ptr' + k) % H] = (clock' + (k - H)) % Wrap
    <3>1. (0 + k) % H = k
      BY <1>1 DEF Offsets
    <3>2. history'[k] = (clock + block - H + k) % Wrap
      BY <2>1
    <3>3. clock + block - H + k = clock + (block + (k - H))
      BY <1>1 DEF Offsets
    <3> QED BY <1>4, <2>1, <3>1, <3>2, <3>3
  <2>4. buf_ptr' \in 0 .. H
    BY <1>1, <2>1
  <2> QED BY <1>2, <2>2, <2>3, <2>4 DEF Heard
<1> DEFINE b == at + block
           c == b - H
<1>6. b \in Nat /\ c \in Int /\ at \in 0 .. H
  BY <1>1
<1>7. CASE block < H /\ b > H
  <2>1. /\ history' = [k \in Offsets |->
                         CASE k >= at -> (clock + k - at) % Wrap
                           [] k < c -> (clock + H - at + k) % Wrap
                           [] OTHER -> h[k]]
        /\ buf_ptr' = c
    BY <1>1, <1>7 DEF save_history
  <2>2. c < at /\ c \in 0 .. H
    BY <1>1, <1>7
  <2>3. ASSUME NEW j \in Offsets
        PROVE  /\ j >= at => history'[j] = (clock + (j - at)) % Wrap
               /\ j < c => history'[j] = (clock + ((j + H) - at)) % Wrap
               /\ j < at /\ j >= c => history'[j] = h[j]
    <3>1. history'[j] = CASE j >= at -> (clock + j - at) % Wrap
                          [] j < c -> (clock + H - at + j) % Wrap
                          [] OTHER -> h[j]
      BY <2>1
    <3>2. clock + j - at = clock + (j - at) /\ clock + H - at + j = clock + ((j + H) - at)
      BY <1>1 DEF Offsets
    <3>3. j \in Int
      BY <1>1 DEF Offsets
    <3> HIDE DEF c
    <3> QED BY <1>6, <2>2, <3>1, <3>2, <3>3
  <2>4. ASSUME NEW j \in Offsets PROVE history'[j] \in Int
    <3>1. j \in Int /\ h[j] \in Int
      BY <1>1 DEF Offsets
    <3>2. clock + (j - at) \in Int /\ clock + ((j + H) - at) \in Int
      BY <1>1, <3>1
    <3> HIDE DEF c
    <3> QED BY <1>3, <1>6, <2>3, <3>1, <3>2
  <2>5. history' \in [Offsets -> Int]
    BY <2>1, <2>4
  <2>6. ASSUME NEW k \in Offsets
        PROVE  history'[(buf_ptr' + k) % H] = (clock' + (k - H)) % Wrap
    <3>1. PICK j \in Offsets : /\ j = (c + k) % H
                               /\ j = c + k \/ j = (c + k) - H
      BY <2>2, AroundOnce
    <3>2. j \in 0 .. H - 1 /\ k \in 0 .. H - 1
      BY DEF Offsets
    <3> DEFINE ix == block + k
    <3>3. CASE j >= at
      <4>1. j - at = block + (k - H)
        BY <1>1, <1>7, <2>2, <3>1, <3>2, <3>3
      <4> QED BY <1>4, <2>1, <2>3, <3>1, <3>3, <4>1
    <3>4. CASE j < c
      <4>1. (j + H) - at = block + (k - H)
        BY <1>1, <1>7, <2>2, <3>1, <3>2, <3>4
      <4> QED BY <1>4, <2>1, <2>3, <3>1, <3>4, <4>1
    <3>5. CASE j < at /\ j >= c
      <4>1. ix \in Offsets /\ j = (at + ix) - H
        <5>1. j = c + k
          BY <1>1, <2>2, <3>1, <3>2, <3>5
        <5>2. j = (at + ix) - H
          BY <1>1, <2>2, <3>2, <5>1
        <5>3. ix \in 0 .. H - 1
          BY <1>1, <1>7, <3>2, <3>5, <5>2
        <5> QED BY <5>2, <5>3 DEF Offsets
      <4> HIDE DEF ix
      <4>2. h[j] = (clock + (ix - H)) % Wrap
        BY <4>1, HeardAt
      <4>3. ix - H = block + (k - H)
        BY <1>1, <3>2 DEF ix
      <4> QED BY <1>4, <2>1, <2>3, <3>1, <3>5, <4>2, <4>3
    <3> QED BY <1>1, <2>2, <3>2, <3>3, <3>4, <3>5
  <2> QED BY <1>2, <2>1, <2>2, <2>5, <2>6 DEF Heard
<1>8. CASE block < H /\ ~(b > H)
  <2>1. /\ history' = [k \in Offsets |->
                         IF k >= at /\ k < b THEN (clock + k - at) % Wrap ELSE h[k]]
        /\ buf_ptr' = b
    BY <1>1, <1>8 DEF save_history
  <2>2. b \in 0 .. H
    BY <1>1, <1>8
  <2>3. ASSUME NEW j \in Offsets
        PROVE  /\ j >= at /\ j < b => history'[j] = (clock + (j - at)) % Wrap
               /\ j < at \/ j >= b => history'[j] = h[j]
    <3>1. history'[j] = IF j >= at /\ j < b THEN (clock + j - at) % Wrap ELSE h[j]
      BY <2>1
    <3>2. clock + j - at = clock + (j - at) /\ j \in Int
      BY <1>1 DEF Offsets
    <3> HIDE DEF b
    <3> QED BY <1>6, <2>2, <3>1, <3>2
  <2>4. ASSUME NEW j \in Offsets PROVE history'[j] \in Int
    <3>1. j \in Int /\ h[j] \in Int
      BY <1>1 DEF Offsets
    <3>2. clock + (j - at) \in Int
      BY <1>1, <3>1
    <3> HIDE DEF b
    <3> QED BY <1>3, <1>6, <2>3, <3>1, <3>2
  <2>5. history' \in [Offsets -> Int]
    BY <2>1, <2>4
  <2>6. ASSUME NEW k \in Offsets
        PROVE  history'[(buf_ptr' + k) % H] = (clock' + (k - H)) % Wrap
    <3>1. PICK j \in Offsets : /\ j = (b + k) % H
                               /\ j = b + k \/ j = (b + k) - H
      BY <2>2, AroundOnce
    <3>2. j \in 0 .. H - 1 /\ k \in 0 .. H - 1
      BY DEF Offsets
    <3> DEFINE ix == block + k
    <3>3. CASE j >= at /\ j < b
      <4>1. j - at = block + (k - H)
        BY <1>1, <1>8, <2>2, <3>1, <3>2, <3>3
      <4> QED BY <1>4, <2>1, <2>3, <3>1, <3>3, <4>1
    <3>4. CASE j < at \/ j >= b
      <4>0. j = at + ix \/ j = (at + ix) - H
        BY <1>1, <3>1, <3>2
      <4>a. 0 <= ix /\ ix < H
        BY <1>1, <2>2, <3>2, <3>4, <4>0
      <4>1. ix \in Offsets /\ (j = at + ix \/ j = (at + ix) - H)
        BY <1>1, <3>2, <4>0, <4>a DEF Offsets
      <4> HIDE DEF ix
      <4>2. h[j] = (clock + (ix - H)) % Wrap
        BY <4>1, HeardAt
      <4>3. ix - H = block + (k - H)
        BY <1>1, <3>2 DEF ix
      <4> QED BY <1>4, <2>1, <2>3, <3>1, <3>4, <4>2, <4>3
    <3> QED BY <1>1, <2>2, <3>2, <3>3, <3>4
  <2> QED BY <1>2, <2>1, <2>2, <2>5, <2>6 DEF Heard
<1> QED BY <1>1, <1>5, <1>6, <1>7, <1>8

LEMMA InitPlc == PlcInit => PlcIInv
<1> SUFFICES ASSUME PlcInit PROVE PlcIInv
  OBVIOUS
<1> DEFINE H == PLC_HISTORY_LEN
<1>1. H \in Nat \ {0} /\ Wrap \in Nat \ {0}
  BY HistoryLength
<1>2. /\ history = [k \in Offsets |-> (k - H) % Wrap]
      /\ buf_ptr = 0 /\ missing_samples = 0 /\ clock = 0
  BY DEF PlcInit
<1>3. \A k \in Offsets : (k - H) % Wrap \in Int
  BY <1>1, RemainderInRange DEF Offsets
<1>4. RingTidy
  BY <1>1, <1>2, <1>3 DEF RingTidy
<1>5. ASSUME NEW k \in Offsets
      PROVE  history[(buf_ptr + k) % H] = (clock + (k - H)) % Wrap
  <2>1. (0 + k) % H = k /\ 0 + (k - H) = k - H
    BY <1>1 DEF Offsets
  <2> QED BY <1>2, <2>1
<1>6. Heard(history, buf_ptr, clock) /\ GapTidy
  BY <1>2, <1>5 DEF Heard, GapTidy
<1> QED BY <1>4, <1>6 DEF PlcIInv

LEMMA BlockLength == \A block \in Blocks : block \in Nat \ {0}
BY PlcAssumption

LEMMA RingSaved ==
  ASSUME PlcIInv, NEW block \in Blocks, NEW h \in [Offsets -> Int],
         NEW at \in 0 .. PLC_HISTORY_LEN, Heard(h, at, clock), save_history(h, at, block),
         clock' = (clock + block) % Wrap, missing_samples' \in Nat
  PROVE  RingTidy' /\ Heard(history, buf_ptr, clock)'
<1>1. block \in Nat \ {0} /\ clock \in Int
  BY BlockLength DEF PlcIInv, RingTidy
<1> QED BY <1>1, HistorySaved DEF RingTidy

LEMMA RxPlc ==
  ASSUME PlcIInv, NEW block \in Blocks, plc_rx(block)
  PROVE  PlcIInv'
<1>1. /\ missing_samples' = 0 /\ save_history(history, buf_ptr, block)
      /\ clock' = (clock + block) % Wrap
  BY DEF plc_rx
<1>2. RingTidy' /\ Heard(history, buf_ptr, clock)'
  BY <1>1, RingSaved DEF PlcIInv, RingTidy
<1> QED BY <1>1, <1>2 DEF PlcIInv, GapTidy

LEMMA TurnedRing ==
  ASSUME PlcIInv
  PROVE  normalise_history \in [Offsets -> Int] /\ Heard(normalise_history, 0, clock)
<1> DEFINE H == PLC_HISTORY_LEN
<1>1. H \in Nat \ {0}
  BY HistoryLength
<1>2. \A k \in Offsets : (buf_ptr + k) % H \in Offsets
  BY AroundOnce DEF PlcIInv, RingTidy
<1>3. normalise_history = [k \in Offsets |-> history[(buf_ptr + k) % H]]
  BY DEF normalise_history
<1>4. normalise_history \in [Offsets -> Int]
  BY <1>2, <1>3 DEF PlcIInv, RingTidy
<1>5. ASSUME NEW k \in Offsets
      PROVE  normalise_history[(0 + k) % H] = (clock + (k - H)) % Wrap
  <2>1. (0 + k) % H = k
    BY <1>1 DEF Offsets
  <2> QED BY <1>3, <2>1 DEF PlcIInv, Heard
<1> QED BY <1>4, <1>5 DEF Heard

(* What a block plays before the volume reaches zero.                      *)
LEMMA PlayedOfBlock ==
  ASSUME NEW block \in Nat \ {0}, NEW start \in Nat, NEW at \in Nat
  PROVE  /\ Played(block, start, at) \in Nat
         /\ AtMost(at, Fade) + Played(block, start, at) <= start + AtMost(Gap(at + block), Fade)
         /\ Gap(at + block) \in Nat \ {0}
<1>1. Fade \in Nat \ {0}
  BY PlcAssumption
<1> QED BY <1>1 DEF Played, AtMost, Gap

LEMMA FillinFirstPlc ==
  ASSUME PlcIInv, NEW p \in PLC_PITCH_MAX .. PLC_PITCH_MIN, NEW block \in Blocks, FillinFirst(p, block)
  PROVE  PlcIInv'
<1> DEFINE n == Played(block, Overlap(p), 0)
<1>1. /\ pitch' = p /\ pitch_offset' = n % p /\ synthetic' = n /\ lead' = Overlap(p)
      /\ missing_samples' = Gap(block) /\ save_history(normalise_history, 0, block)
      /\ clock' = (clock + block) % Wrap
  BY DEF FillinFirst
<1>2. block \in Nat \ {0} /\ Overlap(p) \in Nat
  BY BlockLength, PlcAssumption DEF Overlap
<1>3. /\ n \in Nat /\ n <= Overlap(p) + AtMost(Gap(block), Fade) /\ Gap(block) \in Nat
  <2>1. 0 \in Nat /\ 0 + block = block /\ AtMost(0, Fade) = 0
    BY <1>2, PlcAssumption DEF AtMost
  <2>2. /\ n \in Nat
        /\ AtMost(0, Fade) + n <= Overlap(p) + AtMost(Gap(0 + block), Fade)
        /\ Gap(0 + block) \in Nat \ {0}
    BY <1>2, <2>1, PlayedOfBlock
  <2> HIDE DEF n
  <2> QED BY <2>1, <2>2
<1> HIDE DEF n
<1>4. RingTidy' /\ Heard(history, buf_ptr, clock)'
  <2>1. 0 \in 0 .. PLC_HISTORY_LEN
    BY HistoryLength
  <2> QED BY <1>1, <1>3, <2>1, TurnedRing, RingSaved
<1>5. GapTidy'
  BY <1>1, <1>2, <1>3 DEF GapTidy
<1> QED BY <1>4, <1>5 DEF PlcIInv

LEMMA FillinNextPlc ==
  ASSUME PlcIInv, NEW block \in Blocks, FillinNext(block)
  PROVE  PlcIInv'
<1> DEFINE n == Played(block, 0, missing_samples)
<1>1. /\ missing_samples # 0
      /\ pitch_offset' = (pitch_offset + n) % pitch /\ synthetic' = synthetic + n
      /\ missing_samples' = Gap(missing_samples + block) /\ save_history(history, buf_ptr, block)
      /\ clock' = (clock + block) % Wrap /\ UNCHANGED <<pitch, lead>>
  BY DEF FillinNext
<1>2. block \in Nat \ {0} /\ missing_samples \in Nat
  BY BlockLength DEF PlcIInv, RingTidy
<1>3. /\ n \in Nat /\ missing_samples' \in Nat
      /\ AtMost(missing_samples, Fade) + n <= 0 + AtMost(missing_samples', Fade)
  BY <1>1, <1>2, PlayedOfBlock
<1> HIDE DEF n
<1>4. RingTidy' /\ Heard(history, buf_ptr, clock)'
  BY <1>1, <1>3, RingSaved DEF PlcIInv, RingTidy
<1>5. /\ pitch \in PLC_PITCH_MAX .. PLC_PITCH_MIN /\ synthetic \in Nat /\ lead \in Nat
      /\ pitch_offset = synthetic % pitch
      /\ synthetic <= lead + AtMost(missing_samples, Fade)
  BY <1>1 DEF PlcIInv, GapTidy
<1>6. synthetic' \in Nat /\ synthetic' <= lead + AtMost(missing_samples', Fade)
  <2> DEFINE a == AtMost(missing_samples, Fade)
             b == AtMost(missing_samples', Fade)
  <2>1. a \in Nat /\ b \in Nat
    BY <1>2, <1>3, PlcAssumption DEF AtMost
  <2>2. a + n <= 0 + b /\ synthetic <= lead + a
    BY <1>3, <1>5
  <2> HIDE DEF a, b
  <2>3. synthetic + n <= lead + b
    BY <1>3, <1>5, <2>1, <2>2
  <2> QED BY <1>1, <1>3, <1>5, <2>3 DEF b
<1>7. pitch_offset' = synthetic' % pitch'
  <2>1. pitch \in Nat \ {0}
    BY <1>5, PlcAssumption
  <2>2. \A x, y \in Int : ((x % pitch) + y) % pitch = (x + y) % pitch
    BY <2>1, RemainderOfSum
  <2>3. ((synthetic % pitch) + n) % pitch = (synthetic + n) % pitch
    <3>1. synthetic \in Int /\ n \in Int
      BY <1>3, <1>5
    <3> QED BY <2>2, <3>1
  <2> QED BY <1>1, <1>5, <2>3
<1>8. GapTidy'
  BY <1>1, <1>5, <1>6, <1>7 DEF GapTidy
<1> QED BY <1>4, <1>8 DEF PlcIInv

LEMMA NextPlc == PlcIInv /\ [PlcNext]_pvars => PlcIInv'
<1> SUFFICES ASSUME PlcIInv, [PlcNext]_pvars PROVE PlcIInv'
  OBVIOUS
<1>1. CASE UNCHANGED pvars
  BY <1>1 DEF pvars, PlcIInv, RingTidy, GapTidy, Heard
<1>2. CASE PlcNext
  BY <1>2, RxPlc, FillinFirstPlc, FillinNextPlc DEF PlcNext
<1> QED BY <1>1, <1>2

(* The ring holds what was played last, oldest first, and a gap repeats its *)
(* last period from the start without a jump between blocks (plc_fillin).  *)
THEOREM GapsRepeatHistory == PlcSpec => []GapRepeatsHistory
<1>1. PlcIInv => GapRepeatsHistory
  <2> SUFFICES ASSUME PlcIInv PROVE GapRepeatsHistory
    OBVIOUS
  <2>1. ASSUME NEW k \in Offsets
        PROVE  history[(buf_ptr + k) % PLC_HISTORY_LEN] = (clock + k - PLC_HISTORY_LEN) % Wrap
    <3>1. clock + k - PLC_HISTORY_LEN = clock + (k - PLC_HISTORY_LEN)
      BY HistoryLength DEF PlcIInv, RingTidy, Offsets
    <3> QED BY <3>1 DEF PlcIInv, Heard
  <2>2. missing_samples # 0 => synthetic <= Fade + lead /\ pitch_offset = synthetic % pitch
    BY PlcAssumption DEF PlcIInv, RingTidy, GapTidy, AtMost
  <2> QED BY <2>1, <2>2 DEF GapRepeatsHistory
<1> QED BY <1>1, InitPlc, NextPlc, PTL DEF PlcSpec

-----------------------------------------------------------------------------
(* The pitch search.                                                       *)

(* The first powers of two, up to n.                                        *)
Powers(n) == {f \in [0 .. n -> Nat] : f[0] = 1 /\ \A k \in 1 .. n : f[k] = 2 * f[k - 1]}

LEMMA PowersExist == \A n \in Nat : Powers(n) # {}
<1> DEFINE T == {n \in Nat : Powers(n) = {}}
<1> SUFFICES ASSUME T # {} PROVE FALSE
  OBVIOUS
<1>1. PICK n \in T : \A l \in T : n <= l
  BY NatMin
<1>2. CASE n = 0
  <2> DEFINE f == [k \in 0 .. 0 |-> 1]
  <2>1. f \in [0 .. 0 -> Nat] /\ f[0] = 1 /\ \A k \in 1 .. 0 : FALSE
    OBVIOUS
  <2> HIDE DEF f
  <2>2. f \in Powers(0)
    BY <2>1 DEF Powers
  <2> QED BY <1>1, <1>2, <2>2
<1>3. CASE n # 0
  <2>1. n \in Nat /\ n - 1 \in Nat /\ ~(n <= n - 1)
    BY <1>1, <1>3
  <2>2. Powers(n - 1) # {}
    BY <1>1, <2>1
  <2>3. PICK g : g \in Powers(n - 1)
    BY <2>2
  <2>4. /\ g \in [0 .. n - 1 -> Nat] /\ g[0] = 1
        /\ \A k \in 1 .. n - 1 : g[k] = 2 * g[k - 1]
    BY <2>3 DEF Powers
  <2> DEFINE f == [k \in 0 .. n |-> IF k = n THEN 2 * g[n - 1] ELSE g[k]]
  <2>5. \A k \in 0 .. n - 1 : k \in 0 .. n /\ k # n /\ f[k] = g[k] /\ g[k] \in Nat
    BY <2>1, <2>4
  <2>6. f[n] = 2 * g[n - 1] /\ n - 1 \in 0 .. n - 1
    BY <2>1
  <2>7. f \in [0 .. n -> Nat]
    <3>1. \A k \in 0 .. n : k = n \/ k \in 0 .. n - 1
      BY <2>1
    <3>2. 2 * g[n - 1] \in Nat
      <4>1. g[n - 1] \in Nat
        BY <2>4, <2>6
      <4> HIDE DEF f
      <4> QED BY <4>1
    <3> QED BY <2>5, <3>1, <3>2
  <2> HIDE DEF f
  <2>8. f[0] = 1
    BY <2>1, <2>4, <2>5
  <2>9. ASSUME NEW k \in 1 .. n PROVE f[k] = 2 * f[k - 1]
    <3>1. k - 1 \in 0 .. n - 1 /\ (k = n \/ (k \in 1 .. n - 1 /\ k \in 0 .. n - 1))
      BY <2>1
    <3> QED BY <2>4, <2>5, <2>6, <3>1
  <2>10. f \in Powers(n)
    BY <2>7, <2>8, <2>9 DEF Powers
  <2> QED BY <1>1, <2>10
<1> QED BY <1>2, <1>3

LEMMA PowersAgree ==
  ASSUME NEW m \in Nat, NEW n \in Nat, NEW f \in Powers(m), NEW g \in Powers(n)
  PROVE  \A k \in Nat : k <= m /\ k <= n => f[k] = g[k]
<1> DEFINE T == {k \in Nat : k <= m /\ k <= n /\ f[k] # g[k]}
<1> SUFFICES ASSUME T # {} PROVE FALSE
  OBVIOUS
<1>1. PICK k \in T : \A l \in T : k <= l
  BY NatMin
<1>2. f[0] = g[0]
  BY DEF Powers
<1>3. k \in Nat /\ k # 0 /\ k <= m /\ k <= n /\ f[k] # g[k]
  BY <1>1, <1>2
<1>4. k - 1 \in Nat /\ k - 1 <= m /\ k - 1 <= n /\ ~(k <= k - 1)
      /\ k \in 1 .. m /\ k \in 1 .. n
  BY <1>3
<1>5. f[k - 1] = g[k - 1]
  BY <1>1, <1>4
<1>6. f[k] = 2 * f[k - 1] /\ g[k] = 2 * g[k - 1]
  BY <1>4 DEF Powers
<1> QED BY <1>3, <1>5, <1>6

(* What the recursive definition of Pow2 says.                              *)
LEMMA Pow2Def ==
  /\ Pow2 \in [Nat -> Nat] /\ Pow2[0] = 1
  /\ \A n \in Nat : Pow2[n + 1] = 2 * Pow2[n]
<1> DEFINE part(n) == CHOOSE f : f \in Powers(n)
           whole == [n \in Nat |-> part(n)[n]]
           Def(h) == h = [n \in Nat |-> IF n = 0 THEN 1 ELSE 2 * h[n - 1]]
<1>1. \A n \in Nat : part(n) \in Powers(n)
  BY PowersExist
<1>2. whole \in [Nat -> Nat]
  <2>1. ASSUME NEW n \in Nat PROVE part(n)[n] \in Nat
    <3>1. part(n) \in Powers(n) /\ n \in 0 .. n
      BY <1>1
    <3> HIDE DEF part
    <3>2. part(n) \in [0 .. n -> Nat]
      BY <3>1 DEF Powers
    <3> QED BY <3>1, <3>2
  <2> QED BY <2>1
<1>3. ASSUME NEW n \in Nat PROVE whole[n] = IF n = 0 THEN 1 ELSE 2 * whole[n - 1]
  <2>1. whole[n] = part(n)[n]
    OBVIOUS
  <2>2. part(n) \in Powers(n)
    BY <1>1
  <2>3. CASE n = 0
    BY <2>1, <2>2, <2>3 DEF Powers
  <2>4. CASE n # 0
    <3>1. n - 1 \in Nat /\ n \in 1 .. n /\ n - 1 <= n /\ n - 1 <= n - 1
      BY <2>4
    <3>2. part(n)[n] = 2 * part(n)[n - 1]
      BY <2>2, <3>1 DEF Powers
    <3>3. part(n - 1) \in Powers(n - 1)
      BY <1>1, <3>1
    <3>4. whole[n - 1] = part(n - 1)[n - 1]
      BY <3>1
    <3> HIDE DEF part, whole
    <3>5. part(n)[n - 1] = part(n - 1)[n - 1]
      BY <2>2, <3>1, <3>3, PowersAgree
    <3> QED BY <2>1, <2>4, <3>2, <3>4, <3>5
  <2> QED BY <2>3, <2>4
<1>4. Def(whole)
  <2> HIDE DEF whole
  <2> QED BY <1>2, <1>3
<1>5. Def(Pow2)
  <2> HIDE DEF whole
  <2>1. \E h : Def(h)
    BY <1>4
  <2>2. Pow2 = CHOOSE h : Def(h)
    BY DEF Pow2
  <2> HIDE DEF Def
  <2> QED BY <2>1, <2>2
<1>6. Pow2[0] = 1 /\ \A n \in Nat : Pow2[n + 1] = 2 * Pow2[n]
  <2>1. \A n \in Nat : Pow2[n] = IF n = 0 THEN 1 ELSE 2 * Pow2[n - 1]
    BY <1>5
  <2>2. \A n \in Nat : n + 1 \in Nat /\ n + 1 # 0 /\ (n + 1) - 1 = n
    OBVIOUS
  <2>3. 0 \in Nat
    OBVIOUS
  <2> QED BY <2>1, <2>2, <2>3
<1>7. Pow2 \in [Nat -> Nat]
  <2>1. DOMAIN Pow2 = Nat /\ Pow2 = [n \in Nat |-> Pow2[n]]
    BY <1>5
  <2> DEFINE T == {n \in Nat : Pow2[n] \notin Nat}
  <2>2. T = {}
    <3> SUFFICES ASSUME T # {} PROVE FALSE
      OBVIOUS
    <3>1. PICK n \in T : \A l \in T : n <= l
      BY NatMin
    <3>2. n \in Nat /\ n # 0
      BY <1>6, <3>1
    <3>3. n - 1 \in Nat /\ ~(n <= n - 1) /\ (n - 1) + 1 = n
      BY <3>2
    <3>4. Pow2[n - 1] \in Nat
      BY <3>1, <3>3
    <3>5. Pow2[n] = 2 * Pow2[n - 1]
      BY <1>6, <3>3
    <3> QED BY <3>1, <3>4, <3>5
  <2>3. \A n \in Nat : Pow2[n] \in Nat
    BY <2>2
  <2> QED BY <2>1, <2>3
<1> QED BY <1>6, <1>7

LEMMA Pow2Grows == \A n \in Nat : Pow2[n] \in Nat /\ Pow2[n] > n
<1> DEFINE T == {n \in Nat : ~(Pow2[n] > n)}
<1>1. \A n \in Nat : Pow2[n] \in Nat
  BY Pow2Def
<1>2. T = {}
  <2> SUFFICES ASSUME T # {} PROVE FALSE
    OBVIOUS
  <2>1. PICK n \in T : \A l \in T : n <= l
    BY NatMin
  <2>2. n \in Nat /\ n # 0
    BY Pow2Def, <2>1
  <2>3. n - 1 \in Nat /\ ~(n <= n - 1) /\ (n - 1) + 1 = n
    BY <2>2
  <2>4. Pow2[n - 1] > n - 1 /\ Pow2[n - 1] \in Nat
    BY <1>1, <2>1, <2>3
  <2>5. Pow2[n] = 2 * Pow2[n - 1]
    BY <2>3, Pow2Def
  <2> QED BY <2>1, <2>2, <2>4, <2>5
<1> QED BY <1>1, <1>2

-----------------------------------------------------------------------------
(* Scaling.                                                                *)

LEMMA Scales ==
  /\ Half \in Nat \ {0} /\ CorrScale \in Nat \ {0} /\ CorrScale + 1 < Half
  /\ (CorrScale + 1) * (CorrScale + 1) < Half /\ Half - 2 \in Nat \ {0}
  /\ Candidates \in Nat \ {0} /\ ListLen \in 1 .. Candidates /\ ListLen \in Nat \ {0}
<1>1. /\ Half \in Nat \ {0} /\ CorrScale \in Nat \ {0}
      /\ (CorrScale + 1) * (CorrScale + 1) < Half
      /\ Candidates \in Nat /\ ListLen \in 1 .. Candidates
  BY PitchSearchAssumption
<1>2. (CorrScale + 1) * (CorrScale + 1) >= 2 * (CorrScale + 1)
  BY <1>1
<1>3. CorrScale + 1 < Half /\ Half - 2 \in Nat \ {0}
  BY <1>1, <1>2
<1>4. Candidates \in Nat \ {0} /\ ListLen \in Nat \ {0}
  BY <1>1
<1> QED BY <1>1, <1>3, <1>4

(* A number in the range of a short is its own cast.                        *)
LEMMA Word16Exact == ASSUME NEW x \in -Half .. Half - 1 PROVE Word16(x) = x
<1>1. Half \in Nat \ {0}
  BY Scales
<1> DEFINE m == 2 * Half
           y == x + Half
<1>2. m \in Nat \ {0} /\ y \in Nat /\ y < m
  BY <1>1
<1>3. y % m = y
  <2> HIDE DEF m, y
  <2> QED BY <1>2
<1>4. y - Half = x
  BY <1>1
<1> QED BY <1>3, <1>4 DEF Word16

(* A finite list has a largest value.                                       *)
LEMMA LargestExists ==
  ASSUME NEW n \in Nat, NEW x \in [1 .. n -> Int]
  PROVE  LET largest == Max({1} \cup {Abs(x[k]) : k \in DOMAIN x})
         IN largest \in Nat \ {0} /\ \A k \in 1 .. n : Abs(x[k]) <= largest
<1> DEFINE V(l) == {1} \cup {Abs(x[k]) : k \in 1 .. l}
           HasMax(l) == \E v \in V(l) : \A v1 \in V(l) : v >= v1
           T == {l \in Nat : l <= n /\ ~HasMax(l)}
<1>1. \A k \in 1 .. n : Abs(x[k]) \in Nat
  <2>1. \A k \in 1 .. n : x[k] \in Int
    OBVIOUS
  <2> QED BY <2>1 DEF Abs
<1>2. T = {}
  <2> SUFFICES ASSUME T # {} PROVE FALSE
    OBVIOUS
  <2>1. PICK l \in T : \A h \in T : l <= h
    <3> HIDE DEF HasMax
    <3>1. T \subseteq Nat
      OBVIOUS
    <3> HIDE DEF T
    <3> QED BY <3>1, NatMin
  <2>2. l \in Nat /\ l <= n /\ ~HasMax(l)
    <3> HIDE DEF HasMax
    <3> QED BY <2>1
  <2>3. l # 0
    <3>1. V(0) = {1}
      OBVIOUS
    <3>2. HasMax(0)
      <4>1. \A v1 \in {1} : 1 >= v1
        OBVIOUS
      <4> HIDE DEF V
      <4> QED BY <3>1, <4>1
    <3> QED BY <2>2, <3>2
  <2>4. l - 1 \in Nat /\ l - 1 <= n /\ ~(l <= l - 1) /\ l \in 1 .. n
    BY <2>2, <2>3
  <2>5. HasMax(l - 1)
    <3> HIDE DEF HasMax
    <3> QED BY <2>1, <2>4
  <2>6. V(l) = V(l - 1) \cup {Abs(x[l])}
    <3>1. 1 .. l = (1 .. l - 1) \cup {l}
      BY <2>2, <2>3
    <3> QED BY <3>1
  <2>7. PICK v \in V(l - 1) : \A v1 \in V(l - 1) : v >= v1
    BY <2>5
  <2>8. V(l - 1) \subseteq Nat /\ Abs(x[l]) \in Nat
    <3>1. \A k \in 1 .. l - 1 : k \in 1 .. n
      BY <2>4
    <3> QED BY <1>1, <2>4, <3>1
  <2> HIDE DEF V
  <2>9. CASE v >= Abs(x[l])
    BY <2>2, <2>6, <2>7, <2>9
  <2>10. CASE ~(v >= Abs(x[l]))
    <3>1. \A v1 \in V(l) : Abs(x[l]) >= v1
      BY <2>6, <2>7, <2>8, <2>10
    <3> QED BY <2>2, <2>6, <3>1
  <2> QED BY <2>9, <2>10
<1>3. HasMax(n)
  <2> HIDE DEF HasMax
  <2>1. n \in Nat /\ n <= n
    OBVIOUS
  <2> QED BY <1>2, <2>1
<1>4. {1} \cup {Abs(x[k]) : k \in DOMAIN x} = V(n)
  <2>1. DOMAIN x = 1 .. n
    OBVIOUS
  <2> QED BY <2>1
<1>5. 1 \in V(n) /\ (\A k \in 1 .. n : Abs(x[k]) \in V(n)) /\ V(n) \subseteq Nat
  BY <1>1
<1> HIDE DEF V
<1>6. Max(V(n)) \in V(n) /\ \A v1 \in V(n) : Max(V(n)) >= v1
  BY <1>3 DEF Max
<1>7. Max(V(n)) \in Nat \ {0}
  BY <1>5, <1>6
<1>8. \A k \in 1 .. n : Abs(x[k]) <= Max(V(n))
  BY <1>1, <1>5, <1>6, <1>7
<1> QED BY <1>4, <1>7, <1>8

(* The division rounds down: a value within the largest one is within the   *)
(* scale afterwards, a negative one at most one beyond it.                  *)
LEMMA Halved ==
  ASSUME NEW m \in Nat, NEW d \in Nat \ {0}, NEW scale \in Nat, m \div d <= scale,
         NEW x \in Int, Abs(x) <= m
  PROVE  /\ x \div d \in Int /\ -(scale + 1) <= x \div d /\ x \div d <= scale
         /\ x >= 0 => x \div d >= 0
<1>1. x <= m /\ -m <= x
  BY DEF Abs
<1>2. /\ (m \div d) * d <= m /\ m < (m \div d + 1) * d /\ m \div d \in Int
      /\ (x \div d) * d <= x /\ x < (x \div d + 1) * d /\ x \div d \in Int
  OBVIOUS
<1> DEFINE q == m \div d
           h == x \div d
<1>3. q \in Int /\ h \in Int /\ m < (q + 1) * d /\ h * d <= x /\ x < (h + 1) * d /\ q <= scale
  BY <1>2
<1> HIDE DEF q, h
<1>4. h <= q
  <2> SUFFICES ASSUME h >= q + 1 PROVE FALSE
    BY <1>3
  <2>1. h * d >= (q + 1) * d
    BY <1>3
  <2>2. (q + 1) * d \in Int /\ h * d \in Int
    BY <1>3
  <2> QED BY <1>1, <1>3, <2>1, <2>2
<1>5. h >= -(q + 1)
  <2> SUFFICES ASSUME h + 1 <= -(q + 1) PROVE FALSE
    BY <1>3
  <2>1. (h + 1) * d <= (-(q + 1)) * d
    BY <1>3
  <2>2. (-(q + 1)) * d = -((q + 1) * d)
    BY <1>3
  <2>3. (q + 1) * d \in Int /\ (h + 1) * d \in Int
    BY <1>3
  <2> QED BY <1>1, <1>3, <2>1, <2>2, <2>3
<1>6. x >= 0 => h >= 0
  <2> SUFFICES ASSUME x >= 0, h + 1 <= 0 PROVE FALSE
    BY <1>3
  <2>1. (h + 1) * d <= 0 * d
    BY <1>3
  <2>2. (h + 1) * d \in Int
    BY <1>3
  <2> QED BY <1>3, <2>1, <2>2
<1> QED BY <1>3, <1>4, <1>5, <1>6 DEF q, h

LEMMA ShiftScales ==
  ASSUME NEW n \in Nat, NEW x \in [1 .. n -> Int], NEW scale \in Nat, scale + 1 < Half
  PROVE  /\ normalize16(x, scale) \in [1 .. n -> -(scale + 1) .. scale]
         /\ (\A k \in 1 .. n : x[k] >= 0) => normalize16(x, scale) \in [1 .. n -> 0 .. scale]
<1> DEFINE m == Max({1} \cup {Abs(x[k]) : k \in DOMAIN x})
           Fits(s) == m \div Pow2[s] <= scale
           s0 == Shift(x, scale)
<1>1. m \in Nat \ {0} /\ \A k \in 1 .. n : Abs(x[k]) <= m
  BY LargestExists
<1>2. s0 = CHOOSE s \in 0 .. m : Fits(s) /\ \A t \in 0 .. s - 1 : m \div Pow2[t] > scale
  BY DEF Shift
<1> HIDE DEF m, s0
<1>3. \A s \in Nat : m \div Pow2[s] \in Int
  BY <1>1, Pow2Grows
<1>4. Fits(m)
  <2>1. m \div Pow2[m] = 0
    <3>1. Pow2[m] \in Nat \ {0} /\ m \in Nat /\ m < Pow2[m]
      BY <1>1, Pow2Grows
    <3> QED BY <3>1, SMTT(30)
  <2> QED BY <2>1
<1>5. PICK s \in {l \in Nat : Fits(l)} : \A l \in {h \in Nat : Fits(h)} : s <= l
  <2> HIDE DEF Fits
  <2>1. {l \in Nat : Fits(l)} \subseteq Nat /\ {l \in Nat : Fits(l)} # {}
    BY <1>1, <1>4
  <2> QED BY <2>1, NatMin
<1>6. /\ s \in 0 .. m /\ Fits(s)
      /\ \A t \in 0 .. s - 1 : m \div Pow2[t] > scale
  <2>1. s \in Nat /\ s <= m /\ Fits(s)
    <3> HIDE DEF Fits
    <3> QED BY <1>1, <1>4, <1>5
  <2>2. ASSUME NEW t \in 0 .. s - 1 PROVE m \div Pow2[t] > scale
    <3>1. t \in Nat /\ ~(s <= t)
      BY <2>1
    <3>2. ~Fits(t)
      BY <1>5, <3>1
    <3> QED BY <1>3, <3>1, <3>2
  <2> QED BY <1>1, <2>1, <2>2
<1>7. s0 \in 0 .. m /\ Fits(s0)
  BY <1>2, <1>6
<1>8. PICK d \in Nat \ {0} : d = Pow2[s0] /\ m \div d <= scale
  <2>1. s0 \in Nat
    BY <1>1, <1>7
  <2> QED BY <1>7, <2>1, Pow2Grows
<1>9. normalize16(x, scale) = [k \in 1 .. n |-> Word16(x[k] \div d)]
  BY <1>8 DEF normalize16, s0
<1>10. ASSUME NEW k \in 1 .. n
       PROVE  /\ Word16(x[k] \div d) \in -(scale + 1) .. scale
              /\ x[k] >= 0 => Word16(x[k] \div d) \in 0 .. scale
  <2>1. x[k] \in Int /\ Abs(x[k]) <= m /\ m \in Nat
    BY <1>1
  <2>2. /\ x[k] \div d \in Int /\ -(scale + 1) <= x[k] \div d /\ x[k] \div d <= scale
        /\ x[k] >= 0 => x[k] \div d >= 0
    BY <1>8, <2>1, Halved
  <2> DEFINE h == x[k] \div d
  <2>3. h \in Int /\ -(scale + 1) <= h /\ h <= scale /\ (x[k] >= 0 => h >= 0)
    BY <2>2
  <2> HIDE DEF h
  <2>4. h \in -Half .. Half - 1 /\ h \in -(scale + 1) .. scale
    BY <2>3, Scales
  <2>5. Word16(h) = h
    BY <2>4, Word16Exact
  <2> QED BY <2>3, <2>4, <2>5 DEF h
<1> QED BY <1>9, <1>10

-----------------------------------------------------------------------------
(* The list.                                                               *)

(* How many entries of the list hold a period.                              *)
Filled == IF i - 1 <= ListLen THEN i - 1 ELSE ListLen

Empty == [score |-> -1, ener |-> 0, pitch |-> 1]

MeasuredSoFar ==
  /\ corr16 \in [1 .. Candidates -> -(CorrScale + 1) .. CorrScale]
  /\ ener16 \in [1 .. Candidates -> 0 .. Half - 2]

Entry(p) == [score |-> corr16[p] * corr16[p], ener |-> ener16[p] + 1, pitch |-> p]

(* The entries are of periods already considered, behind them the list is   *)
(* empty.                                                                   *)
Entries ==
  /\ DOMAIN best = 1 .. ListLen
  /\ \A k \in 1 .. ListLen :
       /\ k <= Filled => best[k].pitch \in 1 .. i - 1 /\ best[k] = Entry(best[k].pitch)
       /\ k > Filled => best[k] = Empty

Ordered ==
  \A j, k \in 1 .. ListLen :
    j < k /\ k <= Filled =>
      best[j].pitch # best[k].pitch /\ AtLeast(best[j].pitch, best[k].pitch)

(* A period that is not in the list was no better than its last entry.      *)
NoneMissing ==
  \A p \in 1 .. i - 1 :
    \/ \E k \in 1 .. ListLen : k <= Filled /\ best[k].pitch = p
    \/ Filled = ListLen /\ AtLeast(best[ListLen].pitch, p)

PitchIInv ==
  /\ i \in 0 .. Candidates + 1
  /\ i = 0 => best = Unsearched
  /\ i # 0 => MeasuredSoFar /\ Entries /\ Ordered /\ NoneMissing

LEMMA MeasuredValues ==
  ASSUME MeasuredSoFar, NEW p \in 1 .. Candidates
  PROVE  /\ corr16[p] \in Int /\ ener16[p] \in Nat /\ ener16[p] + 1 \in 1 .. Half - 1
         /\ corr16[p] * corr16[p] \in 0 .. Half - 1
         /\ Word16(corr16[p] * corr16[p]) = corr16[p] * corr16[p]
         /\ Word16(ener16[p] + 1) = ener16[p] + 1 /\ Word16(1 + ener16[p]) = ener16[p] + 1
<1>1. corr16[p] \in -(CorrScale + 1) .. CorrScale /\ ener16[p] \in 0 .. Half - 2
  BY DEF MeasuredSoFar
<1> DEFINE c == corr16[p]
           e == ener16[p]
           u == CorrScale + 1
<1>2. c \in Int /\ e \in Int /\ u \in Nat /\ -u <= c /\ c <= u /\ 0 <= e /\ e <= Half - 2
      /\ u * u < Half /\ Half \in Nat \ {0}
  BY <1>1, Scales
<1> HIDE DEF c, e, u
<1>3. c * c \in Int /\ 0 <= c * c /\ c * c <= u * u
  <2>1. CASE c >= 0
    <3>1. c * c <= u * c /\ u * c <= u * u
      BY <1>2, <2>1
    <3> QED BY <1>2, <2>1, <3>1
  <2>2. CASE c < 0
    <3>1. PICK a \in Nat : a = -c
      BY <1>2, <2>2
    <3>2. a <= u /\ c * c = a * a
      BY <1>2, <3>1
    <3>3. a * a <= u * a /\ u * a <= u * u
      BY <1>2, <3>2
    <3> QED BY <1>2, <3>2, <3>3
  <2> QED BY <1>2, <2>1, <2>2
<1>4. c * c \in 0 .. Half - 1 /\ e + 1 \in 1 .. Half - 1 /\ 1 + e = e + 1
  <2>1. u * u \in Nat
    BY <1>2
  <2> QED BY <1>2, <1>3, <2>1
<1>5. c * c \in -Half .. Half - 1 /\ e + 1 \in -Half .. Half - 1
  <2> DEFINE s == c * c
  <2>1. s \in 0 .. Half - 1
    BY <1>4
  <2> HIDE DEF s
  <2>2. s \in -Half .. Half - 1
    BY <1>2, <2>1
  <2>3. e + 1 \in -Half .. Half - 1
    BY <1>2, <1>4
  <2> QED BY <2>2, <2>3 DEF s
<1>6. Word16(c * c) = c * c /\ Word16(e + 1) = e + 1
  BY <1>5, Word16Exact
<1> QED BY <1>2, <1>4, <1>6 DEF c, e

(* The comparison multiplied out is an order.                               *)
LEMMA QuotientsCompare ==
  ASSUME NEW a \in Int, NEW b \in Int, NEW c \in Int,
         NEW x \in Nat \ {0}, NEW y \in Nat \ {0}, NEW z \in Nat \ {0},
         a * y >= b * x, b * z >= c * y
  PROVE  a * z >= c * x
OBVIOUS

LEMMA AtLeastTransitive ==
  ASSUME MeasuredSoFar, NEW p \in 1 .. Candidates, NEW q \in 1 .. Candidates,
         NEW t \in 1 .. Candidates, AtLeast(p, q), AtLeast(q, t)
  PROVE  AtLeast(p, t)
<1> DEFINE s(l) == corr16[l] * corr16[l]
           e(l) == ener16[l] + 1
<1>1. /\ s(p) \in Int /\ s(q) \in Int /\ s(t) \in Int
      /\ e(p) \in Nat \ {0} /\ e(q) \in Nat \ {0} /\ e(t) \in Nat \ {0}
  <2>1. ASSUME NEW l \in 1 .. Candidates PROVE s(l) \in Int /\ e(l) \in Nat \ {0}
    <3>1. s(l) \in 0 .. Half - 1 /\ ener16[l] \in Nat
      BY MeasuredValues
    <3> HIDE DEF s
    <3>2. s(l) \in Int
      BY <3>1
    <3> QED BY <3>1, <3>2
  <2> HIDE DEF s, e
  <2> QED BY <2>1
<1>2. s(p) * e(q) >= s(q) * e(p) /\ s(q) * e(t) >= s(t) * e(q)
  BY DEF AtLeast
<1>3. s(p) * e(t) >= s(t) * e(p)
  <2> HIDE DEF s, e
  <2> QED BY <1>1, <1>2, QuotientsCompare
<1> QED BY <1>3 DEF AtLeast

(* What the comparison with an entry says.                                  *)
LEMMA BeatsEntry ==
  ASSUME MeasuredSoFar, NEW p \in 1 .. Candidates, NEW q \in 1 .. Candidates
  PROVE  /\ Beats(corr16[p] * corr16[p], ener16[p], Entry(q)) => AtLeast(p, q)
         /\ ~Beats(corr16[p] * corr16[p], ener16[p], Entry(q)) => AtLeast(q, p)
<1> DEFINE s(l) == corr16[l] * corr16[l]
           e(l) == ener16[l] + 1
<1>1. ASSUME NEW l \in 1 .. Candidates
      PROVE  /\ s(l) \in Int /\ e(l) \in Int /\ Word16(s(l)) = s(l)
             /\ Word16(e(l)) = e(l) /\ Word16(1 + ener16[l]) = e(l)
  <2>1. /\ s(l) \in 0 .. Half - 1 /\ ener16[l] \in Nat /\ Word16(s(l)) = s(l)
        /\ Word16(e(l)) = e(l) /\ Word16(1 + ener16[l]) = e(l)
    BY MeasuredValues
  <2>2. e(l) \in Int
    BY <2>1
  <2> HIDE DEF s, e
  <2>3. s(l) \in Int
    BY <2>1
  <2> QED BY <2>1, <2>2, <2>3
<1>2. Entry(q).score = s(q) /\ Entry(q).ener = e(q)
  BY DEF Entry
<1>3. Beats(s(p), ener16[p], Entry(q)) <=>
        Word16(s(p)) * Word16(e(q)) > Word16(s(q)) * Word16(1 + ener16[p])
  <2> HIDE DEF s, e
  <2> QED BY <1>2 DEF Beats
<1>4. AtLeast(p, q) <=> s(p) * e(q) >= s(q) * e(p)
  BY DEF AtLeast
<1>5. AtLeast(q, p) <=> s(q) * e(p) >= s(p) * e(q)
  BY DEF AtLeast
<1>6. Beats(s(p), ener16[p], Entry(q)) <=> s(p) * e(q) > s(q) * e(p)
  <2> HIDE DEF s, e
  <2>1. /\ Word16(s(p)) = s(p) /\ Word16(e(q)) = e(q) /\ Word16(s(q)) = s(q)
        /\ Word16(1 + ener16[p]) = e(p)
    BY <1>1
  <2> QED BY <1>3, <2>1
<1>7. s(p) * e(q) \in Int /\ s(q) * e(p) \in Int
  <2> HIDE DEF s, e
  <2>1. s(p) \in Int /\ e(p) \in Int /\ s(q) \in Int /\ e(q) \in Int
    BY <1>1
  <2> QED BY <2>1
<1>8. /\ s(p) * e(q) > s(q) * e(p) => s(p) * e(q) >= s(q) * e(p)
      /\ ~(s(p) * e(q) > s(q) * e(p)) => s(q) * e(p) >= s(p) * e(q)
  <2> HIDE DEF s, e
  <2> QED BY <1>7
<1> QED BY <1>4, <1>5, <1>6, <1>8

(* An empty entry is always beaten.                                         *)
LEMMA BeatsEmpty ==
  ASSUME MeasuredSoFar, NEW p \in 1 .. Candidates
  PROVE  Beats(corr16[p] * corr16[p], ener16[p], Empty)
<1> DEFINE s == corr16[p] * corr16[p]
           e == ener16[p] + 1
<1>1. /\ Word16(s) = s /\ s \in Int /\ e \in Int /\ e >= 1 /\ Word16(1 + ener16[p]) = e
  <2>1. /\ s \in 0 .. Half - 1 /\ ener16[p] \in Nat /\ Word16(s) = s
        /\ Word16(1 + ener16[p]) = e
    BY MeasuredValues
  <2>2. e \in Int /\ e >= 1
    BY <2>1
  <2> HIDE DEF s, e
  <2>3. s \in Int
    BY <2>1
  <2> QED BY <2>1, <2>2, <2>3
<1>2. Word16(0) = 0 /\ Word16(-1) = -1
  <2>1. 0 \in -Half .. Half - 1 /\ -1 \in -Half .. Half - 1
    BY Scales
  <2> QED BY <2>1, Word16Exact
<1>3. Empty.ener = 0 /\ Empty.score = -1
  BY DEF Empty
<1> HIDE DEF s, e
<1>4. Word16(s) * Word16(Empty.ener) > Word16(Empty.score) * Word16(1 + ener16[p])
  <2>1. s * 0 > (-1) * e
    BY <1>1
  <2> QED BY <1>1, <1>2, <1>3, <2>1
<1> QED BY <1>4 DEF Beats, s

(* The entries a period beats, the last one aside, and the place it moves   *)
(* to.                                                                      *)
Beaten == {j \in 1 .. ListLen - 1 : Beats(Word16(corr16[i] * corr16[i]), ener16[i], best[j])}
Slot == IF Beaten = {} THEN ListLen ELSE Min(Beaten)
Better == Beats(Word16(corr16[i] * corr16[i]), ener16[i], best[ListLen])

LEMMA EntryBeaten ==
  ASSUME MeasuredSoFar, Entries, i \in 1 .. Candidates, NEW k \in 1 .. ListLen
  PROVE  LET tmp == Word16(corr16[i] * corr16[i]) IN
         /\ k > Filled => Beats(tmp, ener16[i], best[k])
         /\ k <= Filled =>
              /\ best[k].pitch \in 1 .. Candidates
              /\ Beats(tmp, ener16[i], best[k]) => AtLeast(i, best[k].pitch)
              /\ ~Beats(tmp, ener16[i], best[k]) => AtLeast(best[k].pitch, i)
<1>1. Word16(corr16[i] * corr16[i]) = corr16[i] * corr16[i]
  BY MeasuredValues
<1>2. CASE k > Filled
  <2>1. best[k] = Empty
    BY <1>2 DEF Entries
  <2>2. ~(k <= Filled)
    BY <1>2, Scales DEF Filled
  <2> QED BY <1>1, <2>1, <2>2, BeatsEmpty
<1>3. CASE ~(k > Filled)
  <2>1. k <= Filled
    BY <1>3, Scales DEF Filled
  <2>2. best[k].pitch \in 1 .. i - 1 /\ best[k] = Entry(best[k].pitch)
    BY <2>1 DEF Entries
  <2>3. best[k].pitch \in 1 .. Candidates
    BY <2>2, Scales
  <2> QED BY <1>1, <1>3, <2>2, <2>3, BeatsEntry
<1> QED BY <1>2, <1>3

LEMMA SlotFound ==
  ASSUME MeasuredSoFar, Entries, Ordered, i \in 1 .. Candidates, Better
  PROVE  /\ Slot \in 1 .. ListLen /\ Slot <= Filled + 1 /\ Filled \in 0 .. ListLen
         /\ \A k \in 1 .. ListLen : k < Slot => AtLeast(best[k].pitch, i)
         /\ \A k \in 1 .. ListLen : Slot <= k /\ k <= Filled => AtLeast(i, best[k].pitch)
<1> DEFINE tmp == Word16(corr16[i] * corr16[i])
           Wins(k) == Beats(tmp, ener16[i], best[k])
<1>1. ListLen \in Nat \ {0} /\ Filled \in 0 .. ListLen
  BY Scales DEF Filled
<1>2. \A k \in 1 .. ListLen :
        /\ k > Filled => Wins(k)
        /\ k <= Filled =>
             /\ best[k].pitch \in 1 .. Candidates
             /\ Wins(k) => AtLeast(i, best[k].pitch)
             /\ ~Wins(k) => AtLeast(best[k].pitch, i)
  BY EntryBeaten
<1>3. Wins(ListLen) /\ Beaten = {j \in 1 .. ListLen - 1 : Wins(j)}
  BY DEF Better, Beaten
<1> HIDE DEF Wins, tmp
<1>4. /\ Slot \in 1 .. ListLen /\ Wins(Slot)
      /\ \A k \in 1 .. ListLen : k < Slot => ~Wins(k)
  <2>1. CASE Beaten = {}
    <3>1. Slot = ListLen
      BY <2>1 DEF Slot
    <3>2. ASSUME NEW k \in 1 .. ListLen, k < ListLen PROVE ~Wins(k)
      <4>1. k \in 1 .. ListLen - 1
        BY <1>1, <3>2
      <4> QED BY <1>3, <2>1, <4>1
    <3> QED BY <1>1, <1>3, <3>1, <3>2
  <2>2. CASE Beaten # {}
    <3>1. Slot = Min(Beaten)
      BY <2>2 DEF Slot
    <3>2. Beaten \subseteq Nat
      BY <1>3
    <3>3. \E x \in Beaten : \A y \in Beaten : x <= y
      BY <2>2, <3>2, NatMin
    <3>4. Slot \in Beaten /\ \A y \in Beaten : Slot <= y
      BY <3>1, <3>3 DEF Min
    <3>5. Slot \in 1 .. ListLen - 1 /\ Wins(Slot)
      BY <1>3, <3>4
    <3>6. ASSUME NEW k \in 1 .. ListLen, k < Slot PROVE ~Wins(k)
      <4>1. k \in 1 .. ListLen - 1 /\ ~(Slot <= k)
        BY <1>1, <3>5, <3>6
      <4> QED BY <1>3, <3>4, <4>1
    <3> QED BY <1>1, <3>5, <3>6
  <2> QED BY <2>1, <2>2
<1>5. Slot <= Filled + 1
  <2> SUFFICES ASSUME Filled + 1 < Slot PROVE FALSE
    BY <1>1, <1>4
  <2>1. Filled + 1 \in 1 .. ListLen /\ Filled + 1 > Filled
    BY <1>1, <1>4
  <2> QED BY <1>2, <1>4, <2>1
<1>6. ASSUME NEW k \in 1 .. ListLen, k < Slot PROVE AtLeast(best[k].pitch, i)
  <2>1. k <= Filled
    BY <1>1, <1>4, <1>5, <1>6
  <2> QED BY <1>2, <1>4, <1>6, <2>1
<1>7. ASSUME NEW k \in 1 .. ListLen, Slot <= k, k <= Filled PROVE AtLeast(i, best[k].pitch)
  <2>1. Slot <= Filled
    BY <1>1, <1>4, <1>7
  <2>2. AtLeast(i, best[Slot].pitch)
    BY <1>2, <1>4, <2>1
  <2>3. CASE k = Slot
    BY <2>2, <2>3
  <2>4. CASE k # Slot
    <3>1. Slot < k
      BY <1>4, <1>7, <2>4
    <3>2. AtLeast(best[Slot].pitch, best[k].pitch)
      BY <1>4, <1>7, <3>1 DEF Ordered
    <3>3. best[Slot].pitch \in 1 .. Candidates /\ best[k].pitch \in 1 .. Candidates
      BY <1>2, <1>4, <1>7, <2>1
    <3> QED BY <2>2, <3>2, <3>3, AtLeastTransitive
  <2> QED BY <2>3, <2>4
<1> QED BY <1>1, <1>4, <1>5, <1>6, <1>7

(* A new entry moves those from its place on back by one.                   *)
WithEntry(list, n, place, new) ==
  SubSeq(list, 1, place - 1) \o <<new>> \o SubSeq(list, place, n - 1)

LEMMA EntryInserted ==
  ASSUME NEW list, NEW n \in Nat \ {0}, DOMAIN list = 1 .. n, NEW place \in 1 .. n, NEW new
  PROVE  /\ DOMAIN WithEntry(list, n, place, new) = 1 .. n
         /\ WithEntry(list, n, place, new)[place] = new
         /\ \A k \in 1 .. n : k < place => WithEntry(list, n, place, new)[k] = list[k]
         /\ \A k \in 1 .. n : k > place => WithEntry(list, n, place, new)[k] = list[k - 1]
<1> DEFINE S == {list[k] : k \in 1 .. n} \cup {new}
           a == SubSeq(list, 1, place - 1)
           b == <<new>>
           c == SubSeq(list, place, n - 1)
<1>1. place \in Int /\ n \in Int /\ place - 1 \in Int /\ n - 1 \in Int
  OBVIOUS
<1>2. /\ a \in Seq(S) /\ Len(a) = place - 1
      /\ \A k \in 1 .. place - 1 : a[k] = list[k]
  <2>1. \A k \in 1 .. place - 1 : list[k] \in S
    OBVIOUS
  <2> HIDE DEF S
  <2>2. /\ a \in Seq(S) /\ Len(a) = IF 1 <= place - 1 THEN (place - 1) - 1 + 1 ELSE 0
        /\ \A k \in 1 .. (place - 1) - 1 + 1 : a[k] = list[1 + k - 1]
    BY <1>1, <2>1, SubSeqProperties
  <2> HIDE DEF a
  <2>3. \A k \in Int : 1 + k - 1 = k
    OBVIOUS
  <2>4. (place - 1) - 1 + 1 = place - 1
    OBVIOUS
  <2> QED BY <2>2, <2>3, <2>4
<1>3. /\ c \in Seq(S) /\ Len(c) = n - place
      /\ \A k \in 1 .. n - place : c[k] = list[place + k - 1]
  <2>1. \A k \in place .. n - 1 : list[k] \in S
    OBVIOUS
  <2> HIDE DEF S
  <2>2. /\ c \in Seq(S) /\ Len(c) = IF place <= n - 1 THEN (n - 1) - place + 1 ELSE 0
        /\ \A k \in 1 .. (n - 1) - place + 1 : c[k] = list[place + k - 1]
    BY <1>1, <2>1, SubSeqProperties
  <2> HIDE DEF c
  <2>3. (n - 1) - place + 1 = n - place
    OBVIOUS
  <2> QED BY <2>2, <2>3
<1>4. b \in Seq(S) /\ Len(b) = 1 /\ b[1] = new
  <2>1. new \in S
    OBVIOUS
  <2> HIDE DEF S
  <2> QED BY <2>1
<1> HIDE DEF a, b, c, S
<1>5. /\ a \o b \in Seq(S) /\ Len(a \o b) = place
      /\ \A k \in 1 .. place - 1 : (a \o b)[k] = a[k]
      /\ (a \o b)[place] = new
  <2>1. /\ a \o b \in Seq(S) /\ Len(a \o b) = Len(a) + Len(b)
        /\ \A k \in 1 .. Len(a) + Len(b) :
             (a \o b)[k] = IF k <= Len(a) THEN a[k] ELSE b[k - Len(a)]
    BY <1>2, <1>4, ConcatProperties
  <2>2. /\ Len(a) + Len(b) = place /\ ~(place <= Len(a)) /\ place - Len(a) = 1
        /\ place \in 1 .. place
    BY <1>2, <1>4
  <2>3. \A k \in 1 .. place - 1 : k \in 1 .. place /\ k <= Len(a)
    BY <1>2
  <2> QED BY <1>4, <2>1, <2>2, <2>3
<1>6. PICK d : d = a \o b
  OBVIOUS
<1>7. /\ d \o c \in Seq(S) /\ Len(d \o c) = n
      /\ \A k \in 1 .. place : (d \o c)[k] = d[k]
      /\ \A k \in place + 1 .. n : (d \o c)[k] = c[k - place]
  <2>1. d \in Seq(S) /\ Len(d) = place
    BY <1>5, <1>6
  <2>2. /\ d \o c \in Seq(S) /\ Len(d \o c) = Len(d) + Len(c)
        /\ \A k \in 1 .. Len(d) + Len(c) :
             (d \o c)[k] = IF k <= Len(d) THEN d[k] ELSE c[k - Len(d)]
    BY <1>3, <2>1, ConcatProperties
  <2>3. Len(d) + Len(c) = n
    BY <1>3, <2>1
  <2>4. \A k \in 1 .. place : k \in 1 .. n /\ k <= Len(d)
    BY <2>1
  <2>5. \A k \in place + 1 .. n : k \in 1 .. n /\ ~(k <= Len(d)) /\ k - Len(d) = k - place
    BY <2>1
  <2> QED BY <2>2, <2>3, <2>4, <2>5
<1>8. DOMAIN (d \o c) = 1 .. n
  BY <1>7
<1>9. (d \o c)[place] = new
  BY <1>5, <1>6, <1>7
<1>10. ASSUME NEW k \in 1 .. n, k < place PROVE (d \o c)[k] = list[k]
  <2>1. k \in 1 .. place - 1 /\ k \in 1 .. place
    BY <1>10
  <2> QED BY <1>2, <1>5, <1>6, <1>7, <2>1
<1>11. ASSUME NEW k \in 1 .. n, k > place PROVE (d \o c)[k] = list[k - 1]
  <2>1. k \in place + 1 .. n /\ k - place \in 1 .. n - place /\ place + (k - place) - 1 = k - 1
    BY <1>11
  <2> QED BY <1>3, <1>7, <2>1
<1> QED BY <1>6, <1>8, <1>9, <1>10, <1>11 DEF a, b, c, WithEntry

(* What the list holds before a period is considered.                       *)
LEMMA CandidateStarts ==
  ASSUME PitchIInv, Candidate
  PROVE  /\ MeasuredSoFar /\ Entries /\ Ordered /\ NoneMissing
         /\ i \in 1 .. Candidates /\ i' = i + 1 /\ i' \in 2 .. Candidates + 1
         /\ Filled \in 0 .. ListLen
         /\ Filled' = IF Filled = ListLen THEN ListLen ELSE Filled + 1
         /\ MeasuredSoFar' /\ (\A p : Entry(p)' = Entry(p))
         /\ \A p, q : AtLeast(p, q)' <=> AtLeast(p, q)
<1>1. i \in 1 .. Candidates /\ i' = i + 1 /\ corr16' = corr16 /\ ener16' = ener16
  BY DEF Candidate
<1>2. i # 0 /\ i \in Int
  BY <1>1, Scales
<1>3. MeasuredSoFar /\ Entries /\ Ordered /\ NoneMissing
  BY <1>2 DEF PitchIInv
<1>4. i' \in 2 .. Candidates + 1
  BY <1>1, Scales
<1>5. Filled \in 0 .. ListLen /\ Filled' = IF Filled = ListLen THEN ListLen ELSE Filled + 1
  BY <1>1, Scales DEF Filled
<1>6. MeasuredSoFar'
  BY <1>1, <1>3 DEF MeasuredSoFar
<1>7. \A p : Entry(p)' = Entry(p)
  BY <1>1 DEF Entry
<1>8. \A p, q : AtLeast(p, q)' <=> AtLeast(p, q)
  BY <1>1 DEF AtLeast
<1> QED BY <1>1, <1>3, <1>4, <1>5, <1>6, <1>7, <1>8

(* A period no better than the last entry changes nothing.                  *)
LEMMA WorseKeeps ==
  ASSUME PitchIInv, Candidate, ~Better
  PROVE  (Entries /\ Ordered /\ NoneMissing)'
<1>1. /\ MeasuredSoFar /\ Entries /\ Ordered /\ NoneMissing
      /\ i \in 1 .. Candidates /\ i' = i + 1
      /\ Filled \in 0 .. ListLen /\ Filled' = IF Filled = ListLen THEN ListLen ELSE Filled + 1
      /\ (\A p : Entry(p)' = Entry(p)) /\ \A p, q : AtLeast(p, q)' <=> AtLeast(p, q)
  BY CandidateStarts
<1>2. best' = best
  BY DEF Candidate, Better
<1>3. ListLen \in 1 .. ListLen
  BY Scales
<1>4. Filled = ListLen /\ AtLeast(best[ListLen].pitch, i)
  <2>1. /\ ListLen > Filled => Better
        /\ ListLen <= Filled /\ ~Better => AtLeast(best[ListLen].pitch, i)
    BY <1>1, <1>3, EntryBeaten DEF Better
  <2> QED BY <1>1, <2>1, Scales
<1>5. PICK cur \in 1 .. Candidates : cur = i
  BY <1>1
<1>6. PICK list : list = best
  OBVIOUS
<1>7. Filled' = ListLen /\ i' - 1 = cur /\ best' = list
  BY <1>1, <1>2, <1>4, <1>5, <1>6, Scales
<1>8. Entries'
  <2>1. DOMAIN list = 1 .. ListLen
    BY <1>1, <1>6 DEF Entries
  <2>2. ASSUME NEW k \in 1 .. ListLen
        PROVE  /\ k <= ListLen /\ ~(k > ListLen) /\ list[k].pitch \in 1 .. cur
               /\ list[k] = Entry(list[k].pitch)
    <3>1. k <= ListLen /\ ~(k > ListLen)
      BY Scales
    <3>2. list[k].pitch \in 1 .. cur - 1 /\ list[k] = Entry(list[k].pitch)
      BY <1>1, <1>4, <1>5, <1>6, <3>1 DEF Entries
    <3> QED BY <3>1, <3>2
  <2>3. \A k \in 1 .. ListLen : list[k] = Entry(list[k].pitch)'
    BY <1>1, <2>2
  <2> QED BY <1>7, <2>1, <2>2, <2>3 DEF Entries
<1>9. Ordered'
  <2>1. \A j, k \in 1 .. ListLen :
          j < k /\ k <= ListLen =>
            list[j].pitch # list[k].pitch /\ AtLeast(list[j].pitch, list[k].pitch)
    BY <1>1, <1>4, <1>6 DEF Ordered
  <2>2. \A j, k \in 1 .. ListLen :
          j < k /\ k <= ListLen =>
            list[j].pitch # list[k].pitch /\ AtLeast(list[j].pitch, list[k].pitch)'
    BY <1>1, <2>1
  <2> QED BY <1>7, <2>2 DEF Ordered
<1>10. NoneMissing'
  <2>1. ASSUME NEW p \in 1 .. cur
        PROVE  \/ \E k \in 1 .. ListLen : k <= ListLen /\ list[k].pitch = p
               \/ AtLeast(list[ListLen].pitch, p)'
    <3>1. CASE p = cur
      BY <1>1, <1>4, <1>5, <1>6, <3>1
    <3>2. CASE p # cur
      <4>1. p \in 1 .. i - 1
        BY <1>5, <3>2
      <4> QED BY <1>1, <1>4, <1>6, <4>1 DEF NoneMissing
    <3> QED BY <3>1, <3>2
  <2> QED BY <1>7, <2>1 DEF NoneMissing
<1> QED BY <1>8, <1>9, <1>10

(* A better period enters the list at its place.                            *)
LEMMA BetterKeeps ==
  ASSUME PitchIInv, Candidate, Better
  PROVE  (Entries /\ Ordered /\ NoneMissing)'
<1>1. /\ MeasuredSoFar /\ Entries /\ Ordered /\ NoneMissing
      /\ i \in 1 .. Candidates /\ i' = i + 1
      /\ Filled \in 0 .. ListLen /\ Filled' = IF Filled = ListLen THEN ListLen ELSE Filled + 1
      /\ (\A p : Entry(p)' = Entry(p)) /\ \A p, q : AtLeast(p, q)' <=> AtLeast(p, q)
  BY CandidateStarts
<1>2. PICK cur \in 1 .. Candidates : cur = i
  BY <1>1
<1>3. PICK list : list = best
  OBVIOUS
<1>4. PICK n \in 0 .. ListLen : n = Filled
  BY <1>1
<1>5. PICK m \in 0 .. ListLen : m = Filled' /\ m = IF n = ListLen THEN ListLen ELSE n + 1
  <2>1. (IF n = ListLen THEN ListLen ELSE n + 1) \in 0 .. ListLen
    BY Scales
  <2> QED BY <1>1, <1>4, <2>1
<1>6. PICK place \in 1 .. ListLen : place = Slot
  BY <1>1, SlotFound
<1>7. /\ place <= n + 1
      /\ \A k \in 1 .. ListLen : k < place => AtLeast(list[k].pitch, cur)
      /\ \A k \in 1 .. ListLen : place <= k /\ k <= n => AtLeast(cur, list[k].pitch)
  BY <1>1, <1>2, <1>3, <1>4, <1>6, SlotFound
<1>8. /\ DOMAIN list = 1 .. ListLen
      /\ \A k \in 1 .. ListLen :
           /\ k <= n => list[k].pitch \in 1 .. cur - 1 /\ list[k] = Entry(list[k].pitch)
           /\ k > n => list[k] = Empty
  BY <1>1, <1>2, <1>3, <1>4 DEF Entries
<1>9. \A j, k \in 1 .. ListLen :
        j < k /\ k <= n =>
          list[j].pitch # list[k].pitch /\ AtLeast(list[j].pitch, list[k].pitch)
  BY <1>1, <1>3, <1>4 DEF Ordered
<1>10. \A p \in 1 .. cur - 1 :
         \/ \E k \in 1 .. ListLen : k <= n /\ list[k].pitch = p
         \/ n = ListLen /\ AtLeast(list[ListLen].pitch, p)
  BY <1>1, <1>2, <1>3, <1>4 DEF NoneMissing
<1>11. PICK longer :
         /\ longer = best' /\ DOMAIN longer = 1 .. ListLen /\ longer[place] = Entry(cur)
         /\ \A k \in 1 .. ListLen : k < place => longer[k] = list[k]
         /\ \A k \in 1 .. ListLen : k > place => longer[k] = list[k - 1]
  <2> DEFINE new == [score |-> Word16(corr16[i] * corr16[i]), ener |-> ener16[i] + 1, pitch |-> i]
  <2>1. best' = SubSeq(best, 1, Slot - 1) \o <<new>> \o SubSeq(best, Slot, ListLen - 1)
    BY DEF Candidate, Better, Slot, Beaten
  <2>2. new = Entry(cur)
    BY <1>1, <1>2, MeasuredValues DEF Entry
  <2> HIDE DEF new
  <2>3. best' = WithEntry(list, ListLen, place, Entry(cur))
    BY <1>3, <1>6, <2>1, <2>2 DEF WithEntry
  <2>4. ListLen \in Nat \ {0} /\ DOMAIN list = 1 .. ListLen
    BY <1>8, Scales
  <2>5. PICK added : added = Entry(cur)
    OBVIOUS
  <2>6. /\ DOMAIN WithEntry(list, ListLen, place, added) = 1 .. ListLen
        /\ WithEntry(list, ListLen, place, added)[place] = added
        /\ \A k \in 1 .. ListLen :
             k < place => WithEntry(list, ListLen, place, added)[k] = list[k]
        /\ \A k \in 1 .. ListLen :
             k > place => WithEntry(list, ListLen, place, added)[k] = list[k - 1]
    BY ONLY <2>4, place \in 1 .. ListLen, EntryInserted
  <2>7. best' = WithEntry(list, ListLen, place, added)
    BY <2>3, <2>5
  <2> QED BY <2>5, <2>6, <2>7
<1>12. Entry(cur).pitch = cur
  BY DEF Entry
<1>13. place <= m /\ m <= ListLen /\ m <= n + 1 /\ n <= m /\ (m < ListLen => m = n + 1)
       /\ ListLen \in Nat \ {0}
  BY <1>5, <1>7, Scales
<1>14. ASSUME NEW k \in 1 .. ListLen
       PROVE  /\ k < place => k <= n
              /\ k > place => k - 1 \in 1 .. ListLen /\ place <= k - 1 /\ (k <= m => k - 1 <= n)
  BY <1>7, <1>13
<1>15. i' - 1 = cur
  BY <1>1, <1>2
<1>16. Entries'
  <2>1. ASSUME NEW k \in 1 .. ListLen, k <= m
        PROVE  longer[k].pitch \in 1 .. cur /\ longer[k] = Entry(longer[k].pitch)
    <3>1. CASE k < place
      <4>1. list[k].pitch \in 1 .. cur - 1 /\ list[k] = Entry(list[k].pitch)
        BY <1>8, <1>14, <3>1
      <4> QED BY <1>11, <3>1, <4>1
    <3>2. CASE k = place
      BY <1>11, <1>12, <3>2
    <3>3. CASE k > place
      <4>1. list[k - 1].pitch \in 1 .. cur - 1 /\ list[k - 1] = Entry(list[k - 1].pitch)
        BY <1>8, <1>14, <2>1, <3>3
      <4> QED BY <1>11, <3>3, <4>1
    <3> QED BY <3>1, <3>2, <3>3
  <2>2. ASSUME NEW k \in 1 .. ListLen, k > m PROVE longer[k] = Empty
    <3>1. k > place /\ k - 1 \in 1 .. ListLen /\ k - 1 > n
      BY <1>13, <2>2
    <3> QED BY <1>8, <1>11, <3>1
  <2>3. \A k \in 1 .. ListLen : k <= m => longer[k] = Entry(longer[k].pitch)'
    BY <1>1, <2>1
  <2> QED BY <1>5, <1>11, <1>15, <2>1, <2>2, <2>3 DEF Entries
<1>17. ASSUME NEW j \in 1 .. ListLen, NEW k \in 1 .. ListLen, j < k, k <= m
       PROVE  longer[j].pitch # longer[k].pitch /\ AtLeast(longer[j].pitch, longer[k].pitch)
  <2>1. CASE k < place
    <3>1. j < place /\ k <= n
      BY <1>14, <1>17, <2>1
    <3> QED BY <1>9, <1>11, <1>17, <2>1, <3>1
  <2>2. CASE k = place
    <3>1. j < place /\ j <= n
      BY <1>14, <1>17, <2>2
    <3>2. list[j].pitch \in 1 .. cur - 1
      BY <1>8, <3>1
    <3>3. list[j].pitch # cur /\ AtLeast(list[j].pitch, cur)
      BY <1>7, <3>1, <3>2
    <3> QED BY <1>11, <1>12, <2>2, <3>1, <3>3
  <2>3. CASE k > place
    <3>1. k - 1 \in 1 .. ListLen /\ place <= k - 1 /\ k - 1 <= n /\ longer[k] = list[k - 1]
      BY <1>11, <1>14, <1>17, <2>3
    <3>2. CASE j < place
      <4>1. j < k - 1
        BY <3>1, <3>2
      <4> QED BY <1>9, <1>11, <3>1, <3>2, <4>1
    <3>3. CASE j = place
      <4>1. list[k - 1].pitch \in 1 .. cur - 1
        BY <1>8, <3>1
      <4>2. list[k - 1].pitch # cur /\ AtLeast(cur, list[k - 1].pitch)
        BY <1>7, <3>1, <4>1
      <4> QED BY <1>11, <1>12, <3>1, <3>3, <4>2
    <3>4. CASE j > place
      <4>1. j - 1 \in 1 .. ListLen /\ j - 1 < k - 1 /\ longer[j] = list[j - 1]
        BY <1>11, <1>14, <1>17, <3>4
      <4> QED BY <1>9, <3>1, <4>1
    <3> QED BY <3>2, <3>3, <3>4
  <2> QED BY <2>1, <2>2, <2>3
<1>18. Ordered'
  <2>1. \A j, k \in 1 .. ListLen :
          j < k /\ k <= m =>
            longer[j].pitch # longer[k].pitch /\ AtLeast(longer[j].pitch, longer[k].pitch)'
    BY <1>1, <1>17
  <2> QED BY <1>5, <1>11, <2>1 DEF Ordered
<1>19. ASSUME n = ListLen
       PROVE  /\ list[ListLen].pitch \in 1 .. Candidates
              /\ longer[ListLen].pitch \in 1 .. Candidates
              /\ AtLeast(longer[ListLen].pitch, list[ListLen].pitch)
  <2>1. ListLen \in 1 .. ListLen /\ ListLen <= n /\ place <= ListLen
    BY <1>13, <1>19
  <2>2. list[ListLen].pitch \in 1 .. cur - 1
    BY <1>8, <2>1
  <2>3. 1 .. cur - 1 \subseteq 1 .. Candidates
    BY Scales
  <2>4. CASE place = ListLen
    BY <1>7, <1>11, <1>12, <2>1, <2>2, <2>3, <2>4
  <2>5. CASE place # ListLen
    <3>1. ListLen > place /\ ListLen - 1 \in 1 .. ListLen /\ ListLen - 1 < ListLen
          /\ ListLen - 1 <= n
      BY <1>13, <1>19, <2>5
    <3>2. longer[ListLen] = list[ListLen - 1]
      BY <1>11, <2>1, <3>1
    <3>3. list[ListLen - 1].pitch \in 1 .. cur - 1
      BY <1>8, <3>1
    <3> QED BY <1>9, <2>1, <2>2, <2>3, <3>1, <3>2, <3>3
  <2> QED BY <2>4, <2>5
<1>20. ASSUME NEW p \in 1 .. cur
       PROVE  \/ \E k \in 1 .. ListLen : k <= m /\ longer[k].pitch = p
              \/ m = ListLen /\ AtLeast(longer[ListLen].pitch, p)
  <2>1. CASE p = cur
    BY <1>11, <1>12, <1>13, <2>1
  <2>2. CASE p # cur
    <3>1. p \in 1 .. cur - 1 /\ p \in 1 .. Candidates
      BY <2>2, Scales
    <3>2. CASE \E k \in 1 .. ListLen : k <= n /\ list[k].pitch = p
      <4>1. PICK k \in 1 .. ListLen : k <= n /\ list[k].pitch = p
        BY <3>2
      <4>2. CASE k < place
        BY <1>11, <1>13, <4>1, <4>2
      <4>3. CASE k >= place /\ k + 1 <= m
        <5>1. k + 1 \in 1 .. ListLen /\ k + 1 > place /\ (k + 1) - 1 = k
          BY <1>13, <4>3
        <5> QED BY <1>11, <4>1, <4>3, <5>1
      <4>4. CASE k + 1 > m
        <5>1. k = ListLen /\ n = ListLen /\ m = ListLen
          BY <1>5, <1>13, <4>1, <4>4
        <5> QED BY <1>19, <4>1, <5>1
      <4> QED BY <1>13, <4>2, <4>3, <4>4
    <3>3. CASE n = ListLen /\ AtLeast(list[ListLen].pitch, p)
      <4>1. m = ListLen
        BY <1>5, <3>3
      <4> QED BY <1>1, <1>19, <3>1, <3>3, <4>1, AtLeastTransitive
    <3> QED BY <1>10, <3>1, <3>2, <3>3
  <2> QED BY <2>1, <2>2
<1>21. NoneMissing'
  <2>1. \A p \in 1 .. cur :
          \/ \E k \in 1 .. ListLen : k <= m /\ longer[k].pitch = p
          \/ m = ListLen /\ AtLeast(longer[ListLen].pitch, p)'
    BY <1>1, <1>20
  <2> QED BY <1>5, <1>11, <1>15, <2>1 DEF NoneMissing
<1> QED BY <1>16, <1>18, <1>21

LEMMA InitPitch == PitchInit => PitchIInv
<1> SUFFICES ASSUME PitchInit PROVE PitchIInv
  OBVIOUS
<1>1. i = 0 /\ best = Unsearched /\ 0 \in 0 .. Candidates + 1
  BY Scales DEF PitchInit
<1> QED BY <1>1 DEF PitchIInv

LEMMA NormalizeKeeps ==
  ASSUME PitchIInv, NEW c \in [1 .. Candidates -> RawCorrs],
         NEW e \in [1 .. Candidates -> RawEnergies], Normalize(c, e)
  PROVE  PitchIInv'
<1>1. i = 0 /\ i' = 1 /\ best' = best /\ best = Unsearched
      /\ corr16' = normalize16(c, CorrScale) /\ ener16' = normalize16(e, Half - 2)
  BY DEF Normalize, ScaledCorr, ScaledEnergy, PitchIInv
<1>2. RawCorrs \subseteq Int /\ RawEnergies \subseteq Nat
  BY PitchSearchAssumption
<1>3. c \in [1 .. Candidates -> Int] /\ e \in [1 .. Candidates -> Int]
      /\ \A k \in 1 .. Candidates : e[k] >= 0
  <2>1. \A k \in 1 .. Candidates : c[k] \in Int /\ e[k] \in Nat
    BY <1>2
  <2>2. \A k \in 1 .. Candidates : e[k] \in Int /\ e[k] >= 0
    BY <2>1
  <2> QED BY <2>1, <2>2
<1>4. MeasuredSoFar'
  <2>1. corr16' \in [1 .. Candidates -> -(CorrScale + 1) .. CorrScale]
    <3>1. Candidates \in Nat /\ CorrScale \in Nat /\ CorrScale + 1 < Half
      BY Scales
    <3> QED BY <1>1, <1>3, <3>1, ShiftScales
  <2>2. ener16' \in [1 .. Candidates -> 0 .. Half - 2]
    <3>1. Candidates \in Nat /\ Half - 2 \in Nat /\ (Half - 2) + 1 < Half
      BY Scales
    <3> QED BY <1>1, <1>3, <3>1, ShiftScales
  <2> QED BY <2>1, <2>2 DEF MeasuredSoFar
<1>5. Filled' = 0
  BY <1>1, Scales DEF Filled
<1>6. DOMAIN best' = 1 .. ListLen /\ \A k \in 1 .. ListLen : best'[k] = Empty
  BY <1>1 DEF Unsearched, Empty
<1>7. \A k \in 1 .. ListLen : ~(k <= 0) /\ k > 0
  OBVIOUS
<1>8. Entries' /\ Ordered'
  BY <1>5, <1>6, <1>7 DEF Entries, Ordered, Empty
<1>9. NoneMissing'
  BY <1>1 DEF NoneMissing
<1>10. i' \in 0 .. Candidates + 1
  BY <1>1, Scales
<1> QED BY <1>1, <1>4, <1>8, <1>9, <1>10 DEF PitchIInv

LEMMA PitchStep == PitchIInv /\ [PitchNext]_svars => PitchIInv'
<1> SUFFICES ASSUME PitchIInv, [PitchNext]_svars PROVE PitchIInv'
  OBVIOUS
<1>1. ASSUME NEW c \in [1 .. Candidates -> RawCorrs],
             NEW e \in [1 .. Candidates -> RawEnergies], Normalize(c, e)
      PROVE  PitchIInv'
  BY <1>1, NormalizeKeeps
<1>2. CASE Candidate
  <2>1. MeasuredSoFar' /\ i' \in 2 .. Candidates + 1
    BY <1>2, CandidateStarts
  <2>2. (Entries /\ Ordered /\ NoneMissing)'
    BY <1>2, WorseKeeps, BetterKeeps
  <2>3. i' \in 0 .. Candidates + 1 /\ i' # 0
    BY <2>1
  <2> QED BY <2>1, <2>2, <2>3 DEF PitchIInv
<1>3. CASE Return
  <2>1. i' = 0 /\ best' = Unsearched /\ 0 \in 0 .. Candidates + 1
    BY <1>3, Scales DEF Return
  <2>2. Unsearched' = Unsearched
    BY DEF Unsearched
  <2> QED BY <2>1, <2>2 DEF PitchIInv
<1>4. CASE UNCHANGED svars
  <2>1. corr16' = corr16 /\ ener16' = ener16 /\ best' = best /\ i' = i
    BY <1>4 DEF svars
  <2> QED BY <2>1 DEF PitchIInv, MeasuredSoFar, Entries, Ordered, NoneMissing, Filled, Entry,
       AtLeast, Unsearched
<1> QED BY <1>1, <1>2, <1>3, <1>4 DEF PitchNext

(* The entries of the finished list are of different periods.               *)
LEMMA DifferentPeriods ==
  ASSUME NEW n \in Nat, NEW f, \A j, k \in 1 .. n : j < k => f[j] # f[k]
  PROVE  Cardinality({f[k] : k \in 1 .. n}) = n
<1> DEFINE K == {f[k] : k \in 1 .. n}
           g == [k \in 1 .. n |-> f[k]]
<1>1. \A j, k \in 1 .. n : j # k => f[j] # f[k]
  <2>1. \A j, k \in 1 .. n : j # k => j < k \/ k < j
    OBVIOUS
  <2> QED BY <2>1
<1>2. g \in Bijection(1 .. n, K)
  BY <1>1 DEF Bijection, Injection, Surjection, IsInjective
<1>3. ExistsBijection(1 .. n, K)
  BY <1>2 DEF ExistsBijection
<1> QED BY <1>3, FS_CountingElements

LEMMA PitchesAreBestFollows == PitchIInv => PitchesAreBest
<1> SUFFICES ASSUME PitchIInv, i > Candidates PROVE PitchesAreBest
  BY DEF PitchesAreBest
<1> DEFINE kept == {best[k].pitch : k \in 1 .. ListLen}
           f == [k \in 1 .. ListLen |-> best[k].pitch]
<1>1. i = Candidates + 1 /\ i # 0 /\ Filled = ListLen /\ i - 1 = Candidates
  <2>1. i \in 0 .. Candidates + 1
    BY DEF PitchIInv
  <2>2. i = Candidates + 1
    BY <2>1, Scales
  <2> QED BY <2>2, Scales DEF Filled
<1>2. Ordered /\ NoneMissing
  BY <1>1 DEF PitchIInv
<1>3. \A j, k \in 1 .. ListLen :
        j < k => best[j].pitch # best[k].pitch /\ AtLeast(best[j].pitch, best[k].pitch)
  <2>1. \A k \in 1 .. ListLen : k <= Filled
    BY <1>1, Scales
  <2> QED BY <1>2, <2>1 DEF Ordered
<1>4. Cardinality(kept) = ListLen
  <2>1. \A j, k \in 1 .. ListLen : j < k => f[j] # f[k]
    BY <1>3
  <2>2. kept = {f[k] : k \in 1 .. ListLen}
    OBVIOUS
  <2> HIDE DEF f, kept
  <2> QED BY <2>1, <2>2, Scales, DifferentPeriods
<1>5. ASSUME NEW k \in 1 .. ListLen - 1
      PROVE  AtLeast(best[k].pitch, best[k + 1].pitch)
  <2>1. k \in 1 .. ListLen /\ k + 1 \in 1 .. ListLen /\ k < k + 1
    BY Scales
  <2> QED BY <1>3, <2>1
<1>6. ASSUME NEW p \in (1 .. Candidates) \ kept PROVE AtLeast(best[ListLen].pitch, p)
  <2>1. \A k \in 1 .. ListLen : best[k].pitch # p
    OBVIOUS
  <2>2. p \in 1 .. i - 1
    BY <1>1
  <2> QED BY <1>2, <2>1, <2>2 DEF NoneMissing
<1> QED BY <1>4, <1>5, <1>6 DEF PitchesAreBest

(* PitchSearch!PitchesAreBest: for every scale whose next number's square   *)
(* is a short, all correlations, all energies of at least zero and all      *)
(* lengths of the list, the search returns different periods, those of the  *)
(* largest quotients, the best first (open_loop_nbest_pitch in ltp.c).      *)
THEOREM PitchesAlwaysBest == PitchSpec => []PitchesAreBest
<1>1. PitchInit => PitchIInv
  BY InitPitch
<1>2. PitchIInv /\ [PitchNext]_svars => PitchIInv'
  BY PitchStep
<1>3. PitchIInv => PitchesAreBest
  BY PitchesAreBestFollows
<1> QED BY <1>1, <1>2, <1>3, PTL DEF PitchSpec
=============================================================================
