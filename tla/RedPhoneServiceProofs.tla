------------------------ MODULE RedPhoneServiceProofs ------------------------
(***************************************************************************)
(* A phone at rest holds nothing, and a running call is replaced only in   *)
(* the window of a failing one: for any number of calls, sessions and      *)
(* intents.                                                                *)
(***************************************************************************)
EXTENDS RedPhoneService, TLAPS

Locks == {"full", "partial", "wifi", "proximity"}
Measured == {"unknown", "vertical", "horizontal"}
LockRecords ==
  [held : SUBSET Locks, keyguardDisabled : BOOLEAN, sensor : BOOLEAN, proximity : BOOLEAN,
   orientation : Measured, reported : Measured, pending : Measured,
   queued : BOOLEAN, handling : BOOLEAN]

Pcs == {"none", "calling", "fresh", "ringing", "connecting", "waiting", "connected",
        "locked", "talking", "failing", "broken", "failingAgain", "done"}

(* The parts of the inductive invariant.  terminate() takes the call away  *)
(* before it comes to rest; what it has silenced stays so unless somebody  *)
(* is late; and a call with an IDLE phone has a failing thread.            *)
ServiceTypes ==
  /\ manager \in [CallNumbers -> Pcs]
  /\ stage \in {"free", "stopped", "cleared"}
  /\ started \in Nat /\ late \in BOOLEAN /\ ringing \in BOOLEAN
  /\ locks \in LockRecords

Cleared == stage = "cleared" => current = 0

Silenced ==
  stage # "free" /\ ~late =>
    ~ringing /\ ~locks.keyguardDisabled /\ ~locks.sensor /\ ~locks.proximity

Window ==
  stage = "free" /\ current # 0 /\ state = "IDLE" =>
    \E c \in CallNumbers : manager[c] \in Failing

IInv == ServiceTypes /\ Cleared /\ Silenced /\ Window /\ RestIsClean

-----------------------------------------------------------------------------
(* The operators on the locks                                               *)

LEMMA IdleLocks ==
  ASSUME NEW l \in LockRecords
  PROVE  /\ Idle(l) \in LockRecords
         /\ Idle(l).held = {} /\ ~Idle(l).keyguardDisabled /\ ~Idle(l).sensor
         /\ Idle(l).proximity = l.proximity
BY DEF Idle, SensorOff, SLEEP, LockRecords, Locks, Measured

LEMMA ProcessingLocks ==
  ASSUME NEW l \in LockRecords
  PROVE  /\ Processing(l) \in LockRecords
         /\ ~Processing(l).keyguardDisabled /\ ~Processing(l).sensor
         /\ ~Processing(l).proximity
BY DEF Processing, SensorOff, PARTIAL, LockRecords, Locks, Measured

LEMMA InteractiveLocks ==
  ASSUME NEW l \in LockRecords, NEW locked \in BOOLEAN
  PROVE  Interactive(l, locked) \in LockRecords
BY DEF Interactive, SensorOff, FULL, LockRecords, Locks, Measured

LEMMA InCallLocksType == \A o : InCallLocks(o) \in SUBSET Locks
BY DEF InCallLocks, FULL, PROXIMITY, Locks

LEMMA InCallKeepsType ==
  ASSUME NEW l \in LockRecords, NEW locked \in BOOLEAN, NEW display \in BOOLEAN
  PROVE  InCall(l, locked, display) \in LockRecords
BY InCallLocksType DEF InCall, SensorOn, LockRecords, Locks, Measured

LEMMA SensorKeepsLocks ==
  ASSUME NEW l \in LockRecords, NEW o \in Orientations
  PROVE  /\ setOrientation(l, o) \in LockRecords
         /\ setOrientation(l, o).sensor = l.sensor
BY LockAssumption DEF setOrientation, LockRecords, Locks, Measured

LEMMA DispatchKeepsLocks ==
  ASSUME NEW l \in LockRecords
  PROVE  /\ DispatchOrientation(l) \in LockRecords
         /\ DispatchOrientation(l).held = l.held
         /\ DispatchOrientation(l).keyguardDisabled = l.keyguardDisabled
         /\ DispatchOrientation(l).sensor = l.sensor
         /\ DispatchOrientation(l).proximity = l.proximity
BY DEF DispatchOrientation, LockRecords, Locks, Measured

LEMMA ReportKeepsLocks ==
  ASSUME NEW l \in LockRecords
  PROVE  /\ OrientationChanged(l) \in LockRecords
         /\ OrientationChanged(l).sensor = l.sensor
BY InCallLocksType DEF OrientationChanged, LockRecords, Locks, Measured

LEMMA NewLocks == /\ NewLockManager \in LockRecords
                  /\ NewLockManager.held = {} /\ ~NewLockManager.keyguardDisabled
                  /\ ~NewLockManager.sensor /\ ~NewLockManager.proximity
BY DEF NewLockManager, LockRecords, Locks, Measured

-----------------------------------------------------------------------------
(* The invariant                                                            *)

LEMMA InitIInv == ServiceInit => IInv
<1> SUFFICES ASSUME ServiceInit PROVE IInv
  OBVIOUS
<1>1. ServiceTypes
  BY NewLocks DEF ServiceInit, ServiceTypes, Pcs
<1> QED BY <1>1, NewLocks DEF ServiceInit, IInv, Cleared, Silenced, Window, RestIsClean

(* A thread that moves on without having been failing leaves the window    *)
(* as it is.                                                               *)
LEMMA MovesOn ==
  ASSUME ServiceTypes, NEW c, NEW from \in Pcs \ Failing, NEW to \in Pcs,
         At(c, from), Goto(c, to)
  PROVE  /\ manager' \in [CallNumbers -> Pcs]
         /\ (\E d \in CallNumbers : manager[d] \in Failing)
              => \E d \in CallNumbers : manager'[d] \in Failing
BY DEF ServiceTypes, At, Goto

(* Stop, in whatever step it is.                                           *)
LEMMA StopKeeps ==
  ASSUME IInv, Stop, UNCHANGED started, manager' \in [CallNumbers -> Pcs]
  PROVE  IInv'
BY ProcessingLocks DEF IInv, Stop, ServiceTypes, Cleared, Silenced, Window, RestIsClean

(* What a new call starts from: not at rest, not IDLE.                     *)
LEMMA NewCallKeeps ==
  ASSUME IInv, NEW pc \in Pcs, NEW s, NewCall(pc, s), stage = "free", state' # "IDLE",
         locks' \in LockRecords, UNCHANGED <<stage, ringing, late>>
  PROVE  IInv'
<1>1. manager' \in [CallNumbers -> Pcs]
  BY DEF IInv, ServiceTypes, NewCall
<1>2. current' # 0
  BY DEF NewCall, IInv, ServiceTypes
<1>3. started' \in Nat
  BY DEF NewCall, IInv, ServiceTypes
<1> QED BY <1>1, <1>2, <1>3 DEF IInv, ServiceTypes, Cleared, Silenced, Window, RestIsClean

LEMMA IntentsKeep ==
  ASSUME IInv, NEW i \in intents,
         \/ HandleIncomingCall(i)
         \/ \E line \in BOOLEAN : HandleBusyCall(i, line)
         \/ \E locked \in BOOLEAN : HandleOutgoingCall(i, locked)
         \/ IgnoreOutgoingCall(i)
         \/ HandleAnswerCall(i)
         \/ HandleDenyCall(i)
         \/ HandleHangupCall(i)
         \/ DialWithoutData(i)
         \/ HandleCallDisconnected(i)
  PROVE  IInv'
<1>1. CASE HandleIncomingCall(i)
  <2>1. locks' \in LockRecords
    BY <1>1, ProcessingLocks DEF HandleIncomingCall, IInv, ServiceTypes
  <2> QED BY <1>1, <2>1, NewCallKeeps DEF HandleIncomingCall, Received, Pcs
<1>2. ASSUME NEW line \in BOOLEAN, HandleBusyCall(i, line)
      PROVE  IInv'
  BY <1>2 DEF HandleBusyCall, callVars, IInv, ServiceTypes, Cleared, Silenced, Window, RestIsClean
<1>3. ASSUME NEW locked \in BOOLEAN, HandleOutgoingCall(i, locked)
      PROVE  IInv'
  <2>1. locks' \in LockRecords
    BY <1>3, InteractiveLocks DEF HandleOutgoingCall, IInv, ServiceTypes
  <2> QED BY <1>3, <2>1, NewCallKeeps DEF HandleOutgoingCall, Received, Pcs
<1>4. CASE IgnoreOutgoingCall(i)
  BY <1>4 DEF IgnoreOutgoingCall, callVars, phoneVars, IInv, ServiceTypes, Cleared, Silenced,
     Window, RestIsClean
<1>5. CASE HandleAnswerCall(i)
  <2>1. stage = "free" /\ stage' = stage
    BY <1>5 DEF HandleAnswerCall, Received
  <2>2. late' \in BOOLEAN /\ (current' = 0 => late')
    BY <1>5 DEF HandleAnswerCall, IInv, ServiceTypes
  <2>3. ServiceTypes'
    BY <1>5, <2>1, <2>2 DEF HandleAnswerCall, IInv, ServiceTypes
  <2> QED BY <1>5, <2>1, <2>2, <2>3 DEF HandleAnswerCall, IInv, Cleared, Silenced, Window, RestIsClean
<1>6. CASE HandleDenyCall(i)
  BY <1>6, StopKeeps DEF HandleDenyCall, IInv, ServiceTypes
<1>7. CASE HandleHangupCall(i)
  BY <1>7, StopKeeps DEF HandleHangupCall, callVars, IInv, ServiceTypes
<1>8. CASE DialWithoutData(i)
  BY <1>8, StopKeeps DEF DialWithoutData, callVars, IInv, ServiceTypes
<1>9. CASE HandleCallDisconnected(i)
  <2>1. CASE Disconnects(i)
    BY <1>9, <2>1, StopKeeps DEF HandleCallDisconnected, callVars, IInv, ServiceTypes
  <2>2. CASE ~Disconnects(i)
    BY <1>9, <2>2 DEF HandleCallDisconnected, callVars, IInv, ServiceTypes, Cleared, Silenced,
       Window, RestIsClean
  <2> QED BY <2>1, <2>2
<1> QED BY <1>1, <1>2, <1>3, <1>4, <1>5, <1>6, <1>7, <1>8, <1>9

LEMMA TerminateKeeps ==
  ASSUME IInv, TerminateCall \/ ComesToRest
  PROVE  IInv'
<1>1. CASE TerminateCall
  BY <1>1 DEF TerminateCall, IInv, ServiceTypes, Cleared, Silenced, Window, RestIsClean
<1>2. CASE ComesToRest
  <2>1. stage # "free" /\ stage' = "free" /\ current' = 0 /\ state' = "IDLE"
    BY <1>2 DEF ComesToRest, callVars, IInv, Cleared
  <2>2. ServiceTypes'
    BY <1>2, IdleLocks DEF ComesToRest, callVars, IInv, ServiceTypes
  <2>3. RestIsClean'
    BY <1>2, <2>1, IdleLocks DEF ComesToRest, callVars, IInv, ServiceTypes, Silenced, RestIsClean
  <2> QED BY <2>1, <2>2, <2>3 DEF IInv, Cleared, Silenced, Window
<1> QED BY <1>1, <1>2

LEMMA DiesKeeps == IInv /\ ProcessDies => IInv'
<1> SUFFICES ASSUME IInv, ProcessDies PROVE IInv'
  OBVIOUS
<1>1. manager' \in [CallNumbers -> Pcs]
  BY DEF ProcessDies, Pcs
<1> QED BY <1>1, NewLocks DEF ProcessDies, IInv, ServiceTypes, Cleared, Silenced, Window, RestIsClean

(* A notification for a call that is not the phone's is late.             *)
LEMMA BelatedIsLate ==
  ASSUME ServiceTypes, NEW c \in CallNumbers, late' = (late \/ Belated(c)),
         UNCHANGED <<stage, current>>
  PROVE  /\ late' \in BOOLEAN
         /\ stage' = "free" /\ ~late' => current' # 0
         /\ stage' # "free" => late'
<1>1. c # 0
  BY DEF CallNumbers
<1>2. late \in BOOLEAN
  BY DEF ServiceTypes
<1>3. Belated(c) <=> c # current \/ stage # "free"
  BY DEF Belated
<1>4. stage' = stage /\ current' = current
  OBVIOUS
<1>5. late' \in BOOLEAN
  BY Zenon
<1>6. late' <=> late \/ Belated(c)
  BY Zenon
<1> QED BY <1>1, <1>2, <1>3, <1>4, <1>5, <1>6

LEMMA NotificationsKeep ==
  ASSUME IInv, NEW c \in CallNumbers,
         \/ \E locked \in BOOLEAN : NotifyCallFresh(c, locked)
         \/ StartsRinging(c)
         \/ GetsAnswer(c)
         \/ \E id \in SessionIds : ProcessSignals(c, [id |-> id, serverIP |-> 0])
         \/ Connects(c)
         \/ \E locked, display \in BOOLEAN : NotifyCallConnected(c, locked, display)
         \/ SetsConnected(c)
         \/ NotifyFailure(c)
  PROVE  IInv'
<1> USE DEF IInv
<1>1. ASSUME NEW locked \in BOOLEAN, NotifyCallFresh(c, locked)
      PROVE  IInv'
  <2>1. /\ manager' \in [CallNumbers -> Pcs]
        /\ (\E d \in CallNumbers : manager[d] \in Failing)
             => \E d \in CallNumbers : manager'[d] \in Failing
    BY <1>1, MovesOn DEF NotifyCallFresh, Pcs, Failing
  <2>2. locks' \in LockRecords
    BY <1>1, InteractiveLocks DEF NotifyCallFresh, ServiceTypes
  <2>3. late' \in BOOLEAN /\ (stage' = "free" /\ ~late' => current' # 0)
        /\ (stage' # "free" => late')
    BY <1>1, BelatedIsLate DEF NotifyCallFresh
  <2> QED BY <1>1, <2>1, <2>2, <2>3
          DEF NotifyCallFresh, ServiceTypes, Cleared, Silenced, Window, RestIsClean
<1>2. CASE StartsRinging(c)
  <2>1. /\ manager' \in [CallNumbers -> Pcs]
        /\ (\E d \in CallNumbers : manager[d] \in Failing)
             => \E d \in CallNumbers : manager'[d] \in Failing
    BY <1>2, MovesOn DEF StartsRinging, Pcs, Failing
  <2>2. late' \in BOOLEAN /\ (stage' = "free" /\ ~late' => current' # 0)
        /\ (stage' # "free" => late')
    BY <1>2, BelatedIsLate DEF StartsRinging
  <2> QED BY <1>2, <2>1, <2>2
          DEF StartsRinging, ServiceTypes, Cleared, Silenced, Window, RestIsClean
<1>3. CASE GetsAnswer(c)
  <2>1. /\ manager' \in [CallNumbers -> Pcs]
        /\ (\E d \in CallNumbers : manager[d] \in Failing)
             => \E d \in CallNumbers : manager'[d] \in Failing
    <3>1. (IF answer[c] = 1 THEN "connecting" ELSE "done") \in Pcs
      BY DEF Pcs
    <3> QED BY <1>3, <3>1, MovesOn DEF GetsAnswer, Pcs, Failing
  <2> QED BY <1>3, <2>1
          DEF GetsAnswer, phoneVars, ServiceTypes, Cleared, Silenced, Window, RestIsClean
<1>4. ASSUME NEW id \in SessionIds, ProcessSignals(c, [id |-> id, serverIP |-> 0])
      PROVE  IInv'
  <2>1. /\ manager' \in [CallNumbers -> Pcs]
        /\ (\E d \in CallNumbers : manager[d] \in Failing)
             => \E d \in CallNumbers : manager'[d] \in Failing
    BY <1>4, MovesOn DEF ProcessSignals, Pcs, Failing
  <2> QED BY <1>4, <2>1
          DEF ProcessSignals, phoneVars, ServiceTypes, Cleared, Silenced, Window, RestIsClean
<1>5. CASE Connects(c)
  <2>1. /\ manager' \in [CallNumbers -> Pcs]
        /\ (\E d \in CallNumbers : manager[d] \in Failing)
             => \E d \in CallNumbers : manager'[d] \in Failing
    BY <1>5, MovesOn DEF Connects, Pcs, Failing
  <2> QED BY <1>5, <2>1
          DEF Connects, phoneVars, ServiceTypes, Cleared, Silenced, Window, RestIsClean
<1>6. ASSUME NEW locked \in BOOLEAN, NEW display \in BOOLEAN,
             NotifyCallConnected(c, locked, display)
      PROVE  IInv'
  <2>1. /\ manager' \in [CallNumbers -> Pcs]
        /\ (\E d \in CallNumbers : manager[d] \in Failing)
             => \E d \in CallNumbers : manager'[d] \in Failing
    BY <1>6, MovesOn DEF NotifyCallConnected, Pcs, Failing
  <2>2. locks' \in LockRecords
    BY <1>6, InCallKeepsType DEF NotifyCallConnected, ServiceTypes
  <2>3. late' \in BOOLEAN /\ (stage' = "free" /\ ~late' => current' # 0)
        /\ (stage' # "free" => late')
    BY <1>6, BelatedIsLate DEF NotifyCallConnected
  <2> QED BY <1>6, <2>1, <2>2, <2>3
          DEF NotifyCallConnected, ServiceTypes, Cleared, Silenced, Window, RestIsClean
<1>7. CASE SetsConnected(c)
  <2>1. manager' \in [CallNumbers -> Pcs]
    BY <1>7, MovesOn DEF SetsConnected, Pcs, Failing
  <2>2. late' \in BOOLEAN /\ (stage' = "free" /\ ~late' => current' # 0)
        /\ (stage' # "free" => late')
    BY <1>7, BelatedIsLate DEF SetsConnected
  <2> QED BY <1>7, <2>1, <2>2
          DEF SetsConnected, ServiceTypes, Cleared, Silenced, Window, RestIsClean
<1>8. CASE NotifyFailure(c)
  <2>1. manager' \in [CallNumbers -> Pcs] /\ manager'[c] \in Failing
    BY <1>8 DEF NotifyFailure, Goto, ServiceTypes, Pcs, Failing
  <2> QED BY <1>8, <2>1
          DEF NotifyFailure, phoneVars, ServiceTypes, Cleared, Silenced, Window, RestIsClean
<1> QED BY <1>1, <1>2, <1>3, <1>4, <1>5, <1>6, <1>7, <1>8

(* The steps outside the monitor that call terminate().                    *)
LEMMA EndsKeep ==
  ASSUME IInv, NEW c \in CallNumbers,
         \/ \E pc \in {"done", "broken"} : FailureTerminates(c, pc)
         \/ NotifyEnd(c) \/ ListenerRaises(c) \/ BusyTimeout
  PROVE  IInv'
<1>1. ASSUME NEW pc \in {"done", "broken"}, FailureTerminates(c, pc)
      PROVE  IInv'
  BY <1>1, StopKeeps DEF FailureTerminates, CallsTerminate, Goto, IInv, ServiceTypes, Pcs
<1>2. CASE NotifyEnd(c)
  BY <1>2, StopKeeps DEF NotifyEnd, CallsTerminate, Goto, IInv, ServiceTypes, Pcs
<1>3. CASE ListenerRaises(c)
  BY <1>3, StopKeeps DEF ListenerRaises, CallsTerminate, IInv, ServiceTypes
<1>4. CASE BusyTimeout
  BY <1>4, StopKeeps DEF BusyTimeout, CallsTerminate, IInv, ServiceTypes
<1> QED BY <1>1, <1>2, <1>3, <1>4

(* The sensor works only while a call has it; a report after that is late. *)
LEMMA SensorKeeps ==
  ASSUME IInv, (\E o \in Orientations : SensorChanged(o)) \/ HandlerTakes \/ HandlerReports
  PROVE  IInv'
<1> USE DEF IInv
<1>1. ASSUME NEW o \in Orientations, SensorChanged(o)
      PROVE  IInv'
  <2>1. locks' \in LockRecords /\ locks.sensor /\ locks'.sensor
    BY <1>1, SensorKeepsLocks DEF SensorChanged, LockStep, ServiceTypes
  <2> QED BY <1>1, <2>1 DEF SensorChanged, LockStep, callVars, ServiceTypes, Cleared, Silenced,
          Window, RestIsClean
<1>2. CASE HandlerTakes
  BY <1>2, DispatchKeepsLocks DEF HandlerTakes, LockStep, callVars, ServiceTypes, Cleared, Silenced,
     Window, RestIsClean
<1>3. CASE HandlerReports
  <2>1. locks' \in LockRecords /\ late' \in BOOLEAN
    BY <1>3, ReportKeepsLocks DEF HandlerReports, LockStep, ServiceTypes
  <2>2. ~late' => locks.sensor /\ ~late
    BY <1>3 DEF HandlerReports, ServiceTypes
  <2> QED BY <1>3, <2>1, <2>2 DEF HandlerReports, LockStep, callVars, ServiceTypes, Cleared, Silenced,
          Window, RestIsClean
<1> QED BY <1>1, <1>2, <1>3

LEMMA OthersKeep ==
  ASSUME IInv, \/ \E i \in Intents : SendIntent(i)
               \/ \E c \in CallNumbers : NotifyBusy(c)
               \/ UNCHANGED svars
  PROVE  IInv'
<1> USE DEF callVars, phoneVars, IInv, ServiceTypes, Cleared, Silenced, Window, RestIsClean
<1>1. ASSUME NEW i \in Intents, SendIntent(i) PROVE IInv'
  BY <1>1 DEF SendIntent
<1>2. ASSUME NEW c \in CallNumbers, NotifyBusy(c) PROVE IInv'
  BY <1>2 DEF NotifyBusy
<1>3. CASE UNCHANGED svars
  BY <1>3 DEF svars
<1> QED BY <1>1, <1>2, <1>3

LEMMA NextIInv == IInv /\ [ServiceNext]_svars => IInv'
<1> SUFFICES ASSUME IInv, ServiceNext PROVE IInv'
  BY OthersKeep
<1>1. ASSUME NEW i \in intents, AnswersOwnCall(i) PROVE IInv'
  BY <1>1, DiesKeeps DEF AnswersOwnCall
<1>2. ASSUME NEW c \in CallNumbers, NotifyBusyWithoutCall(c) PROVE IInv'
  BY <1>2, DiesKeeps DEF NotifyBusyWithoutCall
<1>3. CASE BusyTimeout
  BY <1>3, StopKeeps DEF BusyTimeout, CallsTerminate, IInv, ServiceTypes
<1> QED BY <1>1, <1>2, <1>3, IntentsKeep, TerminateKeeps, NotificationsKeep, EndsKeep, SensorKeeps,
        OthersKeep DEF ServiceNext

LEMMA Invariance == ServiceSpec => []IInv
BY InitIInv, NextIInv, PTL DEF ServiceSpec

-----------------------------------------------------------------------------
(* The theorems                                                             *)

\* Without a call, and with nobody late, the phone is IDLE and silent and holds
\* no lock and no sensor (RedPhoneService.terminate, LockManager).
THEOREM PhoneComesToRest == ServiceSpec => []RestIsClean
BY Invariance, PTL DEF IInv

\* A running call gives way to a new one only while a failing thread is between
\* state = IDLE and terminate() (notifyHandshakeFailed and its like, isBusy).
THEOREM CallsAreNotReplaced == ServiceSpec => ReplacedOnlyInWindow
<1> DEFINE Given == current # 0 /\ current' \notin {0, current} =>
                      \E c \in CallNumbers : manager[c] \in Failing
<1>1. IInv /\ [ServiceNext]_svars => [Given]_svars
  <2> SUFFICES ASSUME IInv, ServiceNext, current # 0, current' \notin {0, current}
               PROVE  \E c \in CallNumbers : manager[c] \in Failing
    BY DEF svars
  <2>1. stage = "free" /\ state = "IDLE"
    <3>1. ASSUME NEW i \in intents, HandleIncomingCall(i) PROVE stage = "free" /\ state = "IDLE"
      BY <3>1 DEF HandleIncomingCall, Received, IsBusy
    <3>2. ASSUME NEW i \in intents, NEW locked \in BOOLEAN, HandleOutgoingCall(i, locked)
          PROVE stage = "free" /\ state = "IDLE"
      BY <3>2 DEF HandleOutgoingCall, Received
    <3> QED
      BY <3>1, <3>2 DEF ServiceNext, SendIntent, HandleBusyCall, IgnoreOutgoingCall,
         HandleAnswerCall, HandleDenyCall, HandleHangupCall, DialWithoutData, AnswersOwnCall,
         ProcessDies, HandleCallDisconnected, TerminateCall, ComesToRest, NotifyCallFresh,
         StartsRinging, GetsAnswer, ProcessSignals, Connects, NotifyCallConnected, SetsConnected,
         NotifyFailure, FailureTerminates, NotifyEnd, ListenerRaises, NotifyBusy,
         NotifyBusyWithoutCall, BusyTimeout, SensorChanged, HandlerTakes, HandlerReports,
         LockStep, CallsTerminate, callVars
  <2> QED BY <2>1 DEF IInv, Window
<1> QED BY <1>1, Invariance, PTL DEF ServiceSpec, ReplacedOnlyInWindow
=============================================================================
