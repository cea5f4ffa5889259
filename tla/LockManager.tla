----------------------------- MODULE LockManager -----------------------------
(***************************************************************************)
(* call/LockManager with its AccelerometerListener, as operators on one    *)
(* record: the wake locks held, the keyguard, the two sensors, and the     *)
(* change of orientation that the accelerometer's handler still has to     *)
(* report.  updatePhoneState is called by any thread, the handler runs on  *)
(* the main thread.                                                        *)
(***************************************************************************)
EXTENDS Integers

CONSTANTS WifiLockEnforced,  \* isWifiPowerActiveModeEnabled
          Orientations       \* those the sensor may measure

ASSUME LockAssumption ==
  /\ WifiLockEnforced \in BOOLEAN
  /\ Orientations \subseteq {"vertical", "horizontal"}

NewLockManager ==
  [held |-> {}, keyguardDisabled |-> FALSE, sensor |-> FALSE, proximity |-> FALSE,
   orientation |-> "unknown",  \* LockManager.orientation
   reported |-> "unknown",     \* AccelerometerListener.mOrientation
   pending |-> "unknown",      \* mPendingOrientation
   queued |-> FALSE,           \* an ORIENTATION_CHANGED message waits
   handling |-> FALSE]         \* the handler has taken it

\* setLockState: what each state acquires; the rest is released.
FULL == {"full", "partial", "wifi"}
PARTIAL == {"partial", "wifi"}
PROXIMITY == {"partial", "proximity", "wifi"}
SLEEP == {}

InCallLocks(orientation) ==
  IF orientation # "horizontal" /\ WifiLockEnforced THEN PROXIMITY ELSE FULL

\* accelerometerListener.enable(false) also takes back a waiting message.
SensorOff(l) == [l EXCEPT !.sensor = FALSE, !.queued = FALSE]
SensorOn(l) ==
  [l EXCEPT !.sensor = TRUE, !.reported = "unknown", !.pending = "unknown"]

\* The cases of updatePhoneState.  IDLE leaves the proximity listener alone.
\* locked: the keyguard is showing; display: the preference that turns the
\* display off.
Idle(l) == [SensorOff(l) EXCEPT !.held = SLEEP, !.keyguardDisabled = FALSE]
Processing(l) ==
  [SensorOff(l) EXCEPT !.held = PARTIAL, !.proximity = FALSE, !.keyguardDisabled = FALSE]
Interactive(l, locked) ==
  [SensorOff(l) EXCEPT !.held = FULL, !.proximity = FALSE,
                       !.keyguardDisabled = @ \/ locked]
InCall(l, locked, display) ==
  [SensorOn(l) EXCEPT !.held = InCallLocks(l.orientation), !.proximity = @ \/ display,
                      !.keyguardDisabled = @ \/ locked]

\* A sensor event: the change is reported after a delay, unless it is undone.
setOrientation(l, o) ==
  IF l.pending = o THEN l
  ELSE IF l.reported # o THEN [l EXCEPT !.pending = o, !.queued = TRUE]
  ELSE [l EXCEPT !.pending = "unknown", !.queued = FALSE]

\* The main thread takes the message; from then on nobody can take it back.
DispatchOrientation(l) == [l EXCEPT !.queued = FALSE, !.handling = TRUE]

\* The handler reports what is pending by then, and the locks follow.
OrientationChanged(l) ==
  [l EXCEPT !.handling = FALSE, !.reported = l.pending, !.orientation = l.pending,
            !.held = InCallLocks(l.pending)]
=============================================================================
