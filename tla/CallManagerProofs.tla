-------------------------- MODULE CallManagerProofs --------------------------
(***************************************************************************)
(* The audio of a call never starts once the call was terminated.          *)
(***************************************************************************)
EXTENDS CallManager, TLAPS

(* The parts of the inductive invariant.  Whoever is in terminate(),       *)
(* or has been, has set `terminated`; the manager thread has a             *)
(* CallAudioManager from "start" on; and past the second test it has also  *)
(* been told, if terminate() came by, because it was there to be found.    *)
Late == {"finish", "guard3", "connected", "uiWait", "shutdown", "interrupt",
         "guard4", "run", "loop"}

TerminatedFirst ==
  /\ ~current \/ step \notin {"none", "leave"} => terminated
  /\ step = "leave" => ~current

AudioThere == pc \in Late \cup {"start", "guard2"} => audio

AudioKnowsEnd == AudioTold /\ pc \in Late => callDone

IInv == TerminatedFirst /\ AudioThere /\ AudioKnowsEnd

LEMMA InitIInv == Init => IInv
BY DEF Init, IInv, TerminatedFirst, AudioThere, AudioKnowsEnd, AudioTold, Late, Steps

(* The steps of the manager thread: the second test of `terminated` keeps  *)
(* it from getting Late once terminate() has been past the audio.          *)
LEMMA ManagerKeeps ==
  ASSUME IInv, ManagerStep \/ MakeConnection
               \/ NotifyCallConnectionUIUpdateComplete
  PROVE  IInv'
<1> USE DEF IInv, TerminatedFirst, AudioThere, AudioKnowsEnd, AudioTold, Late,
            Move, GoTo, Fails, callVars, audioVars, serviceVars
<1>1. CASE Initiate
  BY <1>1 DEF Initiate
<1>2. CASE Ring
  BY <1>2 DEF Ring
<1>3. CASE NotifyCallFresh
  BY <1>3 DEF NotifyCallFresh
<1>4. CASE ProcessSignals
  BY <1>4 DEF ProcessSignals
<1>5. CASE WaitForAnswer
  BY <1>5 DEF WaitForAnswer
<1>6. CASE CheckEndButton
  BY <1>6 DEF CheckEndButton
<1>7. ASSUME NEW g \in DOMAIN AfterGuard, Guard(g)
      PROVE  IInv'
  <2>1. \/ g = "guard1" /\ AfterGuard[g] = "audio"
        \/ g = "guard2" /\ AfterGuard[g] = "finish"
        \/ g = "guard3" /\ AfterGuard[g] = "connected"
        \/ g = "guard4" /\ AfterGuard[g] = "run"
    BY DEF AfterGuard
  <2>2. AudioTold => terminated
    BY DEF Steps
  <2>3. CASE terminated
    BY <1>7, <2>3 DEF Guard
  <2>4. CASE ~terminated
    BY <1>7, <2>1, <2>2, <2>4 DEF Guard
  <2> QED BY <2>3, <2>4
<1>8. CASE NewCallAudioManager
  BY <1>8 DEF NewCallAudioManager
<1>9. CASE Negotiate("start", "guard2")
  BY <1>9 DEF Negotiate
<1>10. CASE Negotiate("finish", "guard3")
  BY <1>10 DEF Negotiate
<1>11. CASE NotifyCallConnected
  BY <1>11 DEF NotifyCallConnected
<1>12. CASE ShutdownQueue
  BY <1>12 DEF ShutdownQueue
<1>13. CASE InterruptListener
  BY <1>13 DEF InterruptListener
<1>14. CASE Run
  BY <1>14 DEF Run
<1>15. CASE LeaveLoop("done")
  BY <1>15 DEF LeaveLoop
<1>16. CASE ManagerFails
  BY <1>16 DEF ManagerFails, BeginTerminate, Steps
<1>17. CASE MakeConnection
  BY <1>17 DEF MakeConnection
<1>18. CASE NotifyCallConnectionUIUpdateComplete
  BY <1>18 DEF NotifyCallConnectionUIUpdateComplete
<1> QED
  BY <1>1, <1>2, <1>3, <1>4, <1>5, <1>6, <1>7, <1>8, <1>9, <1>10, <1>11,
     <1>12, <1>13, <1>14, <1>15, <1>16, <1>17, <1>18 DEF ManagerStep

(* The steps of terminate(): a manager thread that is already Late has a   *)
(* CallAudioManager, so that terminate() finds it and sets callDone.       *)
LEMMA TerminateKeeps ==
  ASSUME IInv, TerminateStep
  PROVE  IInv'
<1> USE DEF IInv, TerminatedFirst, AudioThere, AudioKnowsEnd, AudioTold, Late,
            At, callVars, managerVars, audioVars, Steps
<1>1. CASE TerminateAudio
  BY <1>1 DEF TerminateAudio
<1>2. CASE CheckSignalManager
  BY <1>2 DEF CheckSignalManager
<1>3. CASE TerminateSignals
  BY <1>3 DEF TerminateSignals
<1>4. CASE QueueHangup
  BY <1>4 DEF QueueHangup
<1>5. CASE InterruptForHangup
  BY <1>5 DEF InterruptForHangup
<1>6. CASE CloseZrtp
  BY <1>6 DEF CloseZrtp
<1>7. CASE LeaveMonitor
  BY <1>7 DEF LeaveMonitor
<1> QED BY <1>1, <1>2, <1>3, <1>4, <1>5, <1>6, <1>7 DEF TerminateStep

(* The other threads enter terminate() or leave this state alone.          *)
LEMMA OthersKeep ==
  ASSUME IInv, OutsideStep \/ QueueStep
  PROVE  IInv'
<1> USE DEF IInv, TerminatedFirst, AudioThere, AudioKnowsEnd, AudioTold, Late,
            callVars, managerVars, audioVars, serviceVars, Steps
<1>1. ASSUME NEW who, NEW manager, BeginTerminate(who, manager)
      PROVE  IInv'
  BY <1>1 DEF BeginTerminate
<1>2. CASE \/ HandleHangupCall \/ HandleDenyCall \/ HandleExitTimeOut
           \/ BusyTimeout \/ ListenerRaises
  BY <1>1, <1>2 DEF HandleHangupCall, HandleDenyCall, HandleExitTimeOut,
                    BusyTimeout, ListenerRaises
<1>3. CASE HandleAnswerCall
  BY <1>3 DEF HandleAnswerCall
<1>4. CASE HandleCallDisconnected
  <2>1. CASE BeginTerminate("service", FALSE)
    BY <2>1, <1>1
  <2>2. CASE UNCHANGED <<pc, terminated, audio, callDone, current, step>>
    BY <2>2
  <2> QED
    BY <1>4, <2>1, <2>2 DEF HandleCallDisconnected
<1>5. CASE SignalInforms \/ SignalHangup \/ SignalBusy \/ RelayedHangup
  BY <1>5 DEF SignalInforms, SignalHangup, SignalBusy, RelayedHangup
<1>6. CASE LeaveLoop("fail")
  BY <1>6 DEF LeaveLoop, GoTo
<1>7. CASE Fails("network")
  BY <1>7 DEF Fails, Move, GoTo
<1>8. CASE ListenerFails /\ UNCHANGED <<managerVars, audioVars, serviceVars>>
  BY <1>8
<1>9. CASE WorkerStep /\ UNCHANGED <<managerVars, audioVars, serviceVars>>
  BY <1>9
<1> QED
  BY <1>2, <1>3, <1>4, <1>5, <1>6, <1>7, <1>8, <1>9 DEF OutsideStep, QueueStep

LEMMA StutterKeeps ==
  ASSUME IInv, UNCHANGED vars
  PROVE  IInv'
BY DEF IInv, TerminatedFirst, AudioThere, AudioKnowsEnd, AudioTold, Late, vars,
       managerVars, callVars, audioVars, serviceVars, Steps

(* IInv holds in every state of every call.                                *)
THEOREM Inductive == Spec => []IInv
<1>1. IInv /\ [Next]_vars => IInv'
  BY ManagerKeeps, TerminateKeeps, OthersKeep, StutterKeeps DEF Next
<1> QED BY <1>1, InitIInv, PTL DEF Spec

(* Only Run enters the loop.                                               *)
LEMMA OnlyRunStartsAudio ==
  ASSUME Next, pc' = "loop", pc # "loop"
  PROVE  Run
<1> USE DEF GoTo, Move, Fails
<1>1. CASE ManagerStep
  <2>1. ASSUME NEW g \in DOMAIN AfterGuard PROVE ~Guard(g)
    BY DEF Guard, AfterGuard
  <2>2. ~ManagerFails
    BY DEF ManagerFails, BeginTerminate
  <2> QED
    BY <1>1, <2>1, <2>2 DEF ManagerStep, Initiate, Ring, NotifyCallFresh,
       ProcessSignals, WaitForAnswer, CheckEndButton, NewCallAudioManager,
       Negotiate, NotifyCallConnected, ShutdownQueue, InterruptListener,
       LeaveLoop
<1>2. ~(MakeConnection \/ NotifyCallConnectionUIUpdateComplete)
  BY DEF MakeConnection, NotifyCallConnectionUIUpdateComplete
<1>3. ~TerminateStep
  BY DEF TerminateStep, TerminateAudio, CheckSignalManager, TerminateSignals,
         QueueHangup, InterruptForHangup, CloseZrtp, LeaveMonitor, managerVars
<1>4. ~(OutsideStep \/ QueueStep)
  BY DEF OutsideStep, QueueStep, HandleHangupCall, HandleDenyCall,
         HandleAnswerCall, HandleCallDisconnected, HandleExitTimeOut,
         BusyTimeout, ListenerRaises, BeginTerminate, SignalInforms,
         SignalHangup, SignalBusy, RelayedHangup, LeaveLoop, managerVars
<1> QED BY <1>1, <1>2, <1>3, <1>4 DEF Next

(* For every choice of roles: once terminate() has been past the audio, no *)
(* step of any thread starts the audio loop.                               *)
THEOREM AudioStaysOff == Spec => NoAudioAfterTerminate
<1>1. IInv /\ [Next]_vars => [AudioTold /\ pc' = "loop" => pc = "loop"]_vars
  <2> SUFFICES ASSUME IInv, [Next]_vars
               PROVE  [AudioTold /\ pc' = "loop" => pc = "loop"]_vars
    OBVIOUS
  <2>1. CASE UNCHANGED vars
    BY <2>1
  <2>2. CASE Next
    <3> SUFFICES ASSUME AudioTold, pc' = "loop", pc # "loop" PROVE FALSE
      OBVIOUS
    <3>1. Run
      BY <2>2, OnlyRunStartsAudio
    <3> QED
      BY <3>1 DEF Run, GoTo, StartsLoop, IInv, AudioKnowsEnd, Late
  <2> QED BY <2>1, <2>2
<1> QED BY <1>1, Inductive, PTL DEF Spec, NoAudioAfterTerminate
=============================================================================
