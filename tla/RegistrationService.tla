---------------------------- MODULE RegistrationService ---------------------------
(***************************************************************************)
(* registration/RegistrationService.java: an executor of one thread runs   *)
(* the attempts to register a number; the verification code comes by SMS   *)
(* or from the keyboard, on the main thread, which may also shut the       *)
(* service down.                                                           *)
(*                                                                         *)
(* The SMS of the k-th attempt brings code k; 0 is no code.  The server is *)
(* known by its answers.                                                   *)
(***************************************************************************)
EXTENDS Integers, SequencesExt

CONSTANT MaxAttempts   \* bound on the attempts

ASSUME AttemptsAssumption == MaxAttempts \in Nat

VARIABLES waiting,     \* attempts in the executor's queue
          attempt,     \* the attempts begun
          task,        \* where the executor's thread is
          receiver,    \* the ChallengeReceiver is registered
          challenge,   \* the code, 0 for null
          code,        \* the code that waitForChallenge returned
          state,       \* registrationState
          verifying,   \* VERIFYING_PREFERENCE
          registered,  \* REGISTERED_PREFERENCE
          made,        \* the last attempt whose account the server has made
          sms,         \* SMS under way
          heard,       \* the SMS of this attempt arrived before its 120 s were over
          left         \* the user left during this attempt

outsideVars == <<made, sms, heard, left>>
prefVars == <<verifying, registered>>
regVars == <<waiting, attempt, task, receiver, challenge, code, state, prefVars, outsideVars>>

RegistrationInit ==
  /\ waiting = 0 /\ attempt = 0 /\ task = "idle"
  /\ receiver = FALSE /\ challenge = 0 /\ code = 0
  /\ state = "IDLE" /\ verifying = FALSE /\ registered = FALSE
  /\ made = 0 /\ sms = {} /\ heard = FALSE /\ left = FALSE

-----------------------------------------------------------------------------
(* The attempts                                                             *)

\* onStartCommand with REGISTER_NUMBER_ACTION.
onStartCommand ==
  /\ attempt + waiting < MaxAttempts
  /\ waiting' = waiting + 1
  /\ UNCHANGED <<attempt, task, receiver, challenge, code, state, prefVars, outsideVars>>

\* Mutant: the listener is started when the account has been made.
StepsListenLate == <<"idle", "connect", "create", "listen", "wait", "verify", "finish">>

\* What handleRegistrationIntent does one after the other.
Steps == <<"idle", "listen", "connect", "create", "wait", "verify", "finish">>

Continue == \E k \in 1 .. Len(Steps) - 1 : task = Steps[k] /\ task' = Steps[k + 1]

\* A catch clause; the finally clause is still to come.
Caught(why) == state' = why /\ task' = "finally"

BeginAttempt ==
  /\ task = "idle" /\ waiting > 0
  /\ waiting' = waiting - 1 /\ attempt' = attempt + 1
  /\ verifying' = TRUE
  /\ heard' = FALSE /\ left' = FALSE
  /\ Continue
  /\ UNCHANGED <<receiver, challenge, code, state, registered, made, sms>>

initializeChallengeListener ==
  /\ task = "listen"
  /\ challenge' = 0 /\ receiver' = TRUE
  /\ Continue
  /\ UNCHANGED <<waiting, attempt, code, state, prefVars, outsideVars>>

setConnecting ==
  /\ task = "connect"
  /\ state' = "CONNECTING"
  /\ Continue
  /\ UNCHANGED <<waiting, attempt, receiver, challenge, code, prefVars, outsideVars>>

\* The server makes the account and sends the SMS, which may come before the
\* answer.
ServerMakesAccount ==
  /\ task = "create" /\ made < attempt
  /\ made' = attempt /\ sms' = sms \cup {attempt}
  /\ UNCHANGED <<waiting, attempt, task, receiver, challenge, code, state, prefVars, heard, left>>

createAccount ==
  /\ task = "create"
  /\ \/ made = attempt /\ state' = "VERIFICATION" /\ Continue
     \/ Caught("NETWORK_ERROR")
  /\ UNCHANGED <<waiting, attempt, receiver, challenge, code, prefVars, outsideVars>>

\* Under the lock: the code, as soon as there is one, or the end of the 120 s.
waitForChallenge ==
  /\ task = "wait"
  /\ code' = challenge
  /\ IF challenge # 0 THEN Continue ELSE task' = "timeout"
  /\ UNCHANGED <<waiting, attempt, receiver, challenge, state, prefVars, outsideVars>>

catchTimeout ==
  /\ task = "timeout" /\ Caught("TIMEOUT")
  /\ UNCHANGED <<waiting, attempt, receiver, challenge, code, prefVars, outsideVars>>

\* verifyAccount, then markAsVerified; the server refuses every other code.
verifyAccount ==
  /\ task = "verify"
  /\ \/ /\ code = attempt
        /\ registered' = TRUE /\ verifying' = FALSE
        /\ Continue
        /\ UNCHANGED state
     \/ Caught("NETWORK_ERROR") /\ UNCHANGED prefVars
  /\ UNCHANGED <<waiting, attempt, receiver, challenge, code, outsideVars>>

\* The push registration and the directory; both may fail although the number
\* is registered.
finishRegistration ==
  /\ task = "finish"
  /\ Caught("COMPLETE") \/ Caught("NETWORK_ERROR")
  /\ UNCHANGED <<waiting, attempt, receiver, challenge, code, prefVars, outsideVars>>

\* The finally clause: shutdownChallengeListener.
endAttempt ==
  /\ task = "finally"
  /\ receiver' = FALSE
  /\ task' = "idle"
  /\ UNCHANGED <<waiting, attempt, challenge, code, state, prefVars, outsideVars>>

-----------------------------------------------------------------------------
(* The main thread                                                          *)

\* An SMS arrives; its broadcast is for nobody when no receiver is registered.
SmsArrives(c) ==
  /\ c \in sms /\ sms' = sms \ {c}
  /\ challenge' = IF receiver THEN c ELSE challenge
  /\ heard' = (heard \/ (c = attempt /\ task \in {"create", "wait"}))
  /\ UNCHANGED <<waiting, attempt, task, receiver, code, state, prefVars, made, left>>

\* A code is typed in where the activity asks for it; the largest is a wrong one.
challengeReceived(c) ==
  /\ state = "VERIFICATION" /\ ~left
  /\ challenge' = c
  /\ UNCHANGED <<waiting, attempt, task, receiver, code, state, prefVars, outsideVars>>

\* The user leaves: the activity shuts the service down.
shutdown ==
  /\ receiver' = FALSE /\ verifying' = FALSE /\ state' = "IDLE"
  /\ left' = TRUE
  /\ UNCHANGED <<waiting, attempt, task, challenge, code, registered, made, sms, heard>>

RegistrationNext ==
  \/ onStartCommand \/ BeginAttempt \/ initializeChallengeListener \/ setConnecting
  \/ ServerMakesAccount \/ createAccount \/ waitForChallenge \/ catchTimeout
  \/ verifyAccount \/ finishRegistration \/ endAttempt
  \/ \E c \in 1 .. MaxAttempts : SmsArrives(c)
  \/ \E c \in 1 .. MaxAttempts + 1 : challengeReceived(c)
  \/ shutdown

RegistrationSpec == RegistrationInit /\ [][RegistrationNext]_regVars

-----------------------------------------------------------------------------
(* Properties                                                               *)

\* An attempt does not time out when its SMS came in time, not even one that
\* came before the server's answer or before the wait, unless the user has left
\* it (handleRegistrationIntent, waitForChallenge).
NoLostChallenge == task = "timeout" /\ heard => left

=============================================================================
