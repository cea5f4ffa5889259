------------------------------ MODULE MCHandset ------------------------------
(***************************************************************************)
(* A small instance of five parts of the application, each with a thread   *)
(* of its own at its other side, that share no state: the jitter buffer,   *)
(* the listener for signals, the connector, the microphone, and the        *)
(* registration.  Each behaviour runs one of them, chosen at the start.    *)
(***************************************************************************)
EXTENDS CallAudioProvider, SignalReader, LowLatencySocketConnector, MicrophoneReader,
        RegistrationService

VARIABLE component

\* An empty body, a short one, and one that looks like the end of a line.
SmallBodies == {<<>>, <<50>>, <<CR, LF>>}

handsetVars == <<component, vars, readerVars, connectVars, mvars, regVars>>

HandsetInit ==
  /\ component \in {"jitter", "reader", "connector", "microphone", "registration"}
  /\ Init /\ ReaderInit /\ ConnectInit /\ MicInit /\ RegistrationInit
  /\ component # "reader" => patient
  /\ component # "microphone" => device = "new"

HandsetNext ==
  \/ component = "jitter" /\ Next
       /\ UNCHANGED <<component, readerVars, connectVars, mvars, regVars>>
  \/ component = "reader" /\ ReaderNext
       /\ UNCHANGED <<component, vars, connectVars, mvars, regVars>>
  \/ component = "connector" /\ ConnectNext
       /\ UNCHANGED <<component, vars, readerVars, mvars, regVars>>
  \/ component = "microphone" /\ MicNext
       /\ UNCHANGED <<component, vars, readerVars, connectVars, regVars>>
  \/ component = "registration" /\ RegistrationNext
       /\ UNCHANGED <<component, vars, readerVars, connectVars, mvars>>

\* The speaker asks for frames as long as the call lasts, and the listener's
\* thread runs.
HandsetSpec ==
  /\ HandsetInit /\ [][HandsetNext]_handsetVars
  /\ WF_playVars(component = "jitter" /\ Play)
  /\ WF_readerVars(component = "reader" /\ Listener)
=============================================================================
