------------------------------- MODULE MCPhone -------------------------------
(***************************************************************************)
(* A small instance of the parts of the application that keep a state from *)
(* one call to the next or through a whole call, and share none: the       *)
(* retained secrets of two phones, the SRTP stream of one direction, and   *)
(* the call service with its locks.  Each behaviour runs one of them,      *)
(* chosen at the start.                                                    *)
(***************************************************************************)
EXTENDS RetainedSecrets, SecureStream, RedPhoneService

VARIABLE part

phonePartVars == <<part, secretsVars, streamVars, svars>>

Init ==
  /\ part \in {"secrets", "stream", "service"}
  /\ SecretsInit /\ StreamInit /\ ServiceInit

Next ==
  \/ part = "secrets" /\ SecretsNext /\ UNCHANGED <<part, streamVars, svars>>
  \/ part = "stream" /\ StreamNext /\ UNCHANGED <<part, secretsVars, svars>>
  \/ part = "service" /\ ServiceNext /\ UNCHANGED <<part, secretsVars, streamVars>>

Spec == Init /\ [][Next]_phonePartVars
=============================================================================
