---------------------- MODULE LowLatencySocketConnector ----------------------
(***************************************************************************)
(* network/LowLatencySocketConnector.java: a connection to the first of    *)
(* several addresses that answers.                                         *)
(***************************************************************************)
EXTENDS Integers

CONSTANT Addresses

ASSUME AddressesAssumption ==
  Addresses # {} /\ Addresses \cap {"none", "timeout", "failed"} = {}

VARIABLES answer,    \* of each address: "none", "accepted" or "refused"
          valid,     \* addresses whose selection key is valid
          open,      \* addresses whose channel is open
          selected,  \* selected keys that the iterator has not reached
          stage,     \* "select", "scan" or "done"
          result     \* "none", "timeout", "failed" or the address

connectVars == <<answer, valid, open, selected, stage, result>>

\* constructSocketChannels and connectChannels.
ConnectInit ==
  /\ answer = [a \in Addresses |-> "none"]
  /\ valid = Addresses /\ open = Addresses /\ selected = {}
  /\ stage = "select" /\ result = "none"

Answers(a, how) ==
  /\ answer[a] = "none" /\ a \in open
  /\ answer' = [answer EXCEPT ![a] = how]
  /\ UNCHANGED <<valid, open, selected, stage, result>>

Finish(r) == stage' = "done" /\ result' = r

\* The loop of waitForFirstChannel: hasValidKeys, then select.
Select ==
  LET ready == {a \in valid : answer[a] # "none"}
  IN /\ stage = "select"
     /\ \/ valid = {} /\ Finish("failed") /\ UNCHANGED selected
        \/ ready # {} /\ selected' = ready /\ stage' = "scan" /\ UNCHANGED result
        \/ valid # {} /\ ready = {} /\ Finish("timeout") /\ UNCHANGED selected
     /\ UNCHANGED <<answer, valid, open>>

\* Mutant: the channels whose keys were selected too are left.
ClosedUnselected(a) == Addresses \ ({a} \cup selected)

\* closeAllButChannel.
Closed(a) == Addresses \ {a}

\* One selected key.  finishConnect closes a channel that was refused.
Scan(a) ==
  /\ stage = "scan" /\ a \in selected
  /\ selected' = selected \ {a}
  /\ IF a \in valid /\ answer[a] = "accepted"
     THEN /\ open' = open \ Closed(a) /\ valid' = valid \ Closed(a)
          /\ Finish(a)
     ELSE /\ IF a \in valid
             THEN open' = open \ {a} /\ valid' = valid \ {a}
             ELSE UNCHANGED <<open, valid>>
          /\ UNCHANGED <<stage, result>>
  /\ UNCHANGED answer

ScanEnds ==
  /\ stage = "scan" /\ selected = {}
  /\ stage' = "select"
  /\ UNCHANGED <<answer, valid, open, selected, result>>

ConnectNext ==
  \/ \E a \in Addresses, how \in {"accepted", "refused"} : Answers(a, how)
  \/ Select
  \/ \E a \in Addresses : Scan(a)
  \/ ScanEnds

ConnectSpec == ConnectInit /\ [][ConnectNext]_connectVars

-----------------------------------------------------------------------------
(* Properties                                                               *)

\* The socket that is returned is connected, and the only one left open: not
\* those that were still connecting, nor those that became ready together with it
\* (closeAllButChannel).  "All connections failed!" is thrown only when every
\* address has refused: one refusal does not end the attempt (waitForFirstChannel).
FirstAnswerWins ==
  /\ result \in Addresses => answer[result] = "accepted" /\ open = {result}
  /\ result = "failed" => \A a \in Addresses : answer[a] = "refused"
=============================================================================
