---------------------- MODULE RetainedSecretsCalculator ----------------------
(***************************************************************************)
(* crypto/zrtp/retained: how each side of a ZRTP call finds the secret it  *)
(* still shares with the peer from an earlier call.                        *)
(*                                                                         *)
(* A side holds a pair <<rs1, rs2>> (RetainedSecrets.java).  It never      *)
(* sends the secrets, only a keyed derivative of each, made with the role  *)
(* of the SENDER, so that the receiver compares what it got with the       *)
(* derivatives of its own secrets under the peer's role.                   *)
(*                                                                         *)
(* The 8-byte truncated HMAC is modelled as injective, and the eight       *)
(* random bytes sent in place of a missing secret as a value that is no    *)
(* derivative.                                                             *)
(***************************************************************************)

CONSTANT NoSecret          \* null: no secret retained

Roles == {"Initiator", "Responder"}
Other(r) == IF r = "Initiator" THEN "Responder" ELSE "Initiator"

NoDerivative == [role |-> "null", secret |-> NoSecret]

(* calculateDerivative: HMAC(secret, role); a null secret has a null one.  *)
CalculateDerivative(role, secret) ==
  IF secret = NoSecret THEN NoDerivative ELSE [role |-> role, secret |-> secret]

CalculateDerivatives(role, rs) ==
  <<CalculateDerivative(role, rs[1]), CalculateDerivative(role, rs[2])>>

(* DHPacket.setDerivativeSecret: a null derivative travels as random bytes. *)
RandomBytes == [role |-> "random", secret |-> NoSecret]
SetDerivativeSecret(id) == IF id = NoDerivative THEN RandomBytes ELSE id

(* The two derivatives that the DH packet of `role` carries.               *)
DerivativesSent(role, rs) ==
  LET ids == CalculateDerivatives(role, rs)
  IN  <<SetDerivativeSecret(ids[1]), SetDerivativeSecret(ids[2])>>

(* The comparison both calculators make: a null id never matches.          *)
Matches(idi, idr) == idr # NoDerivative /\ idi = idr

(* InitiatorRetainedSecretsCalculator.getS1(rs1IDr, rs2IDr).               *)
InitiatorS1(rs, idr) ==
  LET idi == CalculateDerivatives("Responder", rs)
  IN  IF      Matches(idi[1], idr[1]) THEN rs[1]
      ELSE IF Matches(idi[1], idr[2]) THEN rs[1]
      ELSE IF Matches(idi[2], idr[1]) THEN rs[2]
      ELSE IF Matches(idi[2], idr[2]) THEN rs[2]
      ELSE NoSecret

(* ResponderRetainedSecretsCalculator.getS1(rs1IDi, rs2IDi).               *)
ResponderS1(rs, idi) ==
  LET idr == CalculateDerivatives("Initiator", rs)
  IN  IF      Matches(idi[1], idr[1]) THEN rs[1]
      ELSE IF Matches(idi[1], idr[2]) THEN rs[2]
      ELSE IF Matches(idi[2], idr[1]) THEN rs[1]
      ELSE IF Matches(idi[2], idr[2]) THEN rs[2]
      ELSE NoSecret

GetS1(role, rs, ids) ==
  IF role = "Initiator" THEN InitiatorS1(rs, ids) ELSE ResponderS1(rs, ids)

HasContinuity(role, rs, ids) == GetS1(role, rs, ids) # NoSecret

-----------------------------------------------------------------------------
(* What the two getS1 promise each other, from the class comments of       *)
(* RFC 6189 section 4.3: the initiator's rs1 if the responder holds it,    *)
(* else the initiator's rs2 if the responder holds it, else nothing.       *)
ReferenceS1(rsi, rsr) ==
  LET held == {rsr[1], rsr[2]} \ {NoSecret}
  IN  IF rsi[1] \in held THEN rsi[1]
      ELSE IF rsi[2] \in held THEN rsi[2]
      ELSE NoSecret
=============================================================================
