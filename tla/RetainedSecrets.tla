--------------------------- MODULE RetainedSecrets ---------------------------
(***************************************************************************)
(* database/RetainedSecretsDatabase over a sequence of calls between the   *)
(* same two phones.  Each phone keeps two secrets and a verified flag for  *)
(* the other one; a call may be cut off after both, one or none of them    *)
(* have stored the secret it made (ZrtpHandshake shows why: the responder  *)
(* stores after Confirm2, the initiator after Conf2Ack or what stands in   *)
(* for it, and either process may die in between).                         *)
(*                                                                         *)
(* The secret of the n-th call is n.  That both phones make the same one   *)
(* is KeyAgreement of ZrtpHandshake.  Secrets never expire: the cache time *)
(* in a Confirm packet is always 0xffffffff seconds.                       *)
(***************************************************************************)
EXTENDS Naturals, Sequences, RetainedSecretsCalculator

CONSTANT MaxCalls                       \* calls in a behaviour

ASSUME SecretsAssumption == MaxCalls \in Nat /\ NoSecret \notin Nat

Phones == {"A", "B"}
Peer(p) == IF p = "A" THEN "B" ELSE "A"

VARIABLES rs,          \* rs[p]: <<RS1, RS2>> of p's row for the other phone
          verified,    \* verified[p]: VERIFIED of that row
          calls,       \* calls so far; the number of the current one
          caller,      \* the initiator of the current call, "none" between calls
          s1,          \* s1[p]: the shared secret p found for this call
          cached,      \* the phones that have stored this call's secret
          shared,      \* history: the last call both have stored, 0 if none
          alone,       \* history: calls only p has stored since then
          trusted      \* history: secrets p's user vouches for, see ConfirmSas

secretsVars == <<rs, verified, calls, caller, s1, cached, shared, alone, trusted>>

NoSecrets == <<NoSecret, NoSecret>>

SecretsInit ==
  /\ rs       = [p \in Phones |-> NoSecrets]
  /\ verified = [p \in Phones |-> FALSE]
  /\ calls    = 0
  /\ caller   = "none"
  /\ s1       = [p \in Phones |-> NoSecret]
  /\ cached   = {}
  /\ shared   = 0
  /\ alone    = [p \in Phones |-> 0]
  /\ trusted  = [p \in Phones |-> {}]

RoleOf(p, c) == IF p = c THEN "Initiator" ELSE "Responder"

(* getRetainedSecrets on both sides, and each calculator's getS1 on the    *)
(* derivatives the other side has sent.                                    *)
FindS1(p, c) ==
  GetS1(RoleOf(p, c), rs[p], DerivativesSent(RoleOf(Peer(p), c), rs[Peer(p)]))

StartCall(c) ==
  /\ caller = "none" /\ calls < MaxCalls
  /\ calls' = calls + 1
  /\ caller' = c
  /\ s1' = [p \in Phones |-> FindS1(p, c)]
  /\ cached' = {}
  /\ UNCHANGED <<rs, verified, shared, alone, trusted>>

(* setRetainedSecret: the new secret becomes RS1 and the old RS1 becomes   *)
(* RS2; without continuity the row is no longer verified.  The mutants     *)
(* overwrite RS1 and keep VERIFIED.                                        *)
RotateOverwriting(old, new) == <<new, old[2]>>
Rotate(old, new) == <<new, old[1]>>
StaysVerifiedAlways(p) == verified[p]
StaysVerified(p) == verified[p] /\ s1[p] # NoSecret

Cache(p) ==
  /\ caller # "none" /\ p \notin cached
  /\ rs' = [rs EXCEPT ![p] = Rotate(@, calls)]
  /\ verified' = [verified EXCEPT ![p] = StaysVerified(p)]
  /\ cached' = cached \cup {p}
  /\ trusted' = [trusted EXCEPT ![p] = IF s1[p] \in @ THEN @ \cup {calls} ELSE @]
  /\ UNCHANGED <<calls, caller, s1, shared, alone>>

(* ACTION_CONFIRM_SAS: the user of p has compared the short authentication *)
(* string with the peer, over the connected call, and confirms it.         *)
ConfirmSas(p) ==
  /\ caller # "none" /\ cached = Phones
  /\ verified' = [verified EXCEPT ![p] = TRUE]
  /\ trusted' = [trusted EXCEPT ![p] = @ \cup {calls}]
  /\ UNCHANGED <<rs, calls, caller, s1, cached, shared, alone>>

(* The call ends, however far it got.                                      *)
EndCall ==
  /\ caller # "none"
  /\ caller' = "none"
  /\ shared' = IF cached = Phones THEN calls ELSE shared
  /\ alone' = [p \in Phones |-> IF cached = Phones THEN 0
                                ELSE IF p \in cached THEN alone[p] + 1
                                ELSE alone[p]]
  /\ UNCHANGED <<rs, verified, calls, s1, cached, trusted>>

(* A phone loses its data, and with it its ZID: neither has a row for the  *)
(* other one any more.                                                     *)
Reinstall ==
  /\ caller = "none"
  /\ rs' = [p \in Phones |-> NoSecrets]
  /\ verified' = [p \in Phones |-> FALSE]
  /\ cached' = {}
  /\ shared' = 0
  /\ alone' = [p \in Phones |-> 0]
  /\ trusted' = [p \in Phones |-> {}]
  /\ UNCHANGED <<calls, caller, s1>>

SecretsNext ==
  \/ \E p \in Phones : StartCall(p) \/ Cache(p) \/ ConfirmSas(p)
  \/ EndCall
  \/ Reinstall

SecretsSpec == SecretsInit /\ [][SecretsNext]_secretsVars

-----------------------------------------------------------------------------
(* Properties.                                                             *)

Stored == (1..MaxCalls) \cup {NoSecret}

SecretsTypeOK ==
  /\ rs \in [Phones -> Stored \X Stored]
  /\ verified \in [Phones -> BOOLEAN]
  /\ calls \in 0..MaxCalls
  /\ caller \in Phones \cup {"none"}
  /\ s1 \in [Phones -> Stored]
  /\ cached \subseteq Phones
  /\ shared \in 0..MaxCalls
  /\ alone \in [Phones -> Nat]
  /\ trusted \in [Phones -> SUBSET (1..MaxCalls)]

(* Once a call has been stored at both ends the phones keep a common       *)
(* secret, and getS1 finds it whoever calls next, as long as neither has   *)
(* stored more than one secret the other has not: setRetainedSecret moves  *)
(* the old RS1 to RS2 for this.                                            *)
SharedSecretSurvives ==
  (caller = "none" /\ shared # 0 /\ \A p \in Phones : alone[p] <= 1)
    => \A p, c \in Phones : FindS1(p, c) # NoSecret

(* A row that isVerified reports as verified, and the call screen shows so, *)
(* holds a secret linked, call by call through a secret both ends proved to *)
(* hold, to a call whose SAS the user has compared.                        *)
VerifiedHasLineage ==
  \A p \in Phones : verified[p] => rs[p][1] \in trusted[p]
=============================================================================
