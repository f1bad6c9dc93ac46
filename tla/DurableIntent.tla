---------------------------- MODULE DurableIntent ----------------------------
(***************************************************************************)
(* What a write to a system outside the database promises to whoever reads  *)
(* its intent: nothing takes effect that was not recorded first, nothing is  *)
(* recorded as completed that did not take effect, and what is completed     *)
(* stays so with the receipt it was given.  Several intents may ask for the  *)
(* same effect.                                                              *)
(***************************************************************************)
CONSTANTS Intents, Effects, EffectOf, NoReceipt

VARIABLES phase,   \* of each intent
          landed,  \* the effects that took place
          proof    \* the receipt an intent was completed with

intentVars == <<phase, landed, proof>>

Phases == {"none", "pending", "unknown", "failed", "completed"}

DInit == /\ phase  = [i \in Intents |-> "none"]
         /\ landed = {}
         /\ proof  = [i \in Intents |-> NoReceipt]

Intend(i) == /\ phase[i] = "none"
             /\ phase' = [phase EXCEPT ![i] = "pending"]
             /\ UNCHANGED <<landed, proof>>

(* An effect happens once, and only for an intent that was recorded. *)
Land(e) == /\ e \notin landed
           /\ \E i \in Intents : EffectOf[i] = e /\ phase[i] # "none"
           /\ landed' = landed \cup {e}
           /\ UNCHANGED <<phase, proof>>

(* No answer, or one that cannot be trusted; a refusal can be wrong too. *)
Doubt(i) == /\ phase[i] \in {"pending", "unknown", "failed"}
            /\ \E p \in {"unknown", "failed"} : phase' = [phase EXCEPT ![i] = p]
            /\ UNCHANGED <<landed, proof>>

Prove(i) == /\ phase[i] \in {"pending", "unknown"}
            /\ EffectOf[i] \in landed
            /\ phase' = [phase EXCEPT ![i] = "completed"]
            /\ proof'[i] # NoReceipt
            /\ proof' = [proof EXCEPT ![i] = proof'[i]]
            /\ UNCHANGED landed

DNext == \/ \E i \in Intents : Intend(i) \/ Doubt(i) \/ Prove(i)
         \/ \E e \in Effects : Land(e)

DSpec == DInit /\ [][DNext]_intentVars
=============================================================================
