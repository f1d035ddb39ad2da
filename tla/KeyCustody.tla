----------------------------- MODULE KeyCustody ------------------------------
(***************************************************************************)
(* What key_manager.py promises about WAHA keys, whatever calls it takes:  *)
(* a key is always in somebody's custody.  The operation that creates it   *)
(* holds it until it is an account's key, or is deleted, or is reported    *)
(* (logged for the administrator) because it could not be deleted.         *)
(***************************************************************************)
CONSTANT Keys

VARIABLE custody

Custodies == {"unborn", "held", "stored", "reported", "deleted"}

Create(k) == custody[k] = "unborn" /\ custody' = [custody EXCEPT ![k] = "held"]

Store(k) == custody[k] = "held" /\ custody' = [custody EXCEPT ![k] = "stored"]

\* Rotation: the operation now holds the old key, which it is to delete.  The
\* new key may have been deleted behind its back.
Replace(new, old) ==
    /\ custody[new] \in {"held", "deleted"} /\ custody[old] = "stored"
    /\ custody' = [custody EXCEPT ![new] = IF @ = "held" THEN "stored" ELSE @, ![old] = "held"]

Report(k) == custody[k] = "held" /\ custody' = [custody EXCEPT ![k] = "reported"]

Delete(k) ==
    /\ custody[k] \in {"held", "stored", "reported"}
    /\ custody' = [custody EXCEPT ![k] = "deleted"]

Init == custody = [k \in Keys |-> "unborn"]

Next == \E k \in Keys : \/ Create(k) \/ Store(k) \/ Report(k) \/ Delete(k)
                        \/ \E old \in Keys : Replace(k, old)

Spec == Init /\ [][Next]_custody

=============================================================================
