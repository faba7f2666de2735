---------------------------- MODULE ExecutionSlot ----------------------------
(***************************************************************************)
(* What admission promises: research runs take turns in one execution      *)
(* slot.  A run enters it by using up claims no run used before (a draft   *)
(* with the key of its confirmation, or an authorization to execute        *)
(* again), is started once, and leaves it for good.                        *)
(***************************************************************************)
CONSTANTS Run, Claim

VARIABLES
    life,   \* [Run -> "unborn", "waiting", "started" or "over"]
    used    \* [Run -> claims it was admitted with]

slotVars == <<life, used>>

InSlot == { r \in Run : life[r] \in {"waiting", "started"} }
UsedUp == UNION { used[r] : r \in Run }

Init == life = [r \in Run |-> "unborn"] /\ used = [r \in Run |-> {}]

Admit(r, claims) ==
    /\ InSlot = {}
    /\ life[r] = "unborn"
    /\ claims # {} /\ claims \subseteq Claim \ UsedUp
    /\ life' = [life EXCEPT ![r] = "waiting"]
    /\ used' = [used EXCEPT ![r] = claims]

Move(r, from, to) ==
    /\ life[r] = from
    /\ life' = [life EXCEPT ![r] = to]
    /\ UNCHANGED used

Next == \E r \in Run :
    \/ Admit(r, used'[r])
    \/ Move(r, "waiting", "started")
    \/ Move(r, "started", "over")

Spec == Init /\ [][Next]_slotVars

=============================================================================
