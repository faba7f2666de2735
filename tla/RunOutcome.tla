------------------------------ MODULE RunOutcome ------------------------------
(***************************************************************************)
(* Events of a run by what they do to a reader (src/domain/enums.py,       *)
(* apps/web/src/runtime/RuntimeTransport.ts): "patch" changes what is      *)
(* shown, "refresh" asks for a new snapshot, the others end the run.       *)
(* RUN_FAILED is "failed" or "cancelled" by the status in its payload.     *)
(***************************************************************************)

Ordinary == { "patch", "refresh" }

Outcome == [completed |-> "RELEASED", failed |-> "FAILED", cancelled |-> "CANCELLED"]

Kind == Ordinary \cup DOMAIN Outcome

Terminal == { "RELEASED", "FAILED", "CANCELLED" }

RunStatus == Terminal \cup { "RUNNING" }

IsTerminal(kind) == kind \in DOMAIN Outcome
=============================================================================
