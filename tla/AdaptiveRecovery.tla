--------------------------- MODULE AdaptiveRecovery ---------------------------
(***************************************************************************)
(* The recovery of a specialist's model call: AdaptiveRecovery.            *)
(* execute_scope tries the routes of a task one after the other, each call *)
(* a decision of the supervisor that an independent policy must allow, and *)
(* keeps append-only evidence of what it does.  A scope (one operation of  *)
(* one task) may be delivered again, by a restart or a second process.     *)
(*                                                                         *)
(* Evidence is committed before and after each call; the rest happens      *)
(* between two awaits.  The context and the messages never change while a  *)
(* delivery lasts, so the digests that guard them are left out, as are     *)
(* tokens, latencies and the health of a route, which no decision reads.   *)
(***************************************************************************)
EXTENDS Integers, FiniteSets

CONSTANTS
    Delivery, Scope,              \* executions of execute_scope and what they execute
    Route, Order, Provider,       \* routes, their place among TASK_CANDIDATES, their provider
    Grant,                        \* DYNAMIC_GRANTS: routes whose model may answer for another
    Initial,                      \* the route of the configured provider
    Settings                      \* what a task finds: see Setting

Capability == {"VERIFIED", "UNKNOWN", "QUARANTINED"}
Mode == {"plain", "walk", "generated"}

\* What each delivery executes, the kind of the tasks, the routes with credentials,
\* and what accepted outputs and the evidence of earlier tasks say of the routes.
Setting == [scope : [Delivery -> Scope], mode : Mode, authority : SUBSET Route,
            prior : [Route -> Capability]]

ASSUME RecoveryAssumption ==
    /\ Order \in [Route -> Nat]
    /\ \A r, q \in Route : Order[r] = Order[q] => r = q
    /\ Grant \in [Route -> SUBSET Route]
    /\ Initial \in Route
    /\ Settings \subseteq Setting

VARIABLES
    setting,      \* never changes
    started,      \* ATTEMPT_STARTED records
    completed,    \* ATTEMPT_COMPLETED records
    terminal,     \* TERMINAL records
    facts,        \* capability_provenance of the evidence, over what was known before
    exec          \* the local state of each delivery

evidence == <<started, completed, terminal>>
vars == <<setting, evidence, facts, exec>>

Walk == setting.mode = "walk"
Generated == setting.mode = "generated"

\* RecoveryBudget, and the one of the tasks that walk all their routes.
Budget ==
    IF Walk
    THEN [attempts |-> 4, same |-> 1, models |-> 2, providers |-> 1,
          checks |-> 3, decisions |-> 5]
    ELSE [attempts |-> 3, same |-> 1, models |-> 1, providers |-> 1,
          checks |-> 1, decisions |-> 5]

-----------------------------------------------------------------------------
(* The evidence *)

Attempt == [by : Delivery, route : Route, check : BOOLEAN, number : 0..4]
Outcome == {"PASS", "SUBSTITUTED", "PROVIDER", "OUTPUT", "IDENTITY", "RUNTIME",
            "DEADLINE", "CANCELLED"}
Reason == {"POLICY_DENIED", "RECOVERY_BUDGET_EXHAUSTED", "INTERRUPTED_EXECUTION",
           "NONRECOVERABLE"}

HasEvidence(s) ==
    \/ \E a \in started : setting.scope[a.by] = s
    \/ \E t \in terminal : setting.scope[t.by] = s

\* phase6_recovery_single_entry: the first call of a scope is recorded once.
Entered(s) == \E a \in started : setting.scope[a.by] = s /\ a.number = 1 /\ ~a.check

\* A slip: whatever passes certifies the route it was asked of.
LearntFromAnyPass(known, a, outcome) ==
    IF outcome \in {"PASS", "SUBSTITUTED"} THEN [known EXCEPT ![a.route] = "VERIFIED"]
    ELSE IF outcome = "IDENTITY" \/ (a.check /\ outcome = "OUTPUT")
         THEN [known EXCEPT ![a.route] = "QUARANTINED"]
         ELSE known

\* What one more completion tells later tasks of its route; the answer of
\* another model says nothing.
Learnt(known, a, outcome) ==
    IF outcome = "PASS" THEN [known EXCEPT ![a.route] = "VERIFIED"]
    ELSE IF outcome = "IDENTITY" \/ (a.check /\ outcome = "OUTPUT")
         THEN [known EXCEPT ![a.route] = "QUARANTINED"]
         ELSE known

-----------------------------------------------------------------------------
(* Candidates, the supervisor's proposal and the independent policy; e is a delivery *)

Exhausted(e, r) == e.used[r] + (IF Walk THEN e.probed[r] ELSE 0) >= Budget.same

Available(e, r) == r \in setting.authority /\ ~Exhausted(e, r)

SameProvider(e, r) == Provider[r] = Provider[e.current]

\* A route that the remaining switches reach.
Reachable(e, r) ==
    \/ r = e.current
    \/ SameProvider(e, r) /\ e.models < Budget.models
    \/ ~SameProvider(e, r) /\ e.providers < Budget.providers

Eligible(e) == { r \in Route : Available(e, r) /\ Reachable(e, r) /\ e.view[r] = "VERIFIED" }

\* A slip: routes out of the reach of the remaining switches are checked, too.
CheckableAnywhere(e) == { r \in Route : Available(e, r) /\ e.view[r] = "UNKNOWN" }

Checkable(e) == { r \in Route : Available(e, r) /\ Reachable(e, r) /\ e.view[r] = "UNKNOWN" }

First(S) == { r \in S : \A q \in S : Order[r] <= Order[q] }

Use(e, r) ==
    [route |-> r,
     action |-> IF r = e.current THEN "RETRY_SAME_ROUTE"
                ELSE IF SameProvider(e, r) THEN "SWITCH_MODEL" ELSE "SWITCH_PROVIDER"]

Check(r) == [route |-> r, action |-> "CAPABILITY_CHECK"]

\* A slip: a walk, too, prefers the routes that are certified.
ProposalsVerifiedFirst(e) ==
    LET checkable == IF e.checks < Budget.checks THEN Checkable(e) ELSE {}
    IN  IF Eligible(e) # {} THEN { Use(e, r) : r \in First(Eligible(e)) }
        ELSE IF checkable # {} THEN { Check(r) : r \in First(checkable) }
        ELSE { [route |-> e.current, action |-> "FAIL_TASK"] }

\* decide: a walk takes the routes in their order; other tasks take a certified
\* route before they check one.  A set of one proposal.
Proposals(e) ==
    LET checkable == IF e.checks < Budget.checks THEN Checkable(e) ELSE {}
    IN  IF Eligible(e) \cup checkable = {}
        THEN { [route |-> e.current, action |-> "FAIL_TASK"] }
        ELSE IF Walk
        THEN { IF r \in checkable THEN Check(r) ELSE Use(e, r)
               : r \in First(Eligible(e) \cup checkable) }
        ELSE IF Eligible(e) # {}
        THEN { Use(e, r) : r \in First(Eligible(e)) }
        ELSE { Check(r) : r \in First(checkable) }

Allowed(e, p) ==
    \/ p.action = "FAIL_TASK"
    \/ /\ e.recoverable /\ e.attempts < Budget.attempts /\ e.decisions < Budget.decisions
       /\ Available(e, p.route)
       /\ \/ /\ p.action = "CAPABILITY_CHECK"
             /\ e.checks < Budget.checks /\ e.view[p.route] = "UNKNOWN" /\ Reachable(e, p.route)
          \/ /\ p.route \in Eligible(e)
             /\ \/ p.action = "RETRY_SAME_ROUTE" /\ p.route = e.current
                \/ /\ p.action = "SWITCH_MODEL" /\ p.route # e.current
                   /\ SameProvider(e, p.route) /\ e.models < Budget.models
                \/ /\ p.action = "SWITCH_PROVIDER"
                   /\ ~SameProvider(e, p.route) /\ e.providers < Budget.providers

-----------------------------------------------------------------------------
(* Steps of a delivery; each ends at an await *)

Fresh ==
    [pc |-> "idle", view |-> [r \in Route |-> "UNKNOWN"], current |-> Initial,
     target |-> Initial, check |-> FALSE, used |-> [r \in Route |-> 0],
     probed |-> [r \in Route |-> 0], attempts |-> 0, checks |-> 0, decisions |-> 0,
     models |-> 0, providers |-> 0, calls |-> 0, recoverable |-> TRUE, late |-> FALSE,
     direct |-> FALSE, gate |-> "ALLOW", reason |-> "POLICY_DENIED"]

Init ==
    /\ setting \in Settings
    /\ started = {} /\ completed = {} /\ terminal = {}
    /\ facts = setting.prior
    /\ exec = [d \in Delivery |-> Fresh]

Running == {"entering", "starting", "calling", "recorded", "deciding", "stopping"}
Ended == {"delivered", "failed", "refused", "cancelled", "crashed"}

\* The locals of a delivery that is over are gone.
Over(pc) == [Fresh EXCEPT !.pc = pc]

Stopping(e, reason) == [e EXCEPT !.pc = "stopping", !.reason = reason]

\* The records are read for what they say of the routes.  An initial route
\* without credentials is an error, but for a generated capability.
Observe(d) ==
    /\ exec[d].pc = "idle"
    /\ exec' = [exec EXCEPT ![d] =
           IF Initial \in setting.authority \/ Generated
           THEN [exec[d] EXCEPT !.pc = "entering", !.view = facts]
           ELSE Over("refused")]
    /\ UNCHANGED <<setting, evidence, facts>>

\* They are read again for records of the scope itself, which stop the delivery.
Enter(d) ==
    LET e == exec[d] IN
    /\ e.pc = "entering"
    /\ exec' = [exec EXCEPT ![d] =
           IF HasEvidence(setting.scope[d]) THEN Stopping(e, "INTERRUPTED_EXECUTION")
           ELSE IF Initial \notin setting.authority \/ e.view[Initial] = "QUARANTINED"
           THEN Stopping(e, "POLICY_DENIED")
           ELSE [e EXCEPT !.pc = "starting", !.used = [e.used EXCEPT ![Initial] = 1],
                          !.attempts = 1, !.calls = 1]]
    /\ UNCHANGED <<setting, evidence, facts>>

\* A slip: the calls are counted from two.
NumberFromTwo(e) ==
    IF Walk THEN e.calls + 1 ELSE IF e.check THEN e.checks ELSE e.attempts

\* The number a call is recorded under.
Number(e) == IF Walk THEN e.calls ELSE IF e.check THEN e.checks ELSE e.attempts

ThisAttempt(d) ==
    [by |-> d, route |-> exec[d].target, check |-> exec[d].check, number |-> Number(exec[d])]

\* A slip: nothing makes the first call of a scope unique.
BeginUnindexed(d) ==
    /\ exec[d].pc = "starting"
    /\ IF exec[d].late
       THEN /\ exec' = [exec EXCEPT ![d] = Stopping(exec[d], "RECOVERY_BUDGET_EXHAUSTED")]
            /\ UNCHANGED started
       ELSE /\ started' = started \cup {ThisAttempt(d)}
            /\ exec' = [exec EXCEPT ![d].pc = "calling"]
    /\ UNCHANGED <<setting, completed, terminal, facts>>

\* ATTEMPT_STARTED is committed before the call; the unique index refuses a
\* second entry of the scope, which ends the delivery with the driver's error.
Begin(d) ==
    /\ exec[d].pc = "starting"
    /\ IF exec[d].late
       THEN /\ exec' = [exec EXCEPT ![d] = Stopping(exec[d], "RECOVERY_BUDGET_EXHAUSTED")]
            /\ UNCHANGED started
       ELSE IF ThisAttempt(d).number = 1 /\ ~exec[d].check /\ Entered(setting.scope[d])
       THEN /\ exec' = [exec EXCEPT ![d] = Over("refused")]
            /\ UNCHANGED started
       ELSE /\ started' = started \cup {ThisAttempt(d)}
            /\ exec' = [exec EXCEPT ![d].pc = "calling"]
    /\ UNCHANGED <<setting, completed, terminal, facts>>

\* resolve_model_execution: another model of the provider may answer if it is
\* certified, or during a check if nothing speaks against it.
Substitutable(e) ==
    \E r \in Grant[e.target] \cap setting.authority :
        /\ Provider[r] = Provider[e.target]
        /\ e.view[r] = "VERIFIED" \/ (e.check /\ e.view[r] = "UNKNOWN")

Complete(d, outcome) ==
    /\ exec[d].pc = "calling"
    /\ completed' = completed \cup
           {[by |-> d, attempt |-> ThisAttempt(d), outcome |-> outcome]}
    /\ facts' = Learnt(facts, ThisAttempt(d), outcome)
    /\ UNCHANGED <<setting, started, terminal>>

\* A valid answer, of the route's own model or of one that may stand in for it.
Pass(d) == \E outcome \in {"PASS", "SUBSTITUTED"} :
    /\ Complete(d, outcome)
    /\ outcome = "SUBSTITUTED" => Substitutable(exec[d])
    /\ exec' = [exec EXCEPT ![d].pc = "recorded", ![d].direct = (outcome = "PASS")]

\* A check that passed and only certifies its route: the answer is not used.
Certifies(e) == e.check /\ ~Walk /\ e.direct

\* The record of the answer is committed; any other answer is the result.
Resume(d) ==
    LET e == exec[d] IN
    /\ e.pc = "recorded"
    /\ exec' = [exec EXCEPT ![d] =
           IF Certifies(e)
           THEN [e EXCEPT !.pc = "deciding", !.view = [e.view EXCEPT ![e.target] = "VERIFIED"]]
           ELSE Over("delivered")]
    /\ UNCHANGED <<setting, evidence, facts>>

\* What a failure says of the route to the rest of this delivery.
ViewAfter(e, stage) ==
    IF e.check
    THEN [e.view EXCEPT ![e.target] = IF stage = "PROVIDER" THEN "UNKNOWN" ELSE "QUARANTINED"]
    ELSE IF Generated /\ stage = "IDENTITY"
    THEN [e.view EXCEPT ![e.target] = "QUARANTINED"]
    ELSE e.view

\* classify: outages; for a generated capability, answers of no use, too.
Recoverable(stage) == stage = "PROVIDER" \/ (Generated /\ stage \in {"OUTPUT", "IDENTITY"})

\* The provider fails, or its answer is refused for its contents or its model;
\* anything else, a refused authorization included, is a fault of the program.
Fail(d) == \E stage \in {"PROVIDER", "OUTPUT", "IDENTITY", "RUNTIME"} :
    LET e == exec[d]
        after == [e EXCEPT !.view = ViewAfter(e, stage)]
    IN  /\ Complete(d, stage)
        /\ exec' = [exec EXCEPT ![d] =
               IF e.check /\ ~Recoverable(stage) THEN Stopping(after, "NONRECOVERABLE")
               ELSE [after EXCEPT !.pc = "deciding", !.recoverable = Recoverable(stage)]]

\* A slip: only an execution is bounded by the time that is left.
TimeoutExecution(d) ==
    /\ ~exec[d].check
    /\ Complete(d, "DEADLINE")
    /\ exec' = [exec EXCEPT ![d] =
           Stopping([exec[d] EXCEPT !.late = TRUE], "RECOVERY_BUDGET_EXHAUSTED")]

\* The time of the whole recovery runs out during a call...
Timeout(d) ==
    /\ Complete(d, "DEADLINE")
    /\ exec' = [exec EXCEPT ![d] =
           Stopping([exec[d] EXCEPT !.late = TRUE], "RECOVERY_BUDGET_EXHAUSTED")]

\* ... or between two.
Expire(d) ==
    /\ exec[d].pc \in {"starting", "deciding"} /\ ~exec[d].late
    /\ exec' = [exec EXCEPT ![d].late = TRUE]
    /\ UNCHANGED <<setting, evidence, facts>>

\* What keeps the loop from asking the supervisor.
Obstacle(e) ==
    IF e.late THEN "RECOVERY_BUDGET_EXHAUSTED"
    ELSE IF ~e.recoverable THEN "NONRECOVERABLE"
    ELSE IF Walk /\ Eligible(e) \cup Checkable(e) = {} THEN "POLICY_DENIED"
    ELSE IF e.decisions >= Budget.decisions \/ e.attempts >= Budget.attempts
    THEN "RECOVERY_BUDGET_EXHAUSTED"
    ELSE "none"

GiveUp(d) ==
    /\ exec[d].pc = "deciding"
    /\ Obstacle(exec[d]) # "none"
    /\ exec' = [exec EXCEPT ![d] = Stopping(exec[d], Obstacle(exec[d]))]
    /\ UNCHANGED <<setting, evidence, facts>>

\* A slip: checks are not counted.
ProbeUncounted(e, r) ==
    [e EXCEPT !.pc = "starting", !.target = r, !.check = TRUE, !.calls = e.calls + 1]

\* A check; that of a walk moves to the route and uses a switch up.
Probe(e, r) ==
    IF ~Walk
    THEN [e EXCEPT !.pc = "starting", !.target = r, !.check = TRUE, !.calls = e.calls + 1,
                   !.checks = e.checks + 1]
    ELSE [e EXCEPT !.pc = "starting", !.target = r, !.check = TRUE, !.calls = e.calls + 1,
                   !.checks = e.checks + 1, !.current = r,
                   !.probed = [e.probed EXCEPT ![r] = e.probed[r] + 1],
                   !.models = IF SameProvider(e, r) /\ r # e.current
                              THEN e.models + 1 ELSE e.models,
                   !.providers = IF SameProvider(e, r) THEN e.providers ELSE e.providers + 1]

\* Another execution.
Switch(e, p) ==
    [e EXCEPT !.pc = "starting", !.target = p.route, !.check = FALSE, !.calls = e.calls + 1,
              !.current = p.route, !.used = [e.used EXCEPT ![p.route] = e.used[p.route] + 1],
              !.attempts = e.attempts + 1,
              !.models = IF p.action = "SWITCH_MODEL" THEN e.models + 1 ELSE e.models,
              !.providers = IF p.action = "SWITCH_PROVIDER" THEN e.providers + 1 ELSE e.providers]

\* The supervisor's proposal is recorded with the policy's verdict and followed.
Decide(d) ==
    LET e == exec[d] IN
    /\ e.pc = "deciding"
    /\ Obstacle(e) = "none"
    /\ \E p \in Proposals(e) :
           LET decided == [e EXCEPT !.decisions = e.decisions + 1,
                                    !.gate = IF Allowed(e, p) THEN "ALLOW" ELSE "DENY"]
           IN  exec' = [exec EXCEPT ![d] =
                   IF ~Allowed(e, p) \/ p.action = "FAIL_TASK"
                   THEN Stopping(decided, "POLICY_DENIED")
                   ELSE IF p.action = "CAPABILITY_CHECK" THEN Probe(decided, p.route)
                   ELSE Switch(decided, p)]
    /\ UNCHANGED <<setting, evidence, facts>>

\* TERMINAL is committed and RecoveryStopped raised.
Stop(d) ==
    /\ exec[d].pc = "stopping"
    /\ terminal' = terminal \cup {[by |-> d, reason |-> exec[d].reason]}
    /\ exec' = [exec EXCEPT ![d] = Over("failed")]
    /\ UNCHANGED <<setting, started, completed, facts>>

\* The task is cancelled: during a call, or while its answer is being recorded,
\* this is recorded, too.
Cancel(d) ==
    /\ exec[d].pc \in Running
    /\ completed' = IF exec[d].pc \in {"calling", "recorded"}
                    THEN completed \cup {[by |-> d, attempt |-> ThisAttempt(d),
                                          outcome |-> "CANCELLED"]}
                    ELSE completed
    /\ exec' = [exec EXCEPT ![d] = Over("cancelled")]
    /\ UNCHANGED <<setting, started, terminal, facts>>

\* The process stops.
Crash(d) ==
    /\ exec[d].pc \in Running
    /\ exec' = [exec EXCEPT ![d] = Over("crashed")]
    /\ UNCHANGED <<setting, evidence, facts>>

\* The steps of the program itself, and those its surroundings take.
Proceed(d) ==
    \/ Enter(d) \/ Begin(d) \/ Timeout(d) \/ Resume(d) \/ GiveUp(d) \/ Decide(d) \/ Stop(d)

Next == \E d \in Delivery :
    \/ Observe(d) \/ Enter(d) \/ Begin(d) \/ Pass(d) \/ Resume(d) \/ Fail(d) \/ Timeout(d)
    \/ Expire(d) \/ GiveUp(d) \/ Decide(d) \/ Stop(d) \/ Cancel(d) \/ Crash(d)

\* The database answers and calls have deadlines; nothing makes a provider answer.
Fairness == \A d \in Delivery : WF_vars(Proceed(d))

Spec == Init /\ [][Next]_vars /\ Fairness

-----------------------------------------------------------------------------
(* Properties *)

Completion == [by : Delivery, attempt : Attempt, outcome : Outcome]

Execution ==
    [pc : {"idle"} \cup Running \cup Ended, view : [Route -> Capability],
     current : Route, target : Route, check : BOOLEAN, used : [Route -> Nat],
     probed : [Route -> Nat], attempts : Nat, checks : Nat, decisions : Nat,
     models : Nat, providers : Nat, calls : Nat, recoverable : BOOLEAN, late : BOOLEAN,
     direct : BOOLEAN, gate : {"ALLOW", "DENY"}, reason : Reason]

\* Types.  RecoveryEvidence refuses an attempt_number above 4: execute_scope
\* never records one.
TypeOK ==
    /\ setting \in Setting
    /\ started \subseteq Attempt
    /\ completed \subseteq Completion
    /\ terminal \subseteq [by : Delivery, reason : Reason]
    /\ facts \in [Route -> Capability]
    /\ exec \in [Delivery -> Execution]

\* Redelivery and two processes at once (docs: "Partial uniqueness on the first
\* invocation's Run/Task prevents concurrent duplicate execution"): all calls
\* of a scope are made by one delivery.
OneCaller == \A a, b \in started : setting.scope[a.by] = setting.scope[b.by] => a.by = b.by

ExecutionsOf(s) == { a \in started : setting.scope[a.by] = s /\ ~a.check }
ChecksOf(s) == { a \in started : setting.scope[a.by] = s /\ a.check }

\* The budget holds for the scope, over all its deliveries: so many executions
\* and checks, and no route executed twice or checked twice.
WithinBudget == \A s \in Scope :
    /\ Cardinality(ExecutionsOf(s)) <= Budget.attempts
    /\ Cardinality(ChecksOf(s)) <= Budget.checks
    /\ \A a, b \in ExecutionsOf(s) : a.route = b.route => a = b
    /\ \A a, b \in ChecksOf(s) : a.route = b.route => a = b

\* The supervisor and the candidates it is shown agree with the independent
\* policy: no proposal is denied, which would fail a task that has a route left.
ProposalsPass == \A d \in Delivery : exec[d].gate = "ALLOW"

\* capability_provenance: what passes for certified was known so before, or
\* answered under its own model; an answer by another model certifies nothing.
VerifiedByEvidence == \A d \in Delivery, r \in Route :
    exec[d].view[r] = "VERIFIED" =>
        \/ setting.prior[r] = "VERIFIED"
        \/ \E c \in completed : c.attempt.route = r /\ c.outcome = "PASS"

Called(d, r) == \E a \in started : a.by = d /\ a.route = r

\* Follow-up and synthesis walk their routes in order ("a pre-certified
\* cross-provider must not bypass untried authorized routes") and give up only
\* when none is left.
WalkInOrder == Walk => \A d \in Delivery :
    LET e == exec[d]
        Settled(r) == Called(d, r) \/ e.view[r] = "QUARANTINED"
    IN  /\ \A a \in started, r \in setting.authority :
               a.by = d /\ e.pc \in Running /\ a.route # Initial /\ Order[r] < Order[a.route]
               => Settled(r)
        /\ e.pc = "stopping" /\ e.reason = "POLICY_DENIED" /\ e.attempts > 0
           => \A r \in setting.authority : Settled(r)

\* What WalkInOrder rests on: TASK_CANDIDATES names at most four routes, those of
\* one provider before those of the other (the initial route aside), and a walk
\* may change model twice and provider once.
RoutesInReach ==
    LET home == { r \in Route : Provider[r] = Provider[Initial] }
        away == Route \ home
    IN  /\ IsFiniteSet(Route) /\ Cardinality(Route) <= 4 /\ Cardinality(home) <= 3
        /\ \A r, q \in away : Provider[r] = Provider[q]
        /\ \A r \in home \ {Initial}, q \in away : Order[r] < Order[q]

\* execute_scope ends, whatever the providers do.
Concludes == \A d \in Delivery : exec[d].pc # "idle" ~> exec[d].pc \in Ended
=============================================================================
