------------------------ MODULE AdaptiveRecovery_proofs ------------------------
(***************************************************************************)
(* Proofs about AdaptiveRecovery, for every set of deliveries, scopes and  *)
(* routes: one delivery of a scope makes all its calls, they stay within   *)
(* the budget and the numbers that the evidence can hold, the policy       *)
(* allows what the supervisor proposes, no route is certified without an   *)
(* answer of its own model, and a walk whose switches reach every route    *)
(* takes them in their order.                                              *)
(***************************************************************************)
EXTENDS AdaptiveRecovery, FiniteSetTheorems, TLAPS

-----------------------------------------------------------------------------
(* The inductive invariant                                                 *)

HasEntered(d) == \E a \in started : a.by = d /\ a.number = 1 /\ ~a.check

\* Before its first call a delivery is at its initial route.
AtInitial == \A d \in Delivery :
    exec[d].pc \in {"idle", "entering"} =>
        ~exec[d].check /\ exec[d].current = Initial /\ exec[d].target = Initial

\* Whoever calls has entered its scope, and nobody else has.
Entries ==
    /\ \A a \in started : HasEntered(a.by)
    /\ \A a, b \in started :
           a.number = 1 /\ ~a.check /\ b.number = 1 /\ ~b.check
           /\ setting.scope[a.by] = setting.scope[b.by] => a.by = b.by
    /\ \A d \in Delivery :
           /\ exec[d].pc \in {"calling", "recorded", "deciding"} => HasEntered(d)
           /\ exec[d].pc = "starting" /\ (exec[d].check \/ Number(exec[d]) # 1) => HasEntered(d)

Engaged == {"starting", "calling", "recorded", "deciding"}

\* The counters respect the budget; on a walk each call but the first uses a
\* switch up, for its current route is exhausted.
Counters == \A d \in Delivery :
    /\ exec[d].attempts <= Budget.attempts /\ exec[d].checks <= Budget.checks
    /\ exec[d].models <= Budget.models /\ exec[d].providers <= Budget.providers
    /\ Walk => exec[d].calls <= 1 + exec[d].models + exec[d].providers
    /\ exec[d].pc \in Engaged =>
           exec[d].used[exec[d].current] + exec[d].probed[exec[d].current] >= 1

IInv == TypeOK /\ AtInitial /\ Entries /\ Counters

\* The two budgets, field by field.
LEMMA Budgets ==
    /\ Budget.same = 1
    /\ Walk => /\ Budget.attempts = 4 /\ Budget.models = 2 /\ Budget.providers = 1
               /\ Budget.checks = 3
    /\ ~Walk => /\ Budget.attempts = 3 /\ Budget.models = 1 /\ Budget.providers = 1
                /\ Budget.checks = 1
  BY DEF Budget

\* The locals of a delivery that has not begun, or is over, are well formed.
LEMMA FreshExecution ==
    /\ Fresh \in Execution
    /\ \A pc \in Ended : Over(pc) \in Execution
    /\ Fresh.pc = "idle" /\ ~Fresh.check /\ Fresh.current = Initial /\ Fresh.target = Initial
    /\ Fresh.attempts = 0 /\ Fresh.checks = 0 /\ Fresh.models = 0 /\ Fresh.providers = 0
    /\ Fresh.calls = 0
    /\ \A pc : /\ Over(pc).pc = pc
               /\ Over(pc).attempts = 0 /\ Over(pc).checks = 0 /\ Over(pc).models = 0
               /\ Over(pc).providers = 0 /\ Over(pc).calls = 0
  BY RecoveryAssumption DEF Fresh, Over, Execution, Capability, Reason, Running, Ended

\* Nothing has been called.
LEMMA InitIInv == Init => IInv
  <1> SUFFICES ASSUME Init PROVE IInv
    OBVIOUS
  <1>1. TypeOK
    BY RecoveryAssumption, FreshExecution DEF Init, TypeOK, Setting
  <1>2. AtInitial /\ Entries
    BY FreshExecution DEF Init, AtInitial, Entries
  <1>3. Counters
    BY FreshExecution, Budgets DEF Init, Counters, Engaged
  <1>4. QED
    BY <1>1, <1>2, <1>3 DEF IInv

\* What the supervisor proposes lies within the budget and the switches left.
LEMMA ProposalSound ==
    ASSUME NEW e \in Execution, NEW p \in Proposals(e)
    PROVE  /\ p.route \in Route \/ p.action = "FAIL_TASK"
           /\ p.action = "CAPABILITY_CHECK" =>
                  /\ e.checks < Budget.checks
                  /\ Available(e, p.route) /\ Reachable(e, p.route)
           /\ p.action \notin {"CAPABILITY_CHECK", "FAIL_TASK"} =>
                  /\ Available(e, p.route) /\ Reachable(e, p.route)
                  /\ p.action = Use(e, p.route).action
  <1>1. \A S \in SUBSET Route : \A r \in First(S) : r \in S /\ r \in Route
    BY DEF First
  <1>2. \A r : /\ Use(e, r).route = r
               /\ Use(e, r).action \in {"RETRY_SAME_ROUTE", "SWITCH_MODEL", "SWITCH_PROVIDER"}
               /\ Check(r).route = r /\ Check(r).action = "CAPABILITY_CHECK"
    BY DEF Use, Check
  <1>3. /\ Eligible(e) \subseteq Route /\ Checkable(e) \subseteq Route
        /\ \A r \in Eligible(e) \cup Checkable(e) : Available(e, r) /\ Reachable(e, r)
    BY DEF Eligible, Checkable
  <1> DEFINE checkable == IF e.checks < Budget.checks THEN Checkable(e) ELSE {}
  <1>4. \/ p = [route |-> e.current, action |-> "FAIL_TASK"]
        \/ \E r \in Eligible(e) : p = Use(e, r)
        \/ \E r \in checkable : p = Check(r)
    BY <1>1, <1>3 DEF Proposals
  <1>5. QED
    BY <1>2, <1>3, <1>4

\* A step leaves the setting alone, and changes the locals of its delivery to e.
Becomes(d, e) ==
    /\ UNCHANGED setting
    /\ exec' = [exec EXCEPT ![d] = e]
    /\ e \in Execution

\* A delivery that is stopping or over keeps the parts that speak of its locals.
LEMMA BecomesKeeps ==
    ASSUME IInv, NEW d \in Delivery, NEW e \in Execution, Becomes(d, e),
           e.pc \in {"idle", "entering"} =>
               ~e.check /\ e.current = Initial /\ e.target = Initial,
           e.attempts <= Budget.attempts, e.checks <= Budget.checks,
           e.models <= Budget.models, e.providers <= Budget.providers,
           Walk => e.calls <= 1 + e.models + e.providers,
           e.pc \in Engaged => e.used[e.current] + e.probed[e.current] >= 1
    PROVE  exec' \in [Delivery -> Execution] /\ AtInitial' /\ Counters'
  <1>1. exec' \in [Delivery -> Execution]
    BY DEF IInv, TypeOK, Becomes
  <1>2. exec'[d] = e /\ \A c \in Delivery \ {d} : exec'[c] = exec[c]
    BY DEF IInv, TypeOK, Becomes
  <1>3. AtInitial'
    BY <1>2 DEF IInv, AtInitial
  <1>4. Budget' = Budget /\ Walk' = Walk
    BY DEF Becomes, Budget, Walk
  <1>5. Counters'
    BY <1>2, <1>4 DEF IInv, Counters
  <1>6. QED
    BY <1>1, <1>3, <1>5

\* Who has entered has entered, when the records stay.
LEMMA EntriesKept ==
    ASSUME IInv, NEW d \in Delivery, NEW e \in Execution, Becomes(d, e), UNCHANGED started,
           e.pc \in {"calling", "recorded", "deciding"} => HasEntered(d),
           e.pc = "starting" /\ (e.check \/ Number(e) # 1) => HasEntered(d)
    PROVE  Entries'
  <1>1. exec'[d] = e /\ \A c \in Delivery \ {d} : exec'[c] = exec[c]
    BY DEF IInv, TypeOK, Becomes
  <1>2. /\ \A c : HasEntered(c)' <=> HasEntered(c)
        /\ \A c \in Delivery : c # d => Number(exec[c])' = Number(exec[c])
        /\ Number(exec[d])' = Number(e)
    BY <1>1 DEF Becomes, HasEntered, Number, Walk
  <1>3. QED
    BY <1>1, <1>2 DEF IInv, Entries, Becomes

\* Steps that write no record of a started call: all but Begin.
LEMMA LocalStep ==
    ASSUME IInv, NEW d \in Delivery, NEW e \in Execution, Becomes(d, e), UNCHANGED started,
           terminal' \subseteq [by : Delivery, reason : Reason],
           completed' \subseteq Completion, facts' \in [Route -> Capability],
           e.pc \in {"idle", "entering"} =>
               ~e.check /\ e.current = Initial /\ e.target = Initial,
           e.attempts <= Budget.attempts, e.checks <= Budget.checks,
           e.models <= Budget.models, e.providers <= Budget.providers,
           Walk => e.calls <= 1 + e.models + e.providers,
           e.pc \in Engaged => e.used[e.current] + e.probed[e.current] >= 1,
           e.pc \in {"calling", "recorded", "deciding"} => HasEntered(d),
           e.pc = "starting" /\ (e.check \/ Number(e) # 1) => HasEntered(d)
    PROVE  IInv'
  <1>1. exec' \in [Delivery -> Execution] /\ AtInitial' /\ Counters'
    BY BecomesKeeps
  <1>2. Entries'
    BY EntriesKept
  <1>3. TypeOK'
    BY <1>1 DEF IInv, TypeOK, Becomes
  <1>4. QED
    BY <1>1, <1>2, <1>3 DEF IInv

\* The first call's locals.
LEMMA EnteringTyped ==
    ASSUME NEW e \in Execution
    PROVE  LET f == [e EXCEPT !.pc = "starting", !.used = [e.used EXCEPT ![Initial] = 1],
                              !.attempts = 1, !.calls = 1]
           IN  f \in Execution /\ f.pc = "starting"
  <1>1. [e.used EXCEPT ![Initial] = 1] \in [Route -> Nat]
    BY DEF Execution
  <1>2. QED
    BY <1>1 DEF Execution, Running

\* The locals of a delivery that has read the evidence.
LEMMA ObservingTyped ==
    ASSUME NEW e \in Execution, NEW view \in [Route -> Capability]
    PROVE  LET f == [e EXCEPT !.pc = "entering", !.view = view]
           IN  f \in Execution /\ f.pc = "entering"
  BY DEF Execution, Running

\* A call has a number that its records can hold.
LEMMA AttemptTyped == ASSUME IInv, NEW d \in Delivery PROVE ThisAttempt(d) \in Attempt
  <1>1. exec[d] \in Execution
    BY DEF IInv, TypeOK
  <1>2. Number(exec[d]) \in 0..4
    BY <1>1, Budgets DEF IInv, Counters, Number, Execution
  <1>3. QED
    BY <1>1, <1>2 DEF ThisAttempt, Attempt, Execution

\* A completion keeps its types.
LEMMA CompleteTypes ==
    ASSUME IInv, NEW d \in Delivery, NEW outcome \in Outcome, Complete(d, outcome)
    PROVE  completed' \subseteq Completion /\ facts' \in [Route -> Capability]
  <1>2. ThisAttempt(d) \in Attempt
    BY AttemptTyped
  <1>3. completed' \subseteq Completion
    BY <1>2 DEF IInv, TypeOK, Complete, Completion
  <1>4. ThisAttempt(d).route \in Route
    BY <1>2 DEF Attempt
  <1>5. facts' \in [Route -> Capability]
    BY <1>4 DEF IInv, TypeOK, Complete, Learnt, Capability
  <1>6. QED
    BY <1>3, <1>5

\* A check that is proposed keeps to the budget.
LEMMA ProbeSound ==
    ASSUME NEW e \in Execution, NEW r \in Route, Reachable(e, r), Walk => Available(e, r),
           e.checks < Budget.checks, e.attempts <= Budget.attempts,
           e.models <= Budget.models, e.providers <= Budget.providers,
           Walk => e.calls <= 1 + e.models + e.providers,
           e.used[e.current] + e.probed[e.current] >= 1
    PROVE  LET f == Probe(e, r) IN
           /\ f \in Execution /\ f.pc = "starting"
           /\ f.attempts <= Budget.attempts /\ f.checks <= Budget.checks
           /\ f.models <= Budget.models /\ f.providers <= Budget.providers
           /\ Walk => f.calls <= 1 + f.models + f.providers
           /\ f.used[f.current] + f.probed[f.current] >= 1
  <1> DEFINE f == Probe(e, r)
  <1>N. /\ e.checks + 1 \in Nat /\ e.calls + 1 \in Nat /\ e.models + 1 \in Nat
        /\ e.providers + 1 \in Nat
    BY DEF Execution
  <1>1. CASE ~Walk
    <2>1. /\ f \in Execution /\ f.pc = "starting" /\ f.attempts = e.attempts
          /\ f.checks = e.checks + 1 /\ f.models = e.models /\ f.providers = e.providers
          /\ f.used = e.used /\ f.probed = e.probed /\ f.current = e.current
      BY <1>1, <1>N DEF Probe, Execution, Running
    <2>2. QED
      BY <1>1, <2>1, Budgets DEF Execution
  <1>2. CASE Walk
    <2>1. [e.probed EXCEPT ![r] = e.probed[r] + 1] \in [Route -> Nat]
      BY DEF Execution
    <2> DEFINE models == IF SameProvider(e, r) /\ r # e.current THEN e.models + 1 ELSE e.models
               providers == IF SameProvider(e, r) THEN e.providers ELSE e.providers + 1
               probed == [e.probed EXCEPT ![r] = e.probed[r] + 1]
    <2>2. /\ f \in Execution /\ f.pc = "starting" /\ f.attempts = e.attempts
          /\ f.checks = e.checks + 1 /\ f.calls = e.calls + 1
          /\ f.models = (IF SameProvider(e, r) /\ r # e.current THEN e.models + 1 ELSE e.models)
          /\ f.providers = (IF SameProvider(e, r) THEN e.providers ELSE e.providers + 1)
          /\ f.used = e.used /\ f.current = r
          /\ f.probed = [e.probed EXCEPT ![r] = e.probed[r] + 1]
      <3>1. /\ models \in Nat /\ providers \in Nat /\ probed \in [Route -> Nat]
            /\ e.checks + 1 \in Nat /\ e.calls + 1 \in Nat
        BY <1>N, <2>1 DEF Execution
      <3>2. f = [e EXCEPT !.pc = "starting", !.target = r, !.check = TRUE, !.calls = e.calls + 1,
                          !.checks = e.checks + 1, !.current = r, !.probed = probed,
                          !.models = models, !.providers = providers]
        BY <1>2 DEF Probe
      <3>3. f \in Execution
        <4> DEFINE g == [e EXCEPT !.pc = "starting", !.target = r, !.check = TRUE,
                                  !.calls = e.calls + 1, !.checks = e.checks + 1]
        <4> HIDE DEF f, models, providers, probed
        <4>1. g \in Execution
          BY <3>1 DEF Execution, Running
        <4>2. f = [g EXCEPT !.current = r, !.probed = probed, !.models = models,
                            !.providers = providers]
          BY <3>2
        <4> HIDE DEF g
        <4>3. QED
          BY <3>1, <4>1, <4>2 DEF Execution
      <3>4. /\ f.pc = "starting" /\ f.attempts = e.attempts
            /\ f.checks = e.checks + 1 /\ f.calls = e.calls + 1
            /\ f.models = models /\ f.providers = providers
            /\ f.used = e.used /\ f.current = r /\ f.probed = probed
        <4> HIDE DEF models, providers, probed
        <4>1. QED
          BY <3>2 DEF Execution
      <3>5. QED
        BY <3>3, <3>4
    <2>3. f.used[r] + f.probed[r] >= 1
      BY <2>2 DEF Execution
    <2>4. r # e.current
      BY <1>2, Budgets DEF Available, Exhausted
    <2>5. \/ SameProvider(e, r) /\ e.models < Budget.models
          \/ ~SameProvider(e, r) /\ e.providers < Budget.providers
      BY <2>4 DEF Reachable
    <2> HIDE DEF f
    <2>6. /\ f \in Execution /\ f.pc = "starting"
          /\ f.attempts <= Budget.attempts /\ f.checks <= Budget.checks
          /\ f.models <= Budget.models /\ f.providers <= Budget.providers
          /\ Walk => f.calls <= 1 + f.models + f.providers
          /\ f.used[f.current] + f.probed[f.current] >= 1
      BY <1>2, <2>2, <2>3, <2>4, <2>5, Budgets DEF Execution
    <2>7. QED
      BY <2>6 DEF f
  <1>3. QED
    BY <1>1, <1>2

\* So does an execution that is proposed.
LEMMA SwitchSound ==
    ASSUME NEW e \in Execution, NEW p, p.route \in Route, Reachable(e, p.route),
           Available(e, p.route), p.action = Use(e, p.route).action,
           e.attempts < Budget.attempts, e.checks <= Budget.checks,
           e.models <= Budget.models, e.providers <= Budget.providers,
           Walk => e.calls <= 1 + e.models + e.providers,
           e.used[e.current] + e.probed[e.current] >= 1
    PROVE  LET f == Switch(e, p) IN
           /\ f \in Execution /\ f.pc = "starting"
           /\ f.attempts <= Budget.attempts /\ f.checks <= Budget.checks
           /\ f.models <= Budget.models /\ f.providers <= Budget.providers
           /\ Walk => f.calls <= 1 + f.models + f.providers
           /\ f.used[f.current] + f.probed[f.current] >= 1
  <1> DEFINE f == Switch(e, p)
             r == p.route
  <1>1. /\ [e.used EXCEPT ![r] = e.used[r] + 1] \in [Route -> Nat]
        /\ e.attempts + 1 \in Nat /\ e.calls + 1 \in Nat /\ e.models + 1 \in Nat
        /\ e.providers + 1 \in Nat
    BY DEF Execution
  <1> DEFINE models == IF p.action = "SWITCH_MODEL" THEN e.models + 1 ELSE e.models
             providers == IF p.action = "SWITCH_PROVIDER" THEN e.providers + 1 ELSE e.providers
             used == [e.used EXCEPT ![r] = e.used[r] + 1]
  <1>2. /\ f \in Execution /\ f.pc = "starting" /\ f.attempts = e.attempts + 1
        /\ f.checks = e.checks /\ f.calls = e.calls + 1
        /\ f.models = (IF p.action = "SWITCH_MODEL" THEN e.models + 1 ELSE e.models)
        /\ f.providers = (IF p.action = "SWITCH_PROVIDER" THEN e.providers + 1 ELSE e.providers)
        /\ f.used = [e.used EXCEPT ![r] = e.used[r] + 1] /\ f.current = r /\ f.probed = e.probed
    <2> DEFINE g == [e EXCEPT !.pc = "starting", !.target = r, !.check = FALSE,
                              !.calls = e.calls + 1, !.attempts = e.attempts + 1]
    <2>1. g \in Execution
      BY <1>1 DEF Execution, Running
    <2>2. f = [g EXCEPT !.current = r, !.used = used, !.models = models,
                        !.providers = providers]
      BY DEF Switch
    <2>3. models \in Nat /\ providers \in Nat /\ used \in [Route -> Nat]
      BY <1>1 DEF Execution
    <2>4. /\ g.pc = "starting" /\ g.attempts = e.attempts + 1 /\ g.checks = e.checks
          /\ g.calls = e.calls + 1 /\ g.probed = e.probed
      BY DEF Execution
    <2> HIDE DEF f, g, models, providers, used
    <2>5. /\ f \in Execution /\ f.pc = g.pc /\ f.attempts = g.attempts /\ f.checks = g.checks
          /\ f.calls = g.calls /\ f.models = models /\ f.providers = providers
          /\ f.used = used /\ f.current = r /\ f.probed = g.probed
      BY <2>1, <2>2, <2>3 DEF Execution
    <2>6. QED
      BY <2>4, <2>5 DEF models, providers, used
  <1>3. f.used[r] + f.probed[r] >= 1
    BY <1>2 DEF Execution
  <1>4. Walk => r # e.current
    BY Budgets DEF Available, Exhausted
  <1>5. /\ p.action = "SWITCH_MODEL" <=> r # e.current /\ SameProvider(e, r)
        /\ p.action = "SWITCH_PROVIDER" <=> r # e.current /\ ~SameProvider(e, r)
    BY DEF Use
  <1>6. \/ r = e.current
        \/ SameProvider(e, r) /\ e.models < Budget.models
        \/ ~SameProvider(e, r) /\ e.providers < Budget.providers
    BY DEF Reachable
  <1> HIDE DEF f
  <1>7. /\ f \in Execution /\ f.pc = "starting"
        /\ f.attempts <= Budget.attempts /\ f.checks <= Budget.checks
        /\ f.models <= Budget.models /\ f.providers <= Budget.providers
        /\ Walk => f.calls <= 1 + f.models + f.providers
        /\ f.used[f.current] + f.probed[f.current] >= 1
    BY <1>2, <1>3, <1>4, <1>5, <1>6, Budgets DEF Execution
  <1>8. QED
    BY <1>7 DEF f

\* A failure's view and its classification have their types.
LEMMA FailTyped ==
    ASSUME NEW e \in Execution, NEW stage
    PROVE  ViewAfter(e, stage) \in [Route -> Capability] /\ Recoverable(stage) \in BOOLEAN
  <1>1. ViewAfter(e, stage) \in [Route -> Capability]
    BY DEF ViewAfter, Execution, Capability
  <1>2. Recoverable(stage) \in BOOLEAN
    BY DEF Recoverable
  <1>3. QED
    BY <1>1, <1>2

\* The next five lemmas: the locals after a step keep all that it does not name.
\* A valid answer.
LEMMA PassTyped ==
    ASSUME NEW e \in Execution, NEW b \in BOOLEAN
    PROVE  LET f == [e EXCEPT !.pc = "recorded", !.direct = b] IN
           /\ f \in Execution /\ f.pc = "recorded"
           /\ f.attempts = e.attempts /\ f.checks = e.checks
           /\ f.models = e.models /\ f.providers = e.providers
           /\ f.calls = e.calls /\ f.current = e.current
           /\ f.used = e.used /\ f.probed = e.probed
  BY DEF Execution, Running

\* A check that certified its route.
LEMMA ResumeTyped ==
    ASSUME NEW e \in Execution, NEW view \in [Route -> Capability]
    PROVE  LET f == [e EXCEPT !.pc = "deciding", !.view = view] IN
           /\ f \in Execution /\ f.pc = "deciding"
           /\ f.attempts = e.attempts /\ f.checks = e.checks
           /\ f.models = e.models /\ f.providers = e.providers
           /\ f.calls = e.calls /\ f.current = e.current
           /\ f.used = e.used /\ f.probed = e.probed
  BY DEF Execution, Running

\* What a failure says of the routes.
LEMMA AfterTyped ==
    ASSUME NEW e \in Execution, NEW view \in [Route -> Capability]
    PROVE  LET f == [e EXCEPT !.view = view] IN
           /\ f \in Execution
           /\ f.attempts = e.attempts /\ f.checks = e.checks
           /\ f.models = e.models /\ f.providers = e.providers
           /\ f.calls = e.calls /\ f.current = e.current
           /\ f.used = e.used /\ f.probed = e.probed
  BY DEF Execution

\* A failure that is weighed.
LEMMA HopeTyped ==
    ASSUME NEW e \in Execution, NEW hope \in BOOLEAN
    PROVE  LET f == [e EXCEPT !.pc = "deciding", !.recoverable = hope] IN
           /\ f \in Execution /\ f.pc = "deciding"
           /\ f.attempts = e.attempts /\ f.checks = e.checks
           /\ f.models = e.models /\ f.providers = e.providers
           /\ f.calls = e.calls /\ f.current = e.current
           /\ f.used = e.used /\ f.probed = e.probed
  BY DEF Execution, Running

\* A decision that was allowed or denied.
LEMMA DecidedTyped ==
    ASSUME NEW e \in Execution, NEW n \in Nat, NEW gate, gate = "ALLOW" \/ gate = "DENY"
    PROVE  LET f == [e EXCEPT !.decisions = n, !.gate = gate] IN
           /\ f \in Execution
           /\ f.attempts = e.attempts /\ f.checks = e.checks
           /\ f.models = e.models /\ f.providers = e.providers
           /\ f.calls = e.calls /\ f.current = e.current
           /\ f.used = e.used /\ f.probed = e.probed
  BY DEF Execution

\* Every step keeps the invariant.
LEMMA StepIInv == IInv /\ [Next]_vars => IInv'
  <1> SUFFICES ASSUME IInv, [Next]_vars PROVE IInv'
    OBVIOUS
  <1> USE DEF Engaged
  <1>T. /\ exec \in [Delivery -> Execution] /\ completed \subseteq Completion
        /\ facts \in [Route -> Capability] /\ terminal \subseteq [by : Delivery, reason : Reason]
    BY DEF IInv, TypeOK
  <1>C. \A d \in Delivery :
           /\ exec[d].attempts <= Budget.attempts /\ exec[d].checks <= Budget.checks
           /\ exec[d].models <= Budget.models /\ exec[d].providers <= Budget.providers
           /\ Walk => exec[d].calls <= 1 + exec[d].models + exec[d].providers
           /\ exec[d].pc \in {"starting", "calling", "recorded", "deciding"} =>
                  exec[d].used[exec[d].current] + exec[d].probed[exec[d].current] >= 1
    BY DEF IInv, Counters
  <1>E. \A d \in Delivery :
           /\ exec[d].pc \in {"calling", "recorded", "deciding"} => HasEntered(d)
           /\ exec[d].pc = "starting" /\ (exec[d].check \/ Number(exec[d]) # 1) => HasEntered(d)
    BY DEF IInv, Entries
  <1>S. ASSUME NEW e \in Execution, NEW r \in Reason
        PROVE  LET f == Stopping(e, r) IN
               /\ f \in Execution /\ f.pc = "stopping"
               /\ f.attempts = e.attempts /\ f.checks = e.checks
               /\ f.models = e.models /\ f.providers = e.providers
               /\ f.calls = e.calls
    BY DEF Stopping, Execution, Running
  <1>V. ASSUME NEW d \in Delivery, NEW pc \in Ended, UNCHANGED setting, UNCHANGED started,
               exec' = [exec EXCEPT ![d] = Over(pc)],
               terminal' \subseteq [by : Delivery, reason : Reason],
               completed' \subseteq Completion, facts' \in [Route -> Capability]
        PROVE  IInv'
    <2>1. Over(pc) \in Execution /\ pc \notin {"idle", "entering"} /\ pc \notin Engaged
      BY FreshExecution DEF Ended
    <2>2. Becomes(d, Over(pc))
      BY <1>V, <2>1 DEF Becomes
    <2>3. Over(pc).pc = pc
      BY FreshExecution
    <2>4. QED
      BY <1>V, <2>1, <2>2, <2>3, LocalStep, FreshExecution, Budgets
  <1>1. CASE UNCHANGED vars
    BY <1>1 DEF vars, evidence, IInv, TypeOK, AtInitial, Entries, HasEntered, Number, Counters,
       Budget, Walk
  <1>2. ASSUME NEW d \in Delivery, Observe(d) PROVE IInv'
    <2>1. CASE Initial \in setting.authority \/ Generated
      <3> DEFINE e == [exec[d] EXCEPT !.pc = "entering", !.view = facts]
      <3>1. e \in Execution /\ e.pc = "entering"
        BY <1>T, ObservingTyped
      <3>2. /\ e.attempts = exec[d].attempts /\ e.checks = exec[d].checks
            /\ e.models = exec[d].models /\ e.providers = exec[d].providers
            /\ e.calls = exec[d].calls /\ e.check = exec[d].check
            /\ e.current = exec[d].current /\ e.target = exec[d].target
        BY <1>T DEF Execution
      <3>3. exec[d].pc = "idle" /\ Becomes(d, e) /\ UNCHANGED <<evidence, facts>>
        BY <1>2, <2>1, <3>1 DEF Observe, Becomes
      <3>4. ~e.check /\ e.current = Initial /\ e.target = Initial
        BY <3>2, <3>3 DEF IInv, AtInitial
      <3> HIDE DEF e
      <3>5. QED
        BY <1>T, <1>C, <3>1, <3>2, <3>3, <3>4, LocalStep DEF evidence
    <2>2. CASE ~(Initial \in setting.authority \/ Generated)
      BY <1>2, <1>T, <1>V, <2>2 DEF Observe, evidence, Ended
    <2>3. QED
      BY <2>1, <2>2
  <1>3. ASSUME NEW d \in Delivery, NEW r \in Reason, exec[d].pc \in Running,
               UNCHANGED <<setting, evidence, facts>>,
               exec' = [exec EXCEPT ![d] = Stopping(exec[d], r)]
        PROVE  IInv'
    <2>1. Becomes(d, Stopping(exec[d], r))
      BY <1>3, <1>T, <1>S DEF Becomes
    <2>2. QED
      BY <1>3, <1>T, <1>C, <1>S, <2>1, LocalStep DEF evidence
  <1>4. ASSUME NEW d \in Delivery, Enter(d) PROVE IInv'
    <2>1. exec[d].pc = "entering" /\ UNCHANGED <<setting, evidence, facts>>
      BY <1>4 DEF Enter
    <2>2. CASE HasEvidence(setting.scope[d])
      BY <1>3, <1>4, <2>1, <2>2 DEF Enter, Reason, Running
    <2>3. CASE ~HasEvidence(setting.scope[d])
               /\ (Initial \notin setting.authority \/ exec[d].view[Initial] = "QUARANTINED")
      BY <1>3, <1>4, <2>1, <2>3 DEF Enter, Reason, Running
    <2>4. CASE ~HasEvidence(setting.scope[d])
               /\ ~(Initial \notin setting.authority \/ exec[d].view[Initial] = "QUARANTINED")
      <3> DEFINE e == [exec[d] EXCEPT !.pc = "starting",
                                      !.used = [exec[d].used EXCEPT ![Initial] = 1],
                                      !.attempts = 1, !.calls = 1]
      <3>1. e \in Execution /\ e.pc = "starting"
        BY <1>T, EnteringTyped
      <3>2. /\ e.attempts = 1 /\ e.calls = 1 /\ e.checks = exec[d].checks
            /\ e.models = exec[d].models /\ e.providers = exec[d].providers
            /\ e.check = exec[d].check /\ e.current = exec[d].current
            /\ e.used = [exec[d].used EXCEPT ![Initial] = 1] /\ e.probed = exec[d].probed
        BY <1>T DEF Execution
      <3>3. Becomes(d, e)
        BY <1>4, <2>4, <3>1 DEF Enter, Becomes
      <3>4. ~e.check /\ e.current = Initial
        BY <2>1, <3>2 DEF IInv, AtInitial
      <3>5. /\ e.used[Initial] = 1 /\ e.probed[Initial] \in Nat
            /\ e.models \in Nat /\ e.providers \in Nat
        BY <1>T, <3>2, RecoveryAssumption DEF Execution
      <3>6. Number(e) = 1
        BY <3>2, <3>4 DEF Number
      <3> HIDE DEF e
      <3>7. /\ e.attempts <= Budget.attempts /\ e.checks <= Budget.checks
            /\ e.models <= Budget.models /\ e.providers <= Budget.providers
            /\ Walk => e.calls <= 1 + e.models + e.providers
            /\ e.used[e.current] + e.probed[e.current] >= 1
        BY <1>C, <3>2, <3>4, <3>5, Budgets
      <3>8. QED
        BY <1>T, <2>1, <3>1, <3>3, <3>4, <3>6, <3>7, LocalStep DEF evidence
    <2>5. QED
      BY <2>2, <2>3, <2>4
  <1>5. ASSUME NEW d \in Delivery, Begin(d) PROVE IInv'
    <2>1. exec[d].pc = "starting" /\ UNCHANGED <<setting, completed, terminal, facts>>
      BY <1>5 DEF Begin
    <2>2. CASE exec[d].late
      BY <1>3, <1>5, <2>1, <2>2 DEF Begin, Reason, Running, evidence
    <2>3. CASE /\ ~exec[d].late
               /\ ThisAttempt(d).number = 1 /\ ~exec[d].check /\ Entered(setting.scope[d])
      BY <1>5, <1>T, <1>V, <2>1, <2>3 DEF Begin, Ended
    <2>4. CASE ~exec[d].late
               /\ ~(ThisAttempt(d).number = 1 /\ ~exec[d].check /\ Entered(setting.scope[d]))
      <3> DEFINE e == [exec[d] EXCEPT !.pc = "calling"]
                 a == ThisAttempt(d)
      <3>1. /\ e \in Execution /\ e.pc = "calling"
            /\ e.attempts = exec[d].attempts /\ e.checks = exec[d].checks
            /\ e.models = exec[d].models /\ e.providers = exec[d].providers
            /\ e.calls = exec[d].calls /\ e.current = exec[d].current
            /\ e.used = exec[d].used /\ e.probed = exec[d].probed
        BY ZenonT(40), <1>T DEF Execution, Running
      <3>2. Becomes(d, e) /\ started' = started \cup {a}
        BY <1>5, <1>T, <2>4, <3>1 DEF Begin, Becomes
      <3>3. exec' \in [Delivery -> Execution] /\ AtInitial' /\ Counters'
        BY <1>C, <2>1, <3>1, <3>2, BecomesKeeps
      <3>4. /\ a.by = d /\ a.number = Number(exec[d]) /\ a.check = exec[d].check
            /\ a \in Attempt
        BY AttemptTyped DEF ThisAttempt
      <3>5. TypeOK'
        BY <2>1, <3>2, <3>3, <3>4 DEF IInv, TypeOK
      <3>6. \A c : HasEntered(c) => HasEntered(c)'
        BY <3>2 DEF HasEntered
      <3>7. HasEntered(d)'
        <4>1. CASE a.number = 1 /\ ~a.check
          BY <3>2, <3>4, <4>1 DEF HasEntered
        <4>2. CASE ~(a.number = 1 /\ ~a.check)
          BY <1>E, <2>1, <3>4, <3>6, <4>2
        <4>3. QED
          BY <4>1, <4>2
      <3>8. \A b \in started : a.number = 1 /\ ~a.check /\ b.number = 1 /\ ~b.check
                => setting.scope[b.by] # setting.scope[d]
        BY <2>4, <3>4 DEF Entered
      <3>9. exec'[d] = e /\ \A c \in Delivery \ {d} : exec'[c] = exec[c]
        BY <1>T, <3>2 DEF Becomes
      <3>10. \A c \in Delivery \ {d} : Number(exec[c])' = Number(exec[c])
        BY <2>1, <3>9 DEF Number, Walk
      <3> HIDE DEF e, a
      <3>11. Entries'
        <4>1. \A b \in started' : HasEntered(b.by)'
          BY <3>2, <3>4, <3>6, <3>7 DEF IInv, Entries
        <4>2. \A b, c \in started' :
                  b.number = 1 /\ ~b.check /\ c.number = 1 /\ ~c.check
                  /\ setting.scope[b.by] = setting.scope[c.by] => b.by = c.by
          BY <3>2, <3>4, <3>8 DEF IInv, Entries
        <4>3. \A c \in Delivery :
                 /\ exec'[c].pc \in {"calling", "recorded", "deciding"} => HasEntered(c)'
                 /\ exec'[c].pc = "starting" /\ (exec'[c].check \/ Number(exec[c])' # 1)
                    => HasEntered(c)'
          BY <1>E, <3>1, <3>6, <3>7, <3>9, <3>10
        <4>4. QED
          BY <2>1, <4>1, <4>2, <4>3 DEF Entries
      <3>12. QED
        BY <3>3, <3>5, <3>11 DEF IInv
    <2>5. QED
      BY <2>2, <2>3, <2>4
  <1>6. ASSUME NEW d \in Delivery, NEW e \in Execution, exec[d].pc \in Engaged,
               HasEntered(d), UNCHANGED <<setting, started>>,
               terminal' \subseteq [by : Delivery, reason : Reason],
               completed' \subseteq Completion, facts' \in [Route -> Capability],
               exec' = [exec EXCEPT ![d] = e], e.pc \in Engaged \cup {"stopping"},
               e.attempts = exec[d].attempts, e.checks = exec[d].checks,
               e.models = exec[d].models, e.providers = exec[d].providers,
               e.calls = exec[d].calls, e.current = exec[d].current,
               e.used = exec[d].used, e.probed = exec[d].probed
        PROVE  IInv'
    <2>1. Becomes(d, e)
      BY <1>6 DEF Becomes
    <2>2. QED
      BY <1>6, <1>C, <2>1, LocalStep
  <1>7. ASSUME NEW d \in Delivery, Pass(d) PROVE IInv'
    <2>1. PICK outcome \in {"PASS", "SUBSTITUTED"} :
              /\ Complete(d, outcome)
              /\ exec' = [exec EXCEPT ![d].pc = "recorded", ![d].direct = (outcome = "PASS")]
      BY <1>7 DEF Pass
    <2>2. exec[d].pc = "calling" /\ UNCHANGED <<setting, started, terminal>>
      BY <2>1 DEF Complete
    <2>3. completed' \subseteq Completion /\ facts' \in [Route -> Capability]
      BY <2>1, CompleteTypes DEF Outcome
    <2> DEFINE b == (outcome = "PASS")
               e == [exec[d] EXCEPT !.pc = "recorded", !.direct = b]
    <2>b. b \in BOOLEAN
      OBVIOUS
    <2>5. exec' = [exec EXCEPT ![d] = e]
      BY <1>T, <2>1
    <2> HIDE DEF b
    <2>4. /\ e \in Execution /\ e.pc = "recorded"
          /\ e.attempts = exec[d].attempts /\ e.checks = exec[d].checks
          /\ e.models = exec[d].models /\ e.providers = exec[d].providers
          /\ e.calls = exec[d].calls /\ e.current = exec[d].current
          /\ e.used = exec[d].used /\ e.probed = exec[d].probed
      <3>1. exec[d] \in Execution
        BY <1>T
      <3>2. QED
        BY <2>b, <3>1, PassTyped
    <2>6. HasEntered(d)
      BY <1>E, <2>2
    <2> HIDE DEF e
    <2>7. QED
      BY <1>T, <1>6, <2>2, <2>3, <2>4, <2>5, <2>6
  <1>8. ASSUME NEW d \in Delivery, Resume(d) PROVE IInv'
    <2>1. exec[d].pc = "recorded" /\ UNCHANGED <<setting, evidence, facts>>
      BY <1>8 DEF Resume
    <2>2. CASE Certifies(exec[d])
      <3> DEFINE view == [exec[d].view EXCEPT ![exec[d].target] = "VERIFIED"]
                 e == [exec[d] EXCEPT !.pc = "deciding", !.view = view]
      <3>1. view \in [Route -> Capability]
        BY <1>T DEF Execution, Capability
      <3>3. exec' = [exec EXCEPT ![d] = e]
        BY <1>8, <2>2 DEF Resume
      <3> HIDE DEF view
      <3>2. /\ e \in Execution /\ e.pc = "deciding"
            /\ e.attempts = exec[d].attempts /\ e.checks = exec[d].checks
            /\ e.models = exec[d].models /\ e.providers = exec[d].providers
            /\ e.calls = exec[d].calls /\ e.current = exec[d].current
            /\ e.used = exec[d].used /\ e.probed = exec[d].probed
        <4>1. exec[d] \in Execution
          BY <1>T
        <4>2. QED
          BY <3>1, <4>1, ResumeTyped
      <3>4. HasEntered(d)
        BY <1>E, <2>1
      <3> HIDE DEF e
      <3>5. QED
        BY <1>T, <1>6, <2>1, <3>2, <3>3, <3>4 DEF evidence
    <2>3. CASE ~Certifies(exec[d])
      BY <1>8, <1>T, <1>V, <2>1, <2>3 DEF Resume, evidence, Ended
    <2>4. QED
      BY <2>2, <2>3
  <1>9. ASSUME NEW d \in Delivery, Fail(d) PROVE IInv'
    <2>1. PICK stage \in {"PROVIDER", "OUTPUT", "IDENTITY", "RUNTIME"} :
              LET e == exec[d]
                  after == [e EXCEPT !.view = ViewAfter(e, stage)]
              IN  /\ Complete(d, stage)
                  /\ exec' = [exec EXCEPT ![d] =
                         IF e.check /\ ~Recoverable(stage) THEN Stopping(after, "NONRECOVERABLE")
                         ELSE [after EXCEPT !.pc = "deciding",
                                            !.recoverable = Recoverable(stage)]]
      BY <1>9 DEF Fail
    <2>2. exec[d].pc = "calling" /\ UNCHANGED <<setting, started, terminal>>
      BY <2>1 DEF Complete
    <2>3. completed' \subseteq Completion /\ facts' \in [Route -> Capability]
      BY <2>1, CompleteTypes DEF Outcome
    <2>4. HasEntered(d)
      BY <1>E, <2>2
    <2> DEFINE view == ViewAfter(exec[d], stage)
               hope == Recoverable(stage)
               after == [exec[d] EXCEPT !.view = view]
               decides == [after EXCEPT !.pc = "deciding", !.recoverable = hope]
               stops == Stopping(after, "NONRECOVERABLE")
    <2>7. \E e \in {decides, stops} : exec' = [exec EXCEPT ![d] = e]
      BY <2>1
    <2>v. view \in [Route -> Capability] /\ hope \in BOOLEAN
      BY <1>T, FailTyped
    <2> HIDE DEF view, hope
    <2>5. /\ after \in Execution /\ decides \in Execution /\ decides.pc = "deciding"
          /\ \A x \in {after, decides} :
                 /\ x.checks = exec[d].checks /\ x.attempts = exec[d].attempts
                 /\ x.calls = exec[d].calls
                 /\ x.models = exec[d].models /\ x.providers = exec[d].providers
                 /\ x.current = exec[d].current
                 /\ x.used = exec[d].used /\ x.probed = exec[d].probed
      <3>1. exec[d] \in Execution
        BY <1>T
      <3>2. /\ after \in Execution /\ after.attempts = exec[d].attempts
            /\ after.checks = exec[d].checks /\ after.models = exec[d].models
            /\ after.providers = exec[d].providers /\ after.calls = exec[d].calls
            /\ after.current = exec[d].current /\ after.used = exec[d].used
            /\ after.probed = exec[d].probed
        BY <2>v, <3>1, AfterTyped
      <3> HIDE DEF after
      <3>3. /\ decides \in Execution /\ decides.pc = "deciding"
            /\ decides.attempts = after.attempts
            /\ decides.checks = after.checks /\ decides.models = after.models
            /\ decides.providers = after.providers /\ decides.calls = after.calls
            /\ decides.current = after.current /\ decides.used = after.used
            /\ decides.probed = after.probed
        <4>1. after \in Execution
          BY <3>2
        <4>2. QED
          BY <2>v, <4>1, HopeTyped, ZenonT(30)
      <3>4. QED
        BY <3>2, <3>3
    <2>6. stops \in Execution /\ stops.pc = "stopping" /\ stops.current = after.current
          /\ stops.attempts = after.attempts /\ stops.checks = after.checks
          /\ stops.models = after.models /\ stops.providers = after.providers
          /\ stops.calls = after.calls /\ stops.used = after.used /\ stops.probed = after.probed
      <3> HIDE DEF after
      <3>1. after \in Execution
        BY <2>5
      <3>2. QED
        BY <3>1 DEF Stopping, Execution, Running, Reason
    <2> HIDE DEF after, decides, stops
    <2>8. PICK e \in {decides, stops} : exec' = [exec EXCEPT ![d] = e]
      BY <2>7
    <2>9. /\ e \in Execution /\ e.pc \in {"deciding", "stopping"}
          /\ e.attempts = exec[d].attempts /\ e.checks = exec[d].checks
          /\ e.models = exec[d].models /\ e.providers = exec[d].providers
          /\ e.calls = exec[d].calls /\ e.current = exec[d].current
          /\ e.used = exec[d].used /\ e.probed = exec[d].probed
      BY <2>5, <2>6
    <2>10. QED
      BY <1>T, <1>6, <2>2, <2>3, <2>4, <2>8, <2>9
  <1>10. ASSUME NEW d \in Delivery, Timeout(d) PROVE IInv'
    <2>1. exec[d].pc = "calling" /\ UNCHANGED <<setting, started, terminal>>
      BY <1>10 DEF Timeout, Complete
    <2>2. completed' \subseteq Completion /\ facts' \in [Route -> Capability]
      BY <1>10, CompleteTypes DEF Timeout, Outcome
    <2> DEFINE late == [exec[d] EXCEPT !.late = TRUE]
               e == Stopping(late, "RECOVERY_BUDGET_EXHAUSTED")
    <2>3. /\ late \in Execution
          /\ late.attempts = exec[d].attempts /\ late.checks = exec[d].checks
          /\ late.models = exec[d].models /\ late.providers = exec[d].providers
          /\ late.calls = exec[d].calls /\ late.current = exec[d].current
          /\ late.used = exec[d].used /\ late.probed = exec[d].probed
      BY ZenonT(40), <1>T DEF Execution
    <2> HIDE DEF late
    <2>4. /\ e \in Execution /\ e.pc = "stopping"
          /\ e.attempts = exec[d].attempts /\ e.checks = exec[d].checks
          /\ e.models = exec[d].models /\ e.providers = exec[d].providers
          /\ e.calls = exec[d].calls /\ e.current = exec[d].current
          /\ e.used = exec[d].used /\ e.probed = exec[d].probed
      BY <2>3 DEF Stopping, Execution, Running, Reason
    <2>5. exec' = [exec EXCEPT ![d] = e] /\ HasEntered(d)
      BY <1>10, <1>E, <2>1 DEF Timeout, late
    <2> HIDE DEF e
    <2>6. QED
      BY <1>T, <1>6, <2>1, <2>2, <2>4, <2>5
  <1>11. ASSUME NEW d \in Delivery, Expire(d) PROVE IInv'
    <2> DEFINE e == [exec[d] EXCEPT !.late = TRUE]
    <2>1. /\ e \in Execution /\ e.pc = exec[d].pc /\ e.check = exec[d].check
          /\ e.attempts = exec[d].attempts /\ e.checks = exec[d].checks
          /\ e.models = exec[d].models /\ e.providers = exec[d].providers
          /\ e.calls = exec[d].calls /\ e.current = exec[d].current
          /\ e.used = exec[d].used /\ e.probed = exec[d].probed
      BY ZenonT(40), <1>T DEF Execution
    <2>2. exec' = [exec EXCEPT ![d] = e] /\ UNCHANGED <<setting, evidence, facts>>
          /\ exec[d].pc \in {"starting", "deciding"}
      BY <1>11, <1>T DEF Expire
    <2>3. Becomes(d, e)
      BY <2>1, <2>2 DEF Becomes
    <2>4. Number(e) = Number(exec[d])
      BY <2>1 DEF Number
    <2> HIDE DEF e
    <2>5. QED
      BY <1>T, <1>C, <1>E, <2>1, <2>2, <2>3, <2>4, LocalStep DEF evidence
  <1>12. ASSUME NEW d \in Delivery, GiveUp(d) PROVE IInv'
    BY <1>3, <1>12 DEF GiveUp, Obstacle, Reason, Running
  <1>13. ASSUME NEW d \in Delivery, Decide(d) PROVE IInv'
    <2>1. exec[d].pc = "deciding" /\ Obstacle(exec[d]) = "none"
          /\ UNCHANGED <<setting, evidence, facts>>
      BY <1>13 DEF Decide
    <2>2. exec[d].attempts < Budget.attempts /\ HasEntered(d)
      BY <1>T, <1>E, <2>1, Budgets DEF Obstacle, Execution
    <2>3. PICK p \in Proposals(exec[d]), gate \in {"ALLOW", "DENY"} :
              LET decided == [exec[d] EXCEPT !.decisions = exec[d].decisions + 1, !.gate = gate]
              IN  \/ exec' = [exec EXCEPT ![d] = Stopping(decided, "POLICY_DENIED")]
                  \/ /\ p.action = "CAPABILITY_CHECK"
                     /\ exec' = [exec EXCEPT ![d] = Probe(decided, p.route)]
                  \/ /\ p.action \notin {"CAPABILITY_CHECK", "FAIL_TASK"}
                     /\ exec' = [exec EXCEPT ![d] = Switch(decided, p)]
      BY <1>13 DEF Decide
    <2> DEFINE n == exec[d].decisions + 1
               decided == [exec[d] EXCEPT !.decisions = n, !.gate = gate]
    <2>n. n \in Nat
      BY <1>T DEF Execution
    <2> HIDE DEF n
    <2>4. /\ decided \in Execution
          /\ decided.checks = exec[d].checks /\ decided.attempts = exec[d].attempts
          /\ decided.calls = exec[d].calls
          /\ decided.models = exec[d].models /\ decided.providers = exec[d].providers
          /\ decided.current = exec[d].current
          /\ decided.used = exec[d].used /\ decided.probed = exec[d].probed
      <3>1. PICK e \in Execution : e = exec[d]
        BY <1>T
      <3>2. gate = "ALLOW" \/ gate = "DENY"
        OBVIOUS
      <3> DEFINE f == [e EXCEPT !.decisions = n, !.gate = gate]
      <3>3. /\ f \in Execution
            /\ f.attempts = e.attempts /\ f.checks = e.checks
            /\ f.models = e.models /\ f.providers = e.providers
            /\ f.calls = e.calls /\ f.current = e.current
            /\ f.used = e.used /\ f.probed = e.probed
        BY ZenonT(40), <2>n, <3>2, DecidedTyped
      <3>4. f = decided
        BY <3>1
      <3> HIDE DEF f, decided
      <3>5. QED
        BY <3>1, <3>3, <3>4
    <2>5. /\ p.action = "CAPABILITY_CHECK" =>
                 /\ p.route \in Route /\ exec[d].checks < Budget.checks
                 /\ Available(exec[d], p.route) /\ Reachable(exec[d], p.route)
          /\ p.action \notin {"CAPABILITY_CHECK", "FAIL_TASK"} =>
                 /\ p.route \in Route /\ Available(exec[d], p.route)
                 /\ Reachable(exec[d], p.route) /\ p.action = Use(exec[d], p.route).action
      BY <1>T, ProposalSound
    <2> HIDE DEF decided
    <2>6. \A r : /\ Available(decided, r) <=> Available(exec[d], r)
                 /\ Reachable(decided, r) <=> Reachable(exec[d], r)
                 /\ Use(decided, r).action = Use(exec[d], r).action
      BY <2>4 DEF Available, Exhausted, Reachable, SameProvider, Use
    <2>7. CASE exec' = [exec EXCEPT ![d] = Stopping(decided, "POLICY_DENIED")]
      <3>1. Becomes(d, Stopping(decided, "POLICY_DENIED"))
        BY <1>S, <2>1, <2>4, <2>7 DEF Becomes, Reason
      <3>2. QED
        BY <1>T, <1>C, <1>S, <2>1, <2>4, <3>1, LocalStep DEF evidence, Reason
    <2>8. CASE p.action = "CAPABILITY_CHECK"
               /\ exec' = [exec EXCEPT ![d] = Probe(decided, p.route)]
      <3> DEFINE e == Probe(decided, p.route)
      <3>1. /\ e \in Execution /\ e.pc = "starting"
            /\ e.attempts <= Budget.attempts /\ e.checks <= Budget.checks
            /\ e.models <= Budget.models /\ e.providers <= Budget.providers
            /\ Walk => e.calls <= 1 + e.models + e.providers
            /\ e.used[e.current] + e.probed[e.current] >= 1
        BY <1>C, <2>1, <2>4, <2>5, <2>6, <2>8, ProbeSound
      <3>2. Becomes(d, e)
        BY <2>1, <2>8, <3>1 DEF Becomes
      <3> HIDE DEF e
      <3>3. QED
        BY <1>T, <2>1, <2>2, <3>1, <3>2, LocalStep DEF evidence
    <2>9. CASE p.action \notin {"CAPABILITY_CHECK", "FAIL_TASK"}
               /\ exec' = [exec EXCEPT ![d] = Switch(decided, p)]
      <3> DEFINE e == Switch(decided, p)
      <3>1. /\ e \in Execution /\ e.pc = "starting"
            /\ e.attempts <= Budget.attempts /\ e.checks <= Budget.checks
            /\ e.models <= Budget.models /\ e.providers <= Budget.providers
            /\ Walk => e.calls <= 1 + e.models + e.providers
            /\ e.used[e.current] + e.probed[e.current] >= 1
        BY <1>C, <2>1, <2>2, <2>4, <2>5, <2>6, <2>9, SwitchSound
      <3>2. Becomes(d, e)
        BY <2>1, <2>9, <3>1 DEF Becomes
      <3> HIDE DEF e
      <3>3. QED
        BY <1>T, <2>1, <2>2, <3>1, <3>2, LocalStep DEF evidence
    <2>10. QED
      BY <2>3, <2>7, <2>8, <2>9 DEF decided, n
  <1>14. ASSUME NEW d \in Delivery, Stop(d) PROVE IInv'
    <2>1. terminal' \subseteq [by : Delivery, reason : Reason]
      BY <1>T, <1>14 DEF Stop, Execution
    <2>2. QED
      BY <1>T, <1>V, <1>14, <2>1 DEF Stop, Ended
  <1>15. ASSUME NEW d \in Delivery, Cancel(d) PROVE IInv'
    <2>1. completed' \subseteq Completion
      BY <1>T, <1>15, AttemptTyped DEF Cancel, Completion, Outcome
    <2>2. QED
      BY <1>T, <1>V, <1>15, <2>1 DEF Cancel, Ended
  <1>16. ASSUME NEW d \in Delivery, Crash(d) PROVE IInv'
    BY <1>T, <1>V, <1>16 DEF Crash, Ended, evidence
  <1>17. QED
    BY <1>1, <1>2, <1>4, <1>5, <1>7, <1>8, <1>9, <1>10, <1>11, <1>12, <1>13, <1>14, <1>15,
       <1>16 DEF Next

-----------------------------------------------------------------------------
(* What follows from it *)

\* IInv holds of every reachable state.
LEMMA Inductive == Spec => []IInv
  BY InitIInv, StepIInv, PTL DEF Spec

\* Types; the evidence refuses a number above 4, and execute_scope records none.
THEOREM TypeCorrect == Spec => []TypeOK
  <1>1. IInv => TypeOK
    BY DEF IInv
  <1>2. QED
    BY <1>1, Inductive, PTL

\* However often a scope is delivered, and by however many processes at once,
\* one delivery makes its calls.
THEOREM OneDeliveryCalls == Spec => []OneCaller
  <1>1. IInv => OneCaller
    BY DEF IInv, Entries, HasEntered, OneCaller
  <1>2. QED
    BY <1>1, Inductive, PTL

\* The policy allows what the supervisor proposes while the loop asks it.
LEMMA ProposalAllowed ==
    ASSUME NEW e \in Execution, Obstacle(e) = "none", NEW p \in Proposals(e)
    PROVE  Allowed(e, p)
  <1>1. e.recoverable /\ e.attempts < Budget.attempts /\ e.decisions < Budget.decisions
    BY Budgets DEF Obstacle, Budget, Execution
  <1>2. \A S \in SUBSET Route : \A r \in First(S) : r \in S /\ r \in Route
    BY DEF First
  <1>3. Eligible(e) \subseteq Route /\ Checkable(e) \subseteq Route
    BY DEF Eligible, Checkable
  <1> DEFINE checkable == IF e.checks < Budget.checks THEN Checkable(e) ELSE {}
  <1>4. \/ p = [route |-> e.current, action |-> "FAIL_TASK"]
        \/ \E r \in Eligible(e) : p = Use(e, r)
        \/ \E r \in checkable : p = Check(r)
    BY <1>2, <1>3 DEF Proposals
  <1>5. CASE p = [route |-> e.current, action |-> "FAIL_TASK"]
    BY <1>5 DEF Allowed
  <1>6. ASSUME NEW r \in Eligible(e), p = Use(e, r) PROVE Allowed(e, p)
    <2>1. Available(e, r) /\ Reachable(e, r)
      BY DEF Eligible
    <2>2. p.route = r /\ p.action = IF r = e.current THEN "RETRY_SAME_ROUTE"
                                    ELSE IF SameProvider(e, r) THEN "SWITCH_MODEL"
                                    ELSE "SWITCH_PROVIDER"
      BY <1>6 DEF Use
    <2>3. /\ r # e.current /\ SameProvider(e, r) => e.models < Budget.models
          /\ ~SameProvider(e, r) /\ r # e.current => e.providers < Budget.providers
          /\ r = e.current => SameProvider(e, r)
      BY <2>1 DEF Reachable, SameProvider
    <2>4. QED
      BY <1>1, <2>1, <2>2, <2>3 DEF Allowed
  <1>7. ASSUME NEW r \in checkable, p = Check(r) PROVE Allowed(e, p)
    <2>1. e.checks < Budget.checks /\ Available(e, r) /\ Reachable(e, r) /\ e.view[r] = "UNKNOWN"
      BY DEF Checkable
    <2>2. p.route = r /\ p.action = "CAPABILITY_CHECK"
      BY <1>7 DEF Check
    <2>3. QED
      BY <1>1, <2>1, <2>2 DEF Allowed
  <1>8. QED
    BY <1>4, <1>5, <1>6, <1>7

\* What passed under the model of route r itself, now or before.
Proven(r) ==
    \/ setting.prior[r] = "VERIFIED"
    \/ \E c \in completed : c.attempt.route = r /\ c.outcome = "PASS"

\* The parts of the locals that count calls.
Tallied(e) == <<e.used, e.probed, e.attempts, e.checks, e.target, e.check>>

\* A step of d that neither plans a call nor starts one.
Quiet(d) ==
    /\ UNCHANGED <<setting, started>>
    /\ completed \subseteq completed'
    /\ \A r \in Route : facts'[r] = "VERIFIED" => facts[r] = "VERIFIED" \/ Proven(r)'
    /\ \A c \in Delivery \ {d} : exec'[c] = exec[c]
    /\ exec'[d].gate \in {exec[d].gate, "ALLOW"}
    /\ \A r \in Route : exec'[d].view[r] = "VERIFIED" =>
           \/ exec[d].view[r] = "VERIFIED" \/ facts[r] = "VERIFIED"
           \/ exec[d].pc = "recorded" /\ exec[d].direct /\ r = exec[d].target
    /\ exec'[d].pc = "recorded" /\ exec'[d].direct =>
           \E c \in completed' : c.attempt.route = exec'[d].target /\ c.outcome = "PASS"
    /\ \/ exec'[d].pc \in Ended \cup {"stopping"}
       \/ exec[d].pc = "idle" /\ exec'[d].pc = "entering"
       \/ /\ exec[d].pc \in Engaged /\ exec'[d].pc \in Engaged
          /\ exec'[d].pc = "starting" => exec[d].pc = "starting"
          /\ Tallied(exec'[d]) = Tallied(exec[d])

\* A step of d that starts a call.
Begins(d) ==
    /\ UNCHANGED <<setting, completed, facts>>
    /\ started' = started \cup {ThisAttempt(d)}
    /\ \A c \in Delivery \ {d} : exec'[c] = exec[c]
    /\ exec[d].pc = "starting" /\ exec'[d].pc = "calling"
    /\ exec'[d].gate = exec[d].gate /\ exec'[d].view = exec[d].view
    /\ Tallied(exec'[d]) = Tallied(exec[d])

\* A step of d that plans one: the first, a check or another execution.
Plans(d) ==
    /\ UNCHANGED <<setting, evidence, facts>>
    /\ \A c \in Delivery \ {d} : exec'[c] = exec[c]
    /\ exec'[d].pc = "starting"
    /\ exec'[d].gate \in {exec[d].gate, "ALLOW"} /\ exec'[d].view = exec[d].view
    /\ exec'[d].target \in Route
    /\ LET e == exec[d]
           n == exec'[d]
       IN  \/ e.pc = "entering" /\ ~n.check /\ n.attempts = 1 /\ n.used[n.target] = 1
           \/ /\ e.pc = "deciding" /\ ~n.check
              /\ n.attempts = e.attempts + 1 /\ n.checks = e.checks
              /\ e.used[n.target] = 0 /\ n.probed = e.probed
              /\ n.used = [e.used EXCEPT ![n.target] = 1]
           \/ /\ e.pc = "deciding" /\ n.check
              /\ n.attempts = e.attempts /\ n.checks = e.checks + 1 /\ n.used = e.used
              /\ IF Walk THEN /\ e.probed[n.target] = 0
                              /\ n.probed = [e.probed EXCEPT ![n.target] = 1]
                 ELSE e.checks = 0

\* What every step leaves: the locals of d become e.
LEMMA Becoming ==
    ASSUME exec \in [Delivery -> Execution], NEW d \in Delivery, NEW e,
           exec' = [exec EXCEPT ![d] = e]
    PROVE  exec'[d] = e /\ \A c \in Delivery \ {d} : exec'[c] = exec[c]
  OBVIOUS

\* The evidence only grows, and tells of a route what passed on it.
Grows ==
    /\ completed \subseteq completed'
    /\ \A r \in Route : facts'[r] = "VERIFIED" => facts[r] = "VERIFIED" \/ Proven(r)'

\* Three ways for a step to be quiet: by what it makes of the locals, by ending
\* the delivery and by stopping it.
LEMMA QuietLocals ==
    ASSUME IInv, NEW d \in Delivery, NEW x \in Execution, x = exec[d], NEW e,
           exec' = [exec EXCEPT ![d] = e],
           UNCHANGED <<setting, started>>, Grows,
           e.gate \in {x.gate, "ALLOW"},
           \A r \in Route : e.view[r] = "VERIFIED" =>
               \/ x.view[r] = "VERIFIED" \/ facts[r] = "VERIFIED"
               \/ x.pc = "recorded" /\ x.direct /\ r = x.target,
           e.pc = "recorded" /\ e.direct =>
               \E c \in completed' : c.attempt.route = e.target /\ c.outcome = "PASS",
           \/ e.pc \in Ended \cup {"stopping"}
           \/ x.pc = "idle" /\ e.pc = "entering"
           \/ /\ x.pc \in Engaged /\ e.pc \in Engaged
              /\ e.pc = "starting" => x.pc = "starting"
              /\ Tallied(e) = Tallied(x)
    PROVE  Quiet(d)
  <1>1. exec'[d] = e /\ \A c \in Delivery \ {d} : exec'[c] = exec[c]
    BY Becoming DEF IInv, TypeOK
  <1>2. QED
    BY <1>1 DEF Quiet, Grows

\* The locals that are gone, and those of a delivery that stops.
LEMMA Gone ==
    \A pc \in Ended : /\ Over(pc).gate = "ALLOW" /\ Over(pc).pc = pc
                      /\ \A r \in Route : Over(pc).view[r] # "VERIFIED"
                      /\ pc # "recorded"
  BY DEF Over, Fresh, Ended

\* A delivery that stops keeps its gate and its view.
LEMMA Halting ==
    \A x \in Execution : \A r :
        /\ Stopping(x, r).gate = x.gate /\ Stopping(x, r).view = x.view
        /\ Stopping(x, r).pc = "stopping"
  BY DEF Stopping, Execution

\* A delivery that ends is quiet.
LEMMA QuietEnd ==
    ASSUME IInv, NEW d \in Delivery, NEW pc \in Ended,
           exec' = [exec EXCEPT ![d] = Over(pc)],
           UNCHANGED <<setting, started>>, Grows
    PROVE  Quiet(d)
  <1>1. exec'[d] = Over(pc) /\ \A c \in Delivery \ {d} : exec'[c] = exec[c]
    BY Becoming DEF IInv, TypeOK
  <1>2. QED
    BY <1>1, Gone DEF Quiet, Grows

\* So is one that stops.
LEMMA QuietHalt ==
    ASSUME IInv, NEW d \in Delivery, NEW y \in Execution, NEW r,
           exec' = [exec EXCEPT ![d] = Stopping(y, r)], y.gate = exec[d].gate,
           \A q \in Route : y.view[q] = "VERIFIED" => exec[d].view[q] = "VERIFIED",
           UNCHANGED <<setting, started>>, Grows
    PROVE  Quiet(d)
  <1>2. exec'[d] = Stopping(y, r) /\ \A c \in Delivery \ {d} : exec'[c] = exec[c]
    BY Becoming DEF IInv, TypeOK
  <1>3. QED
    BY <1>2, Halting DEF Quiet, Grows

\* Where nothing is written, nothing is lost.
LEMMA Silent == UNCHANGED <<completed, facts>> => Grows
  BY DEF Grows

\* A completion is evidence of its own route.
LEMMA CompleteGrows ==
    ASSUME IInv, NEW d \in Delivery, NEW outcome \in Outcome, Complete(d, outcome)
    PROVE  /\ exec[d].pc = "calling" /\ UNCHANGED <<setting, started>> /\ Grows
           /\ outcome = "PASS" =>
                  \E c \in completed' : c.attempt.route = exec[d].target /\ c.outcome = "PASS"
  <1> DEFINE a == ThisAttempt(d)
             c == [by |-> d, attempt |-> a, outcome |-> outcome]
  <1>1. /\ exec[d].pc = "calling" /\ UNCHANGED <<setting, started>>
        /\ completed' = completed \cup {c} /\ facts' = Learnt(facts, a, outcome)
    BY DEF Complete
  <1>2. a.route = exec[d].target
    BY DEF ThisAttempt
  <1>3. c.attempt = a /\ c.outcome = outcome
    OBVIOUS
  <1>4. facts \in [Route -> Capability]
    BY DEF IInv, TypeOK
  <1> HIDE DEF a, c
  <1>5. ASSUME NEW r \in Route, facts'[r] = "VERIFIED" PROVE facts[r] = "VERIFIED" \/ Proven(r)'
    <2>1. CASE outcome = "PASS" /\ r = a.route
      BY <1>1, <1>3, <2>1 DEF Proven
    <2>2. CASE ~(outcome = "PASS" /\ r = a.route)
      BY <1>1, <1>4, <1>5, <2>2 DEF Learnt
    <2>3. QED
      BY <2>1, <2>2
  <1>6. QED
    BY <1>1, <1>2, <1>3, <1>5 DEF Grows

\* Every step is quiet, plans a call or starts one.
LEMMA Kinds == IInv /\ [Next]_vars =>
    UNCHANGED vars \/ \E d \in Delivery : Quiet(d) \/ Plans(d) \/ Begins(d)
  <1> SUFFICES ASSUME IInv, NEW d \in Delivery,
                      \/ Observe(d) \/ Enter(d) \/ Begin(d) \/ Pass(d) \/ Resume(d) \/ Fail(d)
                      \/ Timeout(d) \/ Expire(d) \/ GiveUp(d) \/ Decide(d) \/ Stop(d)
                      \/ Cancel(d) \/ Crash(d)
               PROVE  Quiet(d) \/ Plans(d) \/ Begins(d)
    BY DEF Next
  <1>T. exec \in [Delivery -> Execution] /\ facts \in [Route -> Capability]
    BY DEF IInv, TypeOK
  <1>x. PICK x \in Execution : x = exec[d]
    BY <1>T
  <1>1. CASE Observe(d)
    <2>1. /\ x.pc = "idle" /\ UNCHANGED <<setting, evidence, facts>>
          /\ \/ exec' = [exec EXCEPT ![d] = [x EXCEPT !.pc = "entering", !.view = facts]]
             \/ exec' = [exec EXCEPT ![d] = Over("refused")]
      BY <1>1, <1>x DEF Observe
    <2>2. CASE exec' = [exec EXCEPT ![d] = Over("refused")]
      BY <2>1, <2>2, QuietEnd, Silent DEF evidence, Ended
    <2> DEFINE e == [x EXCEPT !.pc = "entering", !.view = facts]
    <2>3. e.pc = "entering" /\ e.view = facts /\ e.gate = x.gate
      BY DEF Execution
    <2>4. CASE exec' = [exec EXCEPT ![d] = e]
      <3> HIDE DEF e
      <3>1. QED
        BY <1>x, <2>1, <2>3, <2>4, QuietLocals, Silent DEF evidence
    <2>5. QED
      BY <2>1, <2>2, <2>4
  <1>2. CASE Enter(d)
    <2>1. x.pc = "entering" /\ UNCHANGED <<setting, evidence, facts>>
      BY <1>2, <1>x DEF Enter
    <2> DEFINE used == [x.used EXCEPT ![Initial] = 1]
               e == [x EXCEPT !.pc = "starting", !.used = used, !.attempts = 1, !.calls = 1]
    <2>2. \/ \E r : exec' = [exec EXCEPT ![d] = Stopping(x, r)]
          \/ exec' = [exec EXCEPT ![d] = e]
      BY <1>2, <1>x DEF Enter
    <2>3. ASSUME NEW r, exec' = [exec EXCEPT ![d] = Stopping(x, r)] PROVE Quiet(d)
      BY <1>x, <2>1, <2>3, QuietHalt, Silent DEF evidence
    <2>4. CASE exec' = [exec EXCEPT ![d] = e]
      <3>1. x.target = Initial /\ ~x.check
        BY <1>x, <2>1 DEF IInv, AtInitial
      <3>2. used[Initial] = 1
        BY RecoveryAssumption DEF Execution
      <3> HIDE DEF used
      <3>3. /\ e.pc = "starting" /\ e.gate = x.gate /\ e.view = x.view /\ e.target = x.target
            /\ e.check = x.check /\ e.attempts = 1 /\ e.used = used
        BY DEF Execution
      <3>4. exec'[d] = e /\ \A c \in Delivery \ {d} : exec'[c] = exec[c]
        BY <1>T, <2>4, Becoming
      <3> HIDE DEF e
      <3>5. QED
        BY <1>x, <2>1, <3>1, <3>2, <3>3, <3>4, RecoveryAssumption DEF Plans
    <2>5. QED
      BY <2>2, <2>3, <2>4
  <1>3. CASE Begin(d)
    <2>1. x.pc = "starting" /\ UNCHANGED <<setting, completed, terminal, facts>>
      BY <1>3, <1>x DEF Begin
    <2> DEFINE e == [x EXCEPT !.pc = "calling"]
    <2>2. \/ /\ exec' = [exec EXCEPT ![d] = Stopping(x, "RECOVERY_BUDGET_EXHAUSTED")]
             /\ UNCHANGED started
          \/ exec' = [exec EXCEPT ![d] = Over("refused")] /\ UNCHANGED started
          \/ /\ exec' = [exec EXCEPT ![d] = e]
             /\ started' = started \cup {ThisAttempt(d)}
      BY <1>3, <1>x, <1>T DEF Begin
    <2>3. CASE /\ exec' = [exec EXCEPT ![d] = Stopping(x, "RECOVERY_BUDGET_EXHAUSTED")]
               /\ UNCHANGED started
      BY <1>x, <2>1, <2>3, QuietHalt, Silent
    <2>4. CASE exec' = [exec EXCEPT ![d] = Over("refused")] /\ UNCHANGED started
      BY <2>1, <2>4, QuietEnd, Silent DEF Ended
    <2>5. CASE /\ exec' = [exec EXCEPT ![d] = e]
               /\ started' = started \cup {ThisAttempt(d)}
      <3>1. /\ e.pc = "calling" /\ e.gate = x.gate /\ e.view = x.view
            /\ Tallied(e) = Tallied(x)
        BY DEF Execution, Tallied
      <3>2. exec'[d] = e /\ \A c \in Delivery \ {d} : exec'[c] = exec[c]
        BY <1>T, <2>5, Becoming
      <3> HIDE DEF e
      <3>3. QED
        BY <1>x, <2>1, <2>5, <3>1, <3>2 DEF Begins
    <2>6. QED
      BY <2>2, <2>3, <2>4, <2>5
  <1>4. CASE Pass(d)
    <2>1. PICK outcome \in {"PASS", "SUBSTITUTED"} :
              /\ Complete(d, outcome)
              /\ exec' = [exec EXCEPT ![d].pc = "recorded", ![d].direct = (outcome = "PASS")]
      BY <1>4 DEF Pass
    <2> DEFINE b == (outcome = "PASS")
               e == [x EXCEPT !.pc = "recorded", !.direct = b]
    <2>2. exec' = [exec EXCEPT ![d] = e]
      BY <1>T, <1>x, <2>1
    <2>3. /\ x.pc = "calling" /\ UNCHANGED <<setting, started>> /\ Grows
          /\ b => \E c \in completed' : c.attempt.route = x.target /\ c.outcome = "PASS"
      BY <1>x, <2>1, CompleteGrows DEF Outcome
    <2> HIDE DEF b
    <2>4. /\ e.pc = "recorded" /\ e.direct = b /\ e.gate = x.gate /\ e.view = x.view
          /\ e.target = x.target /\ Tallied(e) = Tallied(x)
      BY DEF Execution, Tallied
    <2> HIDE DEF e
    <2>5. /\ x.pc \in Engaged /\ e.pc \in Engaged
          /\ e.pc = "starting" => x.pc = "starting"
      BY <2>3, <2>4 DEF Engaged
    <2>6. e.direct => \E c \in completed' : c.attempt.route = e.target /\ c.outcome = "PASS"
      BY <2>3, <2>4
    <2>7. exec'[d] = e /\ \A c \in Delivery \ {d} : exec'[c] = exec[c]
      BY <1>T, <2>2, Becoming
    <2>8. QED
      BY <1>x, <2>3, <2>4, <2>5, <2>6, <2>7 DEF Quiet, Grows
  <1>5. CASE Resume(d)
    <2> DEFINE view == [x.view EXCEPT ![x.target] = "VERIFIED"]
               e == [x EXCEPT !.pc = "deciding", !.view = view]
    <2>1. /\ x.pc = "recorded" /\ UNCHANGED <<setting, evidence, facts>>
          /\ \/ Certifies(x) /\ exec' = [exec EXCEPT ![d] = e]
             \/ exec' = [exec EXCEPT ![d] = Over("delivered")]
      BY <1>5, <1>x DEF Resume
    <2>2. CASE Certifies(x) /\ exec' = [exec EXCEPT ![d] = e]
      <3>1. \A r \in Route : view[r] = "VERIFIED" => x.view[r] = "VERIFIED" \/ r = x.target
        BY DEF Execution
      <3> HIDE DEF view
      <3>2. /\ e.pc = "deciding" /\ e.gate = x.gate /\ e.view = view
            /\ Tallied(e) = Tallied(x)
        BY DEF Execution, Tallied
      <3>3. x.direct
        BY <2>2 DEF Certifies
      <3> HIDE DEF e
      <3>4. /\ x.pc \in Engaged /\ e.pc \in Engaged
            /\ e.pc = "starting" => x.pc = "starting"
        BY <2>1, <3>2 DEF Engaged
      <3>5. UNCHANGED <<setting, started>> /\ Grows
        BY <2>1, Silent DEF evidence
      <3>6. exec'[d] = e /\ \A c \in Delivery \ {d} : exec'[c] = exec[c]
        BY <1>T, <2>2, Becoming
      <3>7. QED
        BY <1>x, <2>1, <3>1, <3>2, <3>3, <3>4, <3>5, <3>6 DEF Quiet, Grows
    <2>3. CASE exec' = [exec EXCEPT ![d] = Over("delivered")]
      BY <2>1, <2>3, QuietEnd, Silent DEF evidence, Ended
    <2>4. QED
      BY <2>1, <2>2, <2>3
  <1>6. CASE Fail(d)
    <2>1. PICK stage \in {"PROVIDER", "OUTPUT", "IDENTITY", "RUNTIME"} :
              LET after == [x EXCEPT !.view = ViewAfter(x, stage)]
              IN  /\ Complete(d, stage)
                  /\ \/ exec' = [exec EXCEPT ![d] = Stopping(after, "NONRECOVERABLE")]
                     \/ exec' = [exec EXCEPT ![d] =
                            [after EXCEPT !.pc = "deciding", !.recoverable = Recoverable(stage)]]
      BY <1>6, <1>x DEF Fail
    <2> DEFINE view == ViewAfter(x, stage)
               hope == Recoverable(stage)
               after == [x EXCEPT !.view = view]
               e == [after EXCEPT !.pc = "deciding", !.recoverable = hope]
    <2>2. x.pc = "calling" /\ UNCHANGED <<setting, started>> /\ Grows
      BY <1>x, <2>1, CompleteGrows DEF Outcome
    <2>3. /\ view \in [Route -> Capability]
          /\ \A r \in Route : view[r] = "VERIFIED" => x.view[r] = "VERIFIED"
      BY DEF ViewAfter, Execution, Capability
    <2>4. \/ exec' = [exec EXCEPT ![d] = Stopping(after, "NONRECOVERABLE")]
          \/ exec' = [exec EXCEPT ![d] = e]
      BY <2>1
    <2> HIDE DEF view, hope
    <2>5. /\ after \in Execution /\ after.gate = x.gate /\ after.view = view
          /\ Tallied(after) = Tallied(x)
      BY <2>3 DEF Execution, Tallied
    <2> HIDE DEF after
    <2>6. /\ e.pc = "deciding" /\ e.gate = x.gate /\ e.view = view
          /\ Tallied(e) = Tallied(x)
      BY <2>5 DEF Execution, Tallied
    <2> HIDE DEF e
    <2>7. CASE exec' = [exec EXCEPT ![d] = Stopping(after, "NONRECOVERABLE")]
      BY <1>x, <2>2, <2>3, <2>5, <2>7, QuietHalt
    <2>8. CASE exec' = [exec EXCEPT ![d] = e]
      BY <1>x, <2>2, <2>3, <2>6, <2>8, QuietLocals DEF Engaged
    <2>9. QED
      BY <2>4, <2>7, <2>8
  <1>7. CASE Timeout(d)
    <2> DEFINE late == [x EXCEPT !.late = TRUE]
    <2>1. /\ Complete(d, "DEADLINE")
          /\ exec' = [exec EXCEPT ![d] = Stopping(late, "RECOVERY_BUDGET_EXHAUSTED")]
      BY <1>7, <1>x DEF Timeout
    <2>2. UNCHANGED <<setting, started>> /\ Grows
      BY <2>1, CompleteGrows DEF Outcome
    <2>3. late \in Execution /\ late.gate = x.gate /\ late.view = x.view
      BY DEF Execution
    <2> HIDE DEF late
    <2>4. QED
      BY <1>x, <2>1, <2>2, <2>3, QuietHalt
  <1>8. CASE Expire(d)
    <2> DEFINE e == [x EXCEPT !.late = TRUE]
    <2>1. /\ x.pc \in {"starting", "deciding"} /\ UNCHANGED <<setting, evidence, facts>>
          /\ exec' = [exec EXCEPT ![d] = e]
      BY <1>8, <1>T, <1>x DEF Expire
    <2>2. /\ e.pc = x.pc /\ e.gate = x.gate /\ e.view = x.view
          /\ Tallied(e) = Tallied(x)
      BY DEF Execution, Tallied
    <2> HIDE DEF e
    <2>3. /\ x.pc \in Engaged /\ e.pc \in Engaged
          /\ e.pc = "starting" => x.pc = "starting"
      BY <2>1, <2>2 DEF Engaged
    <2>4. UNCHANGED <<setting, started>> /\ Grows
      BY <2>1, Silent DEF evidence
    <2>5. exec'[d] = e /\ \A c \in Delivery \ {d} : exec'[c] = exec[c]
      BY <1>T, <2>1, Becoming
    <2>6. QED
      BY <1>x, <2>1, <2>2, <2>3, <2>4, <2>5 DEF Quiet, Grows
  <1>9. CASE GiveUp(d)
    BY <1>9, <1>x, QuietHalt, Silent DEF GiveUp, evidence
  <1>10. CASE Stop(d)
    BY <1>10, QuietEnd, Silent DEF Stop, Ended
  <1>11. CASE Cancel(d)
    <2>1. completed \subseteq completed' /\ UNCHANGED facts
      BY <1>11 DEF Cancel
    <2>2. QED
      BY <1>11, <2>1, QuietEnd DEF Cancel, Ended, Grows
  <1>12. CASE Crash(d)
    BY <1>12, QuietEnd, Silent DEF Crash, Ended, evidence
  <1>13. CASE Decide(d)
    <2>1. x.pc = "deciding" /\ Obstacle(x) = "none" /\ UNCHANGED <<setting, evidence, facts>>
      BY <1>13, <1>x DEF Decide
    <2> DEFINE n == x.decisions + 1
               decided == [x EXCEPT !.decisions = n, !.gate = "ALLOW"]
    <2>2. PICK p \in Proposals(x) :
              \/ exec' = [exec EXCEPT ![d] = Stopping(decided, "POLICY_DENIED")]
              \/ /\ p.action = "CAPABILITY_CHECK"
                 /\ exec' = [exec EXCEPT ![d] = Probe(decided, p.route)]
              \/ /\ p.action \notin {"CAPABILITY_CHECK", "FAIL_TASK"}
                 /\ exec' = [exec EXCEPT ![d] = Switch(decided, p)]
      <3>1. \A p \in Proposals(x) : Allowed(x, p)
        BY <2>1, ProposalAllowed
      <3>2. QED
        BY <1>13, <1>x, <3>1 DEF Decide
    <2>3. n \in Nat
      BY DEF Execution
    <2> HIDE DEF n
    <2>4. /\ decided \in Execution /\ decided.gate = "ALLOW" /\ decided.view = x.view
          /\ Tallied(decided) = Tallied(x) /\ decided.current = x.current
          /\ decided.models = x.models /\ decided.providers = x.providers
      BY <2>3 DEF Execution, Tallied
    <2> HIDE DEF decided
    <2>5. /\ decided.used = x.used /\ decided.probed = x.probed
          /\ decided.attempts = x.attempts /\ decided.checks = x.checks
      BY <2>4 DEF Tallied
    <2>6. /\ p.action = "CAPABILITY_CHECK" =>
                 p.route \in Route /\ x.checks < Budget.checks /\ Available(x, p.route)
          /\ p.action \notin {"CAPABILITY_CHECK", "FAIL_TASK"} =>
                 p.route \in Route /\ Available(x, p.route)
      BY ProposalSound
    <2>7. \A r \in Route : Available(x, r) => x.used[r] = 0 /\ (Walk => x.probed[r] = 0)
      BY Budgets DEF Available, Exhausted, Execution
    <2>8. CASE exec' = [exec EXCEPT ![d] = Stopping(decided, "POLICY_DENIED")]
      <3>1. exec'[d] = Stopping(decided, "POLICY_DENIED")
            /\ \A c \in Delivery \ {d} : exec'[c] = exec[c]
        BY <1>T, <2>8, Becoming
      <3>2. QED
        BY <1>x, <2>1, <2>4, <3>1, Halting, Silent DEF Quiet, Grows, evidence
    <2>9. CASE p.action = "CAPABILITY_CHECK"
               /\ exec' = [exec EXCEPT ![d] = Probe(decided, p.route)]
      <3> DEFINE e == Probe(decided, p.route)
      <3>1. exec'[d] = e /\ \A c \in Delivery \ {d} : exec'[c] = exec[c]
        BY <1>T, <2>9, Becoming
      <3>2. /\ e.pc = "starting" /\ e.gate = decided.gate /\ e.view = decided.view
            /\ e.target = p.route /\ e.check
            /\ e.attempts = decided.attempts /\ e.checks = decided.checks + 1
            /\ e.used = decided.used
            /\ Walk => e.probed =
                   [decided.probed EXCEPT ![p.route] = decided.probed[p.route] + 1]
        BY <2>4 DEF Probe, Execution
      <3> HIDE DEF e
      <3>3. ~Walk => x.checks = 0
        BY <2>6, <2>9, Budgets DEF Execution
      <3>4. Walk => x.probed[p.route] = 0 /\ e.probed = [x.probed EXCEPT ![p.route] = 1]
        BY <2>5, <2>6, <2>7, <2>9, <3>2
      <3>5. QED
        BY <1>x, <2>1, <2>4, <2>5, <2>6, <2>9, <3>1, <3>2, <3>3, <3>4 DEF Plans
    <2>10. CASE p.action \notin {"CAPABILITY_CHECK", "FAIL_TASK"}
                /\ exec' = [exec EXCEPT ![d] = Switch(decided, p)]
      <3> DEFINE e == Switch(decided, p)
      <3>1. exec'[d] = e /\ \A c \in Delivery \ {d} : exec'[c] = exec[c]
        BY <1>T, <2>10, Becoming
      <3>2. /\ e.pc = "starting" /\ e.gate = decided.gate /\ e.view = decided.view
            /\ e.target = p.route /\ ~e.check
            /\ e.attempts = decided.attempts + 1 /\ e.checks = decided.checks
            /\ e.probed = decided.probed
            /\ e.used = [decided.used EXCEPT ![p.route] = decided.used[p.route] + 1]
        BY <2>4 DEF Switch, Execution
      <3> HIDE DEF e
      <3>3. x.used[p.route] = 0 /\ e.used = [x.used EXCEPT ![p.route] = 1]
        BY <2>5, <2>6, <2>7, <2>10, <3>2
      <3>4. QED
        BY <1>x, <2>1, <2>4, <2>5, <2>6, <2>10, <3>1, <3>2, <3>3 DEF Plans
    <2>11. QED
      BY <2>2, <2>8, <2>9, <2>10
  <1>14. QED
    BY <1>1, <1>2, <1>3, <1>4, <1>5, <1>6, <1>7, <1>8, <1>9, <1>10, <1>11, <1>12, <1>13

\* No proposal is denied.
THEOREM PolicyAgrees == Spec => []ProposalsPass
  <1>1. Init => ProposalsPass
    BY DEF Init, Fresh, ProposalsPass
  <1>2. IInv /\ ProposalsPass /\ [Next]_vars => ProposalsPass'
    <2> SUFFICES ASSUME IInv, ProposalsPass, [Next]_vars PROVE ProposalsPass'
      OBVIOUS
    <2>1. CASE UNCHANGED vars
      BY <2>1 DEF vars, ProposalsPass
    <2>2. ASSUME NEW d \in Delivery, Quiet(d) \/ Plans(d) \/ Begins(d) PROVE ProposalsPass'
      BY <2>2 DEF Quiet, Plans, Begins, ProposalsPass
    <2>3. QED
      BY <2>1, <2>2, Kinds
  <1>3. QED
    BY <1>1, <1>2, Inductive, PTL DEF Spec

\* What passes for certified, of a delivery or of the evidence, was proven; a
\* passed check is evidence of its route before it is used.
Known ==
    /\ VerifiedByEvidence
    /\ \A r \in Route : facts[r] = "VERIFIED" => Proven(r)
    /\ \A d \in Delivery : exec[d].pc = "recorded" /\ exec[d].direct => Proven(exec[d].target)

\* A route passes for certified only if it was so before the tasks, or an answer
\* of its own model passed.
THEOREM CertificatesAreEarned == Spec => []VerifiedByEvidence
  <1>1. Init => Known
    BY DEF Init, Fresh, Known, VerifiedByEvidence, Proven
  <1>2. IInv /\ Known /\ [Next]_vars => Known'
    <2> SUFFICES ASSUME IInv, Known, [Next]_vars PROVE Known'
      OBVIOUS
    <2>1. CASE UNCHANGED vars
      BY <2>1 DEF vars, evidence, Known, VerifiedByEvidence, Proven
    <2>2. ASSUME NEW d \in Delivery, Quiet(d) PROVE Known'
      <3>1. \A r : Proven(r) => Proven(r)'
        BY <2>2 DEF Quiet, Proven
      <3>2. VerifiedByEvidence <=> \A c \in Delivery, r \in Route :
                                       exec[c].view[r] = "VERIFIED" => Proven(r)
        BY DEF VerifiedByEvidence, Proven
      <3>3. VerifiedByEvidence' <=> \A c \in Delivery, r \in Route :
                                        exec'[c].view[r] = "VERIFIED" => Proven(r)'
        BY DEF VerifiedByEvidence, Proven
      <3>4. VerifiedByEvidence'
        BY <2>2, <3>1, <3>2, <3>3 DEF Known, Quiet
      <3>5. exec'[d].pc = "recorded" /\ exec'[d].direct => Proven(exec[d].target)'
        BY <2>2 DEF Quiet, Proven
      <3>6. \A c \in Delivery \ {d} :
                exec'[c].pc = "recorded" /\ exec'[c].direct => Proven(exec[c].target)'
        BY <2>2, <3>1 DEF Known, Quiet, Proven
      <3>7. \A r \in Route : facts'[r] = "VERIFIED" => Proven(r)'
        BY <2>2, <3>1 DEF Known, Quiet
      <3>8. QED
        BY <3>4, <3>5, <3>6, <3>7 DEF Known
    <2>3. ASSUME NEW d \in Delivery, Plans(d) \/ Begins(d) PROVE Known'
      BY <2>3 DEF Plans, Begins, evidence, Known, VerifiedByEvidence, Proven
    <2>4. QED
      BY <2>1, <2>2, <2>3, Kinds
  <1>3. Known => VerifiedByEvidence
    BY DEF Known
  <1>4. QED
    BY <1>1, <1>2, <1>3, Inductive, PTL DEF Spec

-----------------------------------------------------------------------------
(* The budget of a scope                                                   *)

OwnCalls(d) == { a \in started : a.by = d /\ ~a.check }

OwnChecks(d) == { a \in started : a.by = d /\ a.check }

\* The records of a delivery against its counters: what it counts is recorded,
\* but for the call it is about to start, and no route is asked twice.
TallyOf(d) ==
    LET e == exec[d] IN
    /\ IsFiniteSet(OwnCalls(d)) /\ IsFiniteSet(OwnChecks(d))
    /\ Cardinality(OwnCalls(d)) <= Budget.attempts
    /\ Cardinality(OwnChecks(d)) <= Budget.checks
    /\ \A a, b \in OwnCalls(d) : a.route = b.route => a = b
    /\ \A a, b \in OwnChecks(d) : a.route = b.route => a = b
    /\ e.pc \in {"idle", "entering"} => OwnCalls(d) = {} /\ OwnChecks(d) = {}
    /\ e.pc \in Engaged =>
           /\ Cardinality(OwnCalls(d)) <= e.attempts
           /\ Cardinality(OwnChecks(d)) <= e.checks
           /\ \A a \in OwnCalls(d) : e.used[a.route] # 0
           /\ Walk => \A a \in OwnChecks(d) : e.probed[a.route] # 0
    /\ e.pc = "starting" /\ ~e.check =>
           /\ Cardinality(OwnCalls(d)) < e.attempts
           /\ e.used[e.target] # 0
           /\ \A a \in OwnCalls(d) : a.route # e.target
    /\ e.pc = "starting" /\ e.check =>
           /\ Cardinality(OwnChecks(d)) < e.checks
           /\ Walk => e.probed[e.target] # 0
           /\ \A a \in OwnChecks(d) : a.route # e.target

Tally == \A d \in Delivery : TallyOf(d)

\* A delivery is not disturbed by another one.
LEMMA TallyElsewhere ==
    ASSUME Tally, NEW d \in Delivery, NEW c \in Delivery \ {d}, UNCHANGED setting,
           exec'[c] = exec[c], UNCHANGED started \/ started' = started \cup {ThisAttempt(d)}
    PROVE  TallyOf(c)'
  <1>1. OwnCalls(c)' = OwnCalls(c) /\ OwnChecks(c)' = OwnChecks(c)
    BY DEF OwnCalls, OwnChecks, ThisAttempt
  <1>2. Budget' = Budget /\ Walk' = Walk
    BY DEF Budget, Walk
  <1>3. TallyOf(c)
    BY DEF Tally
  <1>4. QED
    BY <1>1, <1>2, <1>3 DEF TallyOf

\* Quiet steps keep the tally.
LEMMA TallyQuiet == ASSUME Tally, NEW d \in Delivery, Quiet(d) PROVE Tally'
  <1>1. OwnCalls(d)' = OwnCalls(d) /\ OwnChecks(d)' = OwnChecks(d)
    BY DEF OwnCalls, OwnChecks, Quiet
  <1>2. Budget' = Budget /\ Walk' = Walk
    BY DEF Budget, Walk, Quiet
  <1>3. TallyOf(d)
    BY DEF Tally
  <1>4. CASE exec'[d].pc \in Ended \cup {"stopping"}
    <2>1. exec'[d].pc \notin {"idle", "entering"} /\ exec'[d].pc \notin Engaged
          /\ exec'[d].pc # "starting"
      BY <1>4 DEF Ended, Engaged
    <2>2. TallyOf(d)'
      BY <1>1, <1>2, <1>3, <2>1 DEF TallyOf
    <2>3. QED
      BY <2>2, TallyElsewhere DEF Quiet, Tally
  <1>5. CASE exec[d].pc = "idle" /\ exec'[d].pc = "entering"
    <2>1. TallyOf(d)'
      BY <1>1, <1>2, <1>3, <1>5 DEF TallyOf, Engaged
    <2>2. QED
      BY <2>1, TallyElsewhere DEF Quiet, Tally
  <1>6. CASE /\ exec[d].pc \in Engaged /\ exec'[d].pc \in Engaged
             /\ exec'[d].pc = "starting" => exec[d].pc = "starting"
             /\ Tallied(exec'[d]) = Tallied(exec[d])
    <2>1. /\ exec'[d].used = exec[d].used /\ exec'[d].probed = exec[d].probed
          /\ exec'[d].attempts = exec[d].attempts /\ exec'[d].checks = exec[d].checks
          /\ exec'[d].target = exec[d].target /\ exec'[d].check = exec[d].check
      BY <1>6 DEF Tallied
    <2>2. exec'[d].pc \notin {"idle", "entering"}
      BY <1>6 DEF Engaged
    <2>3. TallyOf(d)'
      BY <1>1, <1>2, <1>3, <1>6, <2>1, <2>2 DEF TallyOf
    <2>4. QED
      BY <2>3, TallyElsewhere DEF Quiet, Tally
  <1>7. QED
    BY <1>4, <1>5, <1>6 DEF Quiet

\* So does planning a call: its route has not been asked.
LEMMA TallyPlans ==
    ASSUME IInv, IInv', Tally, NEW d \in Delivery, Plans(d)
    PROVE  Tally'
  <1>1. OwnCalls(d)' = OwnCalls(d) /\ OwnChecks(d)' = OwnChecks(d)
    BY DEF OwnCalls, OwnChecks, Plans, evidence
  <1>2. Budget' = Budget /\ Walk' = Walk
    BY DEF Budget, Walk, Plans
  <1>3. TallyOf(d)
    BY DEF Tally
  <1>e. PICK e \in Execution : e = exec[d]
    BY DEF IInv, TypeOK
  <1>n. PICK n \in Execution : n = exec'[d]
    BY DEF IInv, TypeOK
  <1>4. \A a \in OwnCalls(d) \cup OwnChecks(d) : a.route \in Route
    BY DEF IInv, TypeOK, OwnCalls, OwnChecks, Attempt
  <1>5. /\ IsFiniteSet(OwnCalls(d)) /\ Cardinality(OwnCalls(d)) \in Nat
        /\ IsFiniteSet(OwnChecks(d)) /\ Cardinality(OwnChecks(d)) \in Nat
    BY <1>3, FS_CardinalityType DEF TallyOf
  <1>6. n.pc = "starting" /\ n.pc \in Engaged /\ n.pc \notin {"idle", "entering"}
    BY <1>n DEF Plans, Engaged
  <1>7. CASE e.pc = "entering" /\ ~n.check /\ n.attempts = 1 /\ n.used[n.target] = 1
    <2>1. OwnCalls(d) = {} /\ OwnChecks(d) = {}
      BY <1>3, <1>7, <1>e DEF TallyOf
    <2>2. Cardinality(OwnCalls(d)) = 0 /\ Cardinality(OwnChecks(d)) = 0
      BY <2>1, FS_EmptySet
    <2>3. TallyOf(d)'
      BY <1>1, <1>2, <1>3, <1>n, <1>6, <1>7, <2>1, <2>2 DEF TallyOf, Execution
    <2>4. QED
      BY <2>3, TallyElsewhere DEF Plans, Tally, evidence
  <1>8. CASE /\ e.pc = "deciding" /\ ~n.check
             /\ n.attempts = e.attempts + 1 /\ n.checks = e.checks
             /\ e.used[n.target] = 0 /\ n.probed = e.probed
             /\ n.used = [e.used EXCEPT ![n.target] = 1]
    <2>1. /\ Cardinality(OwnCalls(d)) <= e.attempts
          /\ Cardinality(OwnChecks(d)) <= e.checks
          /\ \A a \in OwnCalls(d) : e.used[a.route] # 0
          /\ Walk => \A a \in OwnChecks(d) : e.probed[a.route] # 0
      BY <1>3, <1>8, <1>e DEF TallyOf, Engaged
    <2>2. Cardinality(OwnCalls(d)) < n.attempts /\ Cardinality(OwnCalls(d)) <= n.attempts
      BY <1>5, <1>8, <2>1 DEF Execution
    <2>3. \A a \in OwnCalls(d) : a.route # n.target /\ n.used[a.route] # 0
      BY <1>4, <1>8, <2>1 DEF Execution
    <2>4. n.used[n.target] # 0
      BY <1>8 DEF Execution
    <2>5. TallyOf(d)'
      BY <1>1, <1>2, <1>3, <1>n, <1>6, <1>8, <2>1, <2>2, <2>3, <2>4 DEF TallyOf
    <2>6. QED
      BY <2>5, TallyElsewhere DEF Plans, Tally, evidence
  <1>9. CASE /\ e.pc = "deciding" /\ n.check
             /\ n.attempts = e.attempts /\ n.checks = e.checks + 1 /\ n.used = e.used
             /\ IF Walk THEN /\ e.probed[n.target] = 0
                             /\ n.probed = [e.probed EXCEPT ![n.target] = 1]
                ELSE e.checks = 0
    <2>1. /\ Cardinality(OwnCalls(d)) <= e.attempts
          /\ Cardinality(OwnChecks(d)) <= e.checks
          /\ \A a \in OwnCalls(d) : e.used[a.route] # 0
          /\ Walk => \A a \in OwnChecks(d) : e.probed[a.route] # 0
      BY <1>3, <1>9, <1>e DEF TallyOf, Engaged
    <2>2. Cardinality(OwnChecks(d)) < n.checks /\ Cardinality(OwnChecks(d)) <= n.checks
      BY <1>5, <1>9, <2>1 DEF Execution
    <2>3. Walk => /\ n.probed[n.target] # 0
                  /\ \A a \in OwnChecks(d) : a.route # n.target /\ n.probed[a.route] # 0
      BY <1>4, <1>9, <2>1 DEF Execution
    <2>4. ~Walk => OwnChecks(d) = {}
      BY <1>5, <1>9, <2>1, FS_EmptySet
    <2>5. TallyOf(d)'
      BY <1>1, <1>2, <1>3, <1>n, <1>6, <1>9, <2>1, <2>2, <2>3, <2>4 DEF TallyOf
    <2>6. QED
      BY <2>5, TallyElsewhere DEF Plans, Tally, evidence
  <1>10. QED
    BY <1>e, <1>n, <1>7, <1>8, <1>9 DEF Plans

\* So does starting it: the counters had room for it.
LEMMA TallyBegins == ASSUME IInv, Tally, NEW d \in Delivery, Begins(d) PROVE Tally'
  <1>1. PICK e \in Execution : e = exec[d]
    BY DEF IInv, TypeOK
  <1>2. /\ exec'[d].used = e.used /\ exec'[d].probed = e.probed
        /\ exec'[d].attempts = e.attempts /\ exec'[d].checks = e.checks
        /\ exec'[d].pc = "calling" /\ e.pc = "starting"
    BY <1>1 DEF Begins, Tallied
  <1>3. Budget' = Budget /\ Walk' = Walk
    BY DEF Budget, Walk, Begins
  <1>4. TallyOf(d)
    BY DEF Tally
  <1> DEFINE a == ThisAttempt(d)
  <1>5. a.by = d /\ a.check = e.check /\ a.route = e.target /\ started' = started \cup {a}
    BY <1>1 DEF ThisAttempt, Begins
  <1> HIDE DEF a
  <1>6. /\ IsFiniteSet(OwnCalls(d)) /\ Cardinality(OwnCalls(d)) \in Nat
        /\ IsFiniteSet(OwnChecks(d)) /\ Cardinality(OwnChecks(d)) \in Nat
    BY <1>4, FS_CardinalityType DEF TallyOf
  <1>7. e.attempts <= Budget.attempts /\ e.checks <= Budget.checks
    BY <1>1 DEF IInv, Counters
  <1>8. e.pc \in Engaged /\ exec'[d].pc \in Engaged /\ exec'[d].pc # "starting"
        /\ exec'[d].pc \notin {"idle", "entering"}
    BY <1>2 DEF Engaged
  <1>9. CASE ~e.check
    <2>1. OwnCalls(d)' = OwnCalls(d) \cup {a} /\ OwnChecks(d)' = OwnChecks(d)
      BY <1>5, <1>9 DEF OwnCalls, OwnChecks
    <2>2. /\ Cardinality(OwnCalls(d)) < e.attempts /\ e.used[e.target] # 0
          /\ \A b \in OwnCalls(d) : b.route # e.target
      BY <1>1, <1>2, <1>4, <1>9 DEF TallyOf
    <2>3. /\ IsFiniteSet(OwnCalls(d) \cup {a})
          /\ Cardinality(OwnCalls(d) \cup {a}) <= Cardinality(OwnCalls(d)) + 1
      <3>1. /\ IsFiniteSet(OwnCalls(d) \cup {a})
            /\ Cardinality(OwnCalls(d) \cup {a}) =
                   IF a \in OwnCalls(d) THEN Cardinality(OwnCalls(d))
                   ELSE Cardinality(OwnCalls(d)) + 1
        BY <1>6, FS_AddElement
      <3>2. QED
        BY <1>6, <3>1
    <2>4. /\ Cardinality(OwnCalls(d) \cup {a}) \in Nat
      BY <2>3, FS_CardinalityType
    <2>5. /\ Cardinality(OwnCalls(d) \cup {a}) <= e.attempts
          /\ Cardinality(OwnCalls(d) \cup {a}) <= Budget.attempts
      BY <1>6, <1>7, <2>2, <2>3, <2>4, Budgets DEF Execution
    <2>6. TallyOf(d)'
      BY <1>1, <1>2, <1>3, <1>4, <1>5, <1>8, <2>1, <2>2, <2>3, <2>5 DEF TallyOf
    <2>7. QED
      BY <2>6, TallyElsewhere DEF Begins, Tally
  <1>10. CASE e.check
    <2>1. OwnChecks(d)' = OwnChecks(d) \cup {a} /\ OwnCalls(d)' = OwnCalls(d)
      BY <1>5, <1>10 DEF OwnCalls, OwnChecks
    <2>2. /\ Cardinality(OwnChecks(d)) < e.checks /\ (Walk => e.probed[e.target] # 0)
          /\ \A b \in OwnChecks(d) : b.route # e.target
      BY <1>1, <1>2, <1>4, <1>10 DEF TallyOf
    <2>3. /\ IsFiniteSet(OwnChecks(d) \cup {a})
          /\ Cardinality(OwnChecks(d) \cup {a}) <= Cardinality(OwnChecks(d)) + 1
      <3>1. /\ IsFiniteSet(OwnChecks(d) \cup {a})
            /\ Cardinality(OwnChecks(d) \cup {a}) =
                   IF a \in OwnChecks(d) THEN Cardinality(OwnChecks(d))
                   ELSE Cardinality(OwnChecks(d)) + 1
        BY <1>6, FS_AddElement
      <3>2. QED
        BY <1>6, <3>1
    <2>4. /\ Cardinality(OwnChecks(d) \cup {a}) \in Nat
      BY <2>3, FS_CardinalityType
    <2>5. /\ Cardinality(OwnChecks(d) \cup {a}) <= e.checks
          /\ Cardinality(OwnChecks(d) \cup {a}) <= Budget.checks
      BY <1>6, <1>7, <2>2, <2>3, <2>4, Budgets DEF Execution
    <2>6. TallyOf(d)'
      BY <1>1, <1>2, <1>3, <1>4, <1>5, <1>8, <2>1, <2>2, <2>3, <2>5 DEF TallyOf
    <2>7. QED
      BY <2>6, TallyElsewhere DEF Begins, Tally
  <1>11. QED
    BY <1>9, <1>10

\* However often a scope is delivered, it costs at most the executions and checks
\* of its budget, and no route is executed or checked twice for it.
THEOREM BudgetHolds == Spec => []WithinBudget
  <1>1. Init => Tally
    <2> SUFFICES ASSUME Init, NEW d \in Delivery PROVE TallyOf(d)
      BY DEF Tally
    <2>1. OwnCalls(d) = {} /\ OwnChecks(d) = {} /\ exec[d].pc = "idle"
      BY DEF Init, Fresh, OwnCalls, OwnChecks
    <2>2. QED
      BY <2>1, FS_EmptySet, Budgets DEF TallyOf, Engaged
  <1>2. IInv /\ Tally /\ [Next]_vars => Tally'
    <2> SUFFICES ASSUME IInv, Tally, [Next]_vars PROVE Tally'
      OBVIOUS
    <2>1. CASE UNCHANGED vars
      BY ZenonT(40), <2>1 DEF vars, evidence, Tally, TallyOf, OwnCalls, OwnChecks, Budget, Walk
    <2>2. IInv'
      BY StepIInv
    <2>3. QED
      BY <2>1, <2>2, Kinds, TallyQuiet, TallyPlans, TallyBegins
  <1>3. IInv /\ Tally => WithinBudget
    <2> SUFFICES ASSUME IInv, Tally, NEW s \in Scope
                 PROVE  /\ Cardinality(ExecutionsOf(s)) <= Budget.attempts
                        /\ Cardinality(ChecksOf(s)) <= Budget.checks
                        /\ \A a, b \in ExecutionsOf(s) : a.route = b.route => a = b
                        /\ \A a, b \in ChecksOf(s) : a.route = b.route => a = b
      BY DEF WithinBudget
    <2>1. OneCaller
      BY DEF IInv, Entries, HasEntered, OneCaller
    <2>2. CASE \A a \in started : setting.scope[a.by] # s
      <3>1. ExecutionsOf(s) = {} /\ ChecksOf(s) = {}
        BY <2>2 DEF ExecutionsOf, ChecksOf
      <3>2. QED
        BY <3>1, FS_EmptySet, Budgets
    <2>3. CASE \E x \in started : setting.scope[x.by] = s
      <3>1. PICK x \in started : setting.scope[x.by] = s
        BY <2>3
      <3>2. \A a \in started : setting.scope[a.by] = s <=> a.by = x.by
        BY <2>1, <3>1 DEF OneCaller
      <3>3. ExecutionsOf(s) = OwnCalls(x.by) /\ ChecksOf(s) = OwnChecks(x.by)
        BY <3>2 DEF ExecutionsOf, ChecksOf, OwnCalls, OwnChecks
      <3>4. x.by \in Delivery
        BY DEF IInv, TypeOK, Attempt
      <3>5. TallyOf(x.by)
        BY <3>4 DEF Tally
      <3>6. QED
        BY <3>3, <3>5 DEF TallyOf
    <2>4. QED
      BY <2>2, <2>3
  <1>4. QED
    BY <1>1, <1>2, <1>3, Inductive, PTL DEF Spec


-----------------------------------------------------------------------------
(* The order of a walk                                                     *)

\* The routes a delivery has asked, or is about to ask.
Tried(e) == { r \in Route : e.used[r] + e.probed[r] >= 1 }

Home == { r \in Route : Provider[r] = Provider[Initial] }

\* Each route but the first has cost a walk one switch and at most one check, and
\* once it has changed provider it stays there.
SwitchesSpent(e) ==
    LET n == Cardinality(Tried(e)) IN
    /\ e.models + e.providers <= n - 1 /\ e.checks <= n - 1
    /\ \/ e.providers = 0 /\ e.current \in Home /\ Tried(e) \subseteq Home
       \/ e.providers = 1 /\ e.current \notin Home

\* Nothing has been asked or counted.
Blank(e) ==
    /\ \A r \in Route : e.used[r] = 0 /\ e.probed[r] = 0
    /\ e.attempts = 0 /\ e.checks = 0 /\ e.models = 0 /\ e.providers = 0

\* A delivery under way: it has called what it tried, but for the call it is about
\* to make, and passed by a route only if that was quarantined.
Underway(d) ==
    LET e == exec[d] IN
    /\ Initial \in Tried(e) /\ e.current \in Tried(e) /\ e.target \in Tried(e)
    /\ \A r \in Tried(e) : Called(d, r) \/ (e.pc = "starting" /\ r = e.target)
    /\ \A r \in Route : Called(d, r) => r \in Tried(e)
    /\ \A r \in Tried(e) \ {Initial}, q \in setting.authority :
           Order[q] < Order[r] => q \in Tried(e) \/ e.view[q] = "QUARANTINED"
    /\ e.pc = "starting" =>
           \A r \in Tried(e) \ {Initial} : Order[r] <= Order[e.target]
    /\ SwitchesSpent(e)

\* What WalkInOrder says of one delivery.
Orderly(d) ==
    LET e == exec[d]
        Settled(r) == Called(d, r) \/ e.view[r] = "QUARANTINED"
    IN  /\ \A a \in started, r \in setting.authority :
               a.by = d /\ e.pc \in Running /\ a.route # Initial /\ Order[r] < Order[a.route]
               => Settled(r)
        /\ e.pc = "stopping" /\ e.reason = "POLICY_DENIED" /\ e.attempts > 0
           => \A r \in setting.authority : Settled(r)

Walking(d) ==
    /\ exec[d].pc \in {"idle", "entering"} => Blank(exec[d]) /\ \A r \in Route : ~Called(d, r)
    /\ exec[d].pc \in Engaged => Underway(d)
    /\ Orderly(d)

WalkInv == Walk => \A d \in Delivery : Walking(d)

\* The parts of the locals that say where a walk is.
Walked(e) ==
    <<e.used, e.probed, e.attempts, e.checks, e.models, e.providers, e.current, e.target>>

\* What d knows of the routes, but for the one it is calling.
KeepsView(d) == \A r \in Route :
    \/ exec'[d].view[r] = exec[d].view[r]
    \/ exec[d].pc = "calling" /\ r = exec[d].target

\* The routes the supervisor may choose from.
Options(e) == Eligible(e) \cup (IF e.checks < Budget.checks THEN Checkable(e) ELSE {})

\* A step of d on a walk that neither plans a call, nor starts one, nor stops.
Strolls(d) ==
    /\ UNCHANGED started
    /\ \/ exec'[d].pc \in Ended
       \/ /\ exec[d].pc = "idle" /\ exec'[d].pc = "entering"
          /\ Walked(exec'[d]) = Walked(exec[d])
       \/ /\ exec[d].pc \in Engaged /\ exec'[d].pc \in Engaged
          /\ exec'[d].pc = "starting" <=> exec[d].pc = "starting"
          /\ Walked(exec'[d]) = Walked(exec[d]) /\ KeepsView(d)

\* One that stops; the policy denies a delivery under way only without options.
Halts(d) ==
    /\ UNCHANGED started
    /\ exec[d].pc \in Engaged \cup {"entering"} /\ exec'[d].pc = "stopping"
    /\ KeepsView(d)
    /\ exec'[d].reason = "POLICY_DENIED" /\ exec'[d].attempts > 0 /\ exec[d].pc # "entering" =>
           exec[d].pc = "deciding" /\ Options(exec[d]) = {}
    /\ exec'[d].attempts = exec[d].attempts

\* One that plans the first call.
SetsOff(d) ==
    /\ UNCHANGED started
    /\ exec[d].pc = "entering" /\ exec'[d].pc = "starting"
    /\ exec'[d].used = [exec[d].used EXCEPT ![Initial] = 1]
    /\ exec'[d].probed = exec[d].probed
    /\ exec'[d].checks = exec[d].checks /\ exec'[d].models = exec[d].models
    /\ exec'[d].providers = exec[d].providers
    /\ exec'[d].current = Initial /\ exec'[d].target = Initial

\* One that chooses the route of the next, the first of its options.
Chooses(d) ==
    LET e == exec[d]
        n == exec'[d]
        r == n.target
    IN  /\ UNCHANGED started
        /\ e.pc = "deciding" /\ n.pc = "starting" /\ n.view = e.view
        /\ r \in First(Options(e)) /\ n.current = r
        /\ \/ n.used = [e.used EXCEPT ![r] = e.used[r] + 1] /\ n.probed = e.probed
           \/ n.probed = [e.probed EXCEPT ![r] = e.probed[r] + 1] /\ n.used = e.used
        /\ n.checks \in {e.checks, e.checks + 1}
        /\ IF SameProvider(e, r)
           THEN n.models = e.models + 1 /\ n.providers = e.providers
           ELSE n.models = e.models /\ n.providers = e.providers + 1

\* One that calls it.
Calls(d) ==
    /\ started' = started \cup {ThisAttempt(d)}
    /\ exec[d].pc = "starting" /\ exec'[d].pc = "calling"
    /\ exec'[d].view = exec[d].view /\ Walked(exec'[d]) = Walked(exec[d])

\* What another model answered, or a failure says, is about the route that was called.
LEMMA ViewAfterElsewhere ==
    ASSUME NEW e \in Execution, NEW stage
    PROVE  \A r \in Route : r # e.target => ViewAfter(e, stage)[r] = e.view[r]
  BY DEF ViewAfter, Execution

\* A proposal is the first of the options, or to give up for want of one.
LEMMA ProposedOptions ==
    ASSUME Walk, NEW e \in Execution, NEW p \in Proposals(e)
    PROVE  \/ p.action = "FAIL_TASK" /\ Options(e) = {}
           \/ /\ p.route \in First(Options(e))
              /\ \/ p.action = "CAPABILITY_CHECK"
                 \/ p.action = Use(e, p.route).action
  <1>1. CASE Options(e) = {}
    <2>1. p = [route |-> e.current, action |-> "FAIL_TASK"]
      BY <1>1 DEF Proposals, Options
    <2>2. QED
      BY <1>1, <2>1
  <1>2. CASE Options(e) # {}
    <2>1. \E r \in First(Options(e)) : p = Check(r) \/ p = Use(e, r)
      BY <1>2 DEF Proposals, Options
    <2>2. QED
      BY <2>1 DEF Check, Use
  <1>3. QED
    BY <1>1, <1>2

\* The locals after a choice.
LEMMA ProbeOnWalk ==
    ASSUME Walk, NEW e \in Execution, NEW r \in Route, r # e.current
    PROVE  LET n == Probe(e, r) IN
           /\ n.pc = "starting" /\ n.view = e.view /\ n.target = r /\ n.current = r
           /\ n.probed = [e.probed EXCEPT ![r] = e.probed[r] + 1] /\ n.used = e.used
           /\ n.checks = e.checks + 1
           /\ IF SameProvider(e, r)
              THEN n.models = e.models + 1 /\ n.providers = e.providers
              ELSE n.models = e.models /\ n.providers = e.providers + 1
  BY DEF Probe, Execution

LEMMA SwitchOnWalk ==
    ASSUME NEW e \in Execution, NEW p, p.route \in Route, p.route # e.current,
           p.action = Use(e, p.route).action
    PROVE  LET n == Switch(e, p)
               r == p.route
           IN
           /\ n.pc = "starting" /\ n.view = e.view /\ n.target = r /\ n.current = r
           /\ n.used = [e.used EXCEPT ![r] = e.used[r] + 1] /\ n.probed = e.probed
           /\ n.checks = e.checks
           /\ IF SameProvider(e, r)
              THEN n.models = e.models + 1 /\ n.providers = e.providers
              ELSE n.models = e.models /\ n.providers = e.providers + 1
  <1>1. p.action = IF SameProvider(e, p.route) THEN "SWITCH_MODEL" ELSE "SWITCH_PROVIDER"
    BY DEF Use
  <1>2. QED
    BY <1>1 DEF Switch, Execution

\* A walk that stops, after a call or between two.
LEMMA HaltsOn ==
    ASSUME IInv, NEW d \in Delivery, NEW y \in Execution, NEW r \in Reason,
           exec' = [exec EXCEPT ![d] = Stopping(y, r)], UNCHANGED started,
           exec[d].pc \in Engaged \cup {"entering"}, y.attempts = exec[d].attempts,
           \A q \in Route : \/ y.view[q] = exec[d].view[q]
                            \/ exec[d].pc = "calling" /\ q = exec[d].target,
           r = "POLICY_DENIED" =>
               exec[d].pc = "entering" \/ (exec[d].pc = "deciding" /\ Options(exec[d]) = {})
    PROVE  Halts(d)
  <1>1. exec'[d] = Stopping(y, r)
    BY Becoming DEF IInv, TypeOK
  <1>2. /\ Stopping(y, r).pc = "stopping" /\ Stopping(y, r).reason = r
        /\ Stopping(y, r).view = y.view /\ Stopping(y, r).attempts = y.attempts
    BY DEF Stopping, Execution
  <1>3. QED
    BY <1>1, <1>2 DEF Halts, KeepsView

\* One that is over.
LEMMA StrollsOff ==
    ASSUME IInv, NEW d \in Delivery, NEW pc \in Ended,
           exec' = [exec EXCEPT ![d] = Over(pc)], UNCHANGED started
    PROVE  Strolls(d)
  <1>1. exec'[d] = Over(pc)
    BY Becoming DEF IInv, TypeOK
  <1>2. QED
    BY <1>1, Gone DEF Strolls

\* One that goes on.
LEMMA StrollsOn ==
    ASSUME IInv, NEW d \in Delivery, NEW e,
           exec' = [exec EXCEPT ![d] = e], UNCHANGED started,
           exec[d].pc \in Engaged, e.pc \in Engaged, e.pc = "starting" <=> exec[d].pc = "starting",
           Walked(e) = Walked(exec[d]),
           \A q \in Route : \/ e.view[q] = exec[d].view[q]
                            \/ exec[d].pc = "calling" /\ q = exec[d].target
    PROVE  Strolls(d)
  <1>1. exec'[d] = e
    BY Becoming DEF IInv, TypeOK
  <1>2. QED
    BY <1>1 DEF Strolls, KeepsView

\* The steps of a walk.
LEMMA WalkSteps ==
    ASSUME IInv, Walk, NEW d \in Delivery,
           \/ Observe(d) \/ Enter(d) \/ Begin(d) \/ Pass(d) \/ Resume(d) \/ Fail(d)
           \/ Timeout(d) \/ Expire(d) \/ GiveUp(d) \/ Decide(d) \/ Stop(d)
           \/ Cancel(d) \/ Crash(d)
    PROVE  /\ UNCHANGED setting /\ \A c \in Delivery \ {d} : exec'[c] = exec[c]
           /\ Strolls(d) \/ Halts(d) \/ SetsOff(d) \/ Chooses(d) \/ Calls(d)
  <1>0. UNCHANGED setting /\ \A c \in Delivery \ {d} : exec'[c] = exec[c]
    <2>2. exec \in [Delivery -> Execution]
      BY DEF IInv, TypeOK
    <2>3. UNCHANGED setting
      BY DEF Observe, Enter, Begin, Pass, Resume, Fail, Timeout, Expire, GiveUp, Decide, Stop,
         Cancel, Crash, Complete
    <2>4. \E e : exec' = [exec EXCEPT ![d] = e]
      <3>1. CASE Observe(d) \/ Enter(d) \/ Resume(d) \/ GiveUp(d) \/ Stop(d) \/ Cancel(d) \/ Crash(d)
        BY <3>1 DEF Observe, Enter, Resume, GiveUp, Stop, Cancel, Crash
      <3>2. CASE Begin(d) \/ Expire(d) \/ Timeout(d)
        BY <2>2, <3>2 DEF Begin, Expire, Timeout
      <3>3. CASE Pass(d)
        BY <2>2, <3>3 DEF Pass
      <3>4. CASE Fail(d)
        BY <3>4 DEF Fail
      <3>5. CASE Decide(d)
        BY <3>5 DEF Decide
      <3>6. QED
        BY <3>1, <3>2, <3>3, <3>4, <3>5
    <2>5. QED
      BY <2>2, <2>3, <2>4
  <1>T. exec \in [Delivery -> Execution] /\ facts \in [Route -> Capability]
    BY DEF IInv, TypeOK
  <1>x. PICK x \in Execution : x = exec[d]
    BY <1>T
  <1>1. ASSUME Observe(d) PROVE Strolls(d)
    <2>1. /\ x.pc = "idle" /\ UNCHANGED started
          /\ \/ exec' = [exec EXCEPT ![d] = [x EXCEPT !.pc = "entering", !.view = facts]]
             \/ exec' = [exec EXCEPT ![d] = Over("refused")]
      BY <1>1, <1>x DEF Observe, evidence
    <2> DEFINE e == [x EXCEPT !.pc = "entering", !.view = facts]
    <2>2. e.pc = "entering" /\ Walked(e) = Walked(x)
      BY DEF Execution, Walked
    <2>3. CASE exec' = [exec EXCEPT ![d] = e]
      <3>1. exec'[d] = e
        BY <1>T, <2>3, Becoming
      <3> HIDE DEF e
      <3>2. QED
        BY <1>x, <2>1, <2>2, <3>1 DEF Strolls
    <2>4. QED
      BY <2>1, <2>3, StrollsOff DEF Ended
  <1>2. ASSUME Enter(d) PROVE Halts(d) \/ SetsOff(d)
    <2> DEFINE used == [x.used EXCEPT ![Initial] = 1]
               e == [x EXCEPT !.pc = "starting", !.used = used, !.attempts = 1, !.calls = 1]
    <2>1. /\ x.pc = "entering" /\ UNCHANGED started
          /\ \/ \E r \in Reason : exec' = [exec EXCEPT ![d] = Stopping(x, r)]
             \/ exec' = [exec EXCEPT ![d] = e]
      BY <1>2, <1>x DEF Enter, evidence, Reason
    <2>2. CASE \E r \in Reason : exec' = [exec EXCEPT ![d] = Stopping(x, r)]
      BY <1>x, <2>1, <2>2, HaltsOn
    <2>3. CASE exec' = [exec EXCEPT ![d] = e]
      <3>1. x.target = Initial /\ x.current = Initial
        BY <1>x, <2>1 DEF IInv, AtInitial
      <3> HIDE DEF used
      <3>2. /\ e.pc = "starting" /\ e.target = x.target /\ e.current = x.current
            /\ e.used = used /\ e.probed = x.probed /\ e.checks = x.checks
            /\ e.models = x.models /\ e.providers = x.providers
        BY DEF Execution
      <3>3. exec'[d] = e
        BY <1>T, <2>3, Becoming
      <3> HIDE DEF e
      <3>4. QED
        BY <1>x, <2>1, <3>1, <3>2, <3>3 DEF SetsOff, used
    <2>4. QED
      BY <2>1, <2>2, <2>3
  <1>3. ASSUME Begin(d) PROVE Strolls(d) \/ Halts(d) \/ Calls(d)
    <2> DEFINE e == [x EXCEPT !.pc = "calling"]
    <2>1. x.pc = "starting"
      BY <1>3, <1>x DEF Begin
    <2>2. \/ /\ exec' = [exec EXCEPT ![d] = Stopping(x, "RECOVERY_BUDGET_EXHAUSTED")]
             /\ UNCHANGED started
          \/ exec' = [exec EXCEPT ![d] = Over("refused")] /\ UNCHANGED started
          \/ /\ exec' = [exec EXCEPT ![d] = e]
             /\ started' = started \cup {ThisAttempt(d)}
      BY <1>3, <1>x, <1>T DEF Begin
    <2>3. CASE /\ exec' = [exec EXCEPT ![d] = Stopping(x, "RECOVERY_BUDGET_EXHAUSTED")]
               /\ UNCHANGED started
      BY <1>x, <2>1, <2>3, HaltsOn DEF Engaged, Reason
    <2>4. CASE exec' = [exec EXCEPT ![d] = Over("refused")] /\ UNCHANGED started
      BY <2>4, StrollsOff DEF Ended
    <2>5. CASE /\ exec' = [exec EXCEPT ![d] = e]
               /\ started' = started \cup {ThisAttempt(d)}
      <3>1. e.pc = "calling" /\ e.view = x.view /\ Walked(e) = Walked(x)
        BY DEF Execution, Walked
      <3>2. exec'[d] = e
        BY <1>T, <2>5, Becoming
      <3> HIDE DEF e
      <3>3. QED
        BY <1>x, <2>1, <2>5, <3>1, <3>2 DEF Calls
    <2>6. QED
      BY <2>2, <2>3, <2>4, <2>5
  <1>4. ASSUME Pass(d) PROVE Strolls(d)
    <2>1. PICK outcome \in {"PASS", "SUBSTITUTED"} :
              /\ Complete(d, outcome)
              /\ exec' = [exec EXCEPT ![d].pc = "recorded", ![d].direct = (outcome = "PASS")]
      BY <1>4 DEF Pass
    <2> DEFINE b == (outcome = "PASS")
               e == [x EXCEPT !.pc = "recorded", !.direct = b]
    <2>2. exec' = [exec EXCEPT ![d] = e]
      BY <1>T, <1>x, <2>1
    <2>3. x.pc = "calling" /\ UNCHANGED started
      BY <1>x, <2>1 DEF Complete
    <2> HIDE DEF b
    <2>4. e.pc = "recorded" /\ e.view = x.view /\ Walked(e) = Walked(x)
      BY DEF Execution, Walked
    <2> HIDE DEF e
    <2>5. QED
      BY <1>x, <2>2, <2>3, <2>4, StrollsOn DEF Engaged
  <1>5. ASSUME Resume(d) PROVE Strolls(d)
    <2>1. exec' = [exec EXCEPT ![d] = Over("delivered")] /\ UNCHANGED started
      BY <1>5 DEF Resume, Certifies, evidence
    <2>2. QED
      BY <2>1, StrollsOff DEF Ended
  <1>6. ASSUME Fail(d) PROVE Strolls(d) \/ Halts(d)
    <2>1. PICK stage \in {"PROVIDER", "OUTPUT", "IDENTITY", "RUNTIME"} :
              LET after == [x EXCEPT !.view = ViewAfter(x, stage)]
              IN  /\ Complete(d, stage)
                  /\ \/ exec' = [exec EXCEPT ![d] = Stopping(after, "NONRECOVERABLE")]
                     \/ exec' = [exec EXCEPT ![d] =
                            [after EXCEPT !.pc = "deciding", !.recoverable = Recoverable(stage)]]
      BY <1>6, <1>x DEF Fail
    <2> DEFINE view == ViewAfter(x, stage)
               hope == Recoverable(stage)
               after == [x EXCEPT !.view = view]
               e == [after EXCEPT !.pc = "deciding", !.recoverable = hope]
    <2>2. x.pc = "calling" /\ UNCHANGED started
      BY <1>x, <2>1 DEF Complete
    <2>3. /\ view \in [Route -> Capability]
          /\ \A r \in Route : r # x.target => view[r] = x.view[r]
      BY ViewAfterElsewhere DEF ViewAfter, Execution, Capability
    <2>4. \/ exec' = [exec EXCEPT ![d] = Stopping(after, "NONRECOVERABLE")]
          \/ exec' = [exec EXCEPT ![d] = e]
      BY <2>1
    <2> HIDE DEF view, hope
    <2>5. /\ after \in Execution /\ after.view = view /\ after.attempts = x.attempts
          /\ Walked(after) = Walked(x)
      BY <2>3 DEF Execution, Walked
    <2> HIDE DEF after
    <2>6. e.pc = "deciding" /\ e.view = view /\ Walked(e) = Walked(x)
      BY <2>5 DEF Execution, Walked
    <2> HIDE DEF e
    <2>7. CASE exec' = [exec EXCEPT ![d] = Stopping(after, "NONRECOVERABLE")]
      BY <1>x, <2>2, <2>3, <2>5, <2>7, HaltsOn DEF Engaged, Reason
    <2>8. CASE exec' = [exec EXCEPT ![d] = e]
      BY <1>x, <2>2, <2>3, <2>6, <2>8, StrollsOn DEF Engaged
    <2>9. QED
      BY <2>4, <2>7, <2>8
  <1>7. ASSUME Timeout(d) PROVE Halts(d)
    <2> DEFINE late == [x EXCEPT !.late = TRUE]
    <2>1. /\ x.pc = "calling" /\ UNCHANGED started
          /\ exec' = [exec EXCEPT ![d] = Stopping(late, "RECOVERY_BUDGET_EXHAUSTED")]
      BY <1>7, <1>x DEF Timeout, Complete
    <2>2. late \in Execution /\ late.view = x.view /\ late.attempts = x.attempts
      BY DEF Execution
    <2> HIDE DEF late
    <2>3. QED
      BY <1>x, <2>1, <2>2, HaltsOn DEF Engaged, Reason
  <1>8. ASSUME Expire(d) PROVE Strolls(d)
    <2> DEFINE e == [x EXCEPT !.late = TRUE]
    <2>1. /\ x.pc \in {"starting", "deciding"} /\ UNCHANGED started
          /\ exec' = [exec EXCEPT ![d] = e]
      BY <1>8, <1>T, <1>x DEF Expire, evidence
    <2>2. e.pc = x.pc /\ e.view = x.view /\ Walked(e) = Walked(x)
      BY DEF Execution, Walked
    <2> HIDE DEF e
    <2>3. QED
      BY <1>x, <2>1, <2>2, StrollsOn DEF Engaged
  <1>9. ASSUME GiveUp(d) PROVE Halts(d)
    <2>1. /\ x.pc = "deciding" /\ UNCHANGED started
          /\ exec' = [exec EXCEPT ![d] = Stopping(x, Obstacle(x))]
          /\ Obstacle(x) \in Reason
      BY <1>9, <1>x DEF GiveUp, evidence, Obstacle, Reason
    <2>2. Obstacle(x) = "POLICY_DENIED" => Options(x) = {}
      BY DEF Obstacle, Options
    <2>3. QED
      BY <1>x, <2>1, <2>2, HaltsOn DEF Engaged
  <1>10. ASSUME Stop(d) PROVE Strolls(d)
    BY <1>10, StrollsOff DEF Stop, Ended
  <1>11. ASSUME Cancel(d) PROVE Strolls(d)
    BY <1>11, StrollsOff DEF Cancel, Ended
  <1>12. ASSUME Crash(d) PROVE Strolls(d)
    BY <1>12, StrollsOff DEF Crash, Ended, evidence
  <1>13. ASSUME Decide(d) PROVE Halts(d) \/ Chooses(d)
    <2>1. x.pc = "deciding" /\ Obstacle(x) = "none" /\ UNCHANGED started
      BY <1>13, <1>x DEF Decide, evidence
    <2> DEFINE n == x.decisions + 1
               decided == [x EXCEPT !.decisions = n, !.gate = "ALLOW"]
    <2>2. PICK p \in Proposals(x) :
              \/ /\ p.action = "FAIL_TASK"
                 /\ exec' = [exec EXCEPT ![d] = Stopping(decided, "POLICY_DENIED")]
              \/ /\ p.action = "CAPABILITY_CHECK"
                 /\ exec' = [exec EXCEPT ![d] = Probe(decided, p.route)]
              \/ /\ p.action \notin {"CAPABILITY_CHECK", "FAIL_TASK"}
                 /\ exec' = [exec EXCEPT ![d] = Switch(decided, p)]
      <3>1. \A p \in Proposals(x) : Allowed(x, p)
        BY <2>1, ProposalAllowed
      <3>2. QED
        BY <1>13, <1>x, <3>1 DEF Decide
    <2>3. n \in Nat
      BY DEF Execution
    <2> HIDE DEF n
    <2>4. /\ decided \in Execution /\ decided.view = x.view /\ Walked(decided) = Walked(x)
      BY <2>3 DEF Execution, Walked
    <2> HIDE DEF decided
    <2>5. /\ decided.used = x.used /\ decided.probed = x.probed
          /\ decided.attempts = x.attempts /\ decided.checks = x.checks
          /\ decided.current = x.current
          /\ decided.models = x.models /\ decided.providers = x.providers
      BY <2>4 DEF Walked
    <2>6. /\ p.action # "FAIL_TASK" => p.route \in First(Options(x)) /\ p.route \in Route
          /\ p.action \notin {"CAPABILITY_CHECK", "FAIL_TASK"} =>
                 p.action = Use(x, p.route).action
          /\ p.action = "FAIL_TASK" => Options(x) = {}
      <3>1. Use(x, p.route).action # "FAIL_TASK"
        BY DEF Use
      <3>2. First(Options(x)) \subseteq Route
        BY DEF First, Options, Eligible, Checkable
      <3>3. QED
        BY <3>1, <3>2, ProposedOptions
    <2>7. p.route \in Route /\ p.action # "FAIL_TASK" => p.route # x.current
      <3>1. \A r \in Options(x) : Available(x, r)
        BY DEF Options, Eligible, Checkable
      <3>2. p.action # "FAIL_TASK" => Available(x, p.route)
        BY <2>6, <3>1 DEF First
      <3>3. x.used[x.current] + x.probed[x.current] >= 1
        BY <1>x, <2>1 DEF IInv, Counters, Engaged
      <3>4. ~Available(x, x.current)
        BY <3>3, Budgets DEF Available, Exhausted
      <3>5. QED
        BY <3>2, <3>4
    <2>8. CASE /\ p.action = "FAIL_TASK"
               /\ exec' = [exec EXCEPT ![d] = Stopping(decided, "POLICY_DENIED")]
      BY <1>x, <2>1, <2>4, <2>5, <2>6, <2>8, HaltsOn DEF Engaged, Reason
    <2>9. \A r : SameProvider(decided, r) <=> SameProvider(x, r)
      BY <2>5 DEF SameProvider
    <2>10. p.route # x.current => Use(decided, p.route).action = Use(x, p.route).action
      BY <2>5, <2>9 DEF Use
    <2>11. CASE p.action = "CAPABILITY_CHECK"
                /\ exec' = [exec EXCEPT ![d] = Probe(decided, p.route)]
      <3> DEFINE e == Probe(decided, p.route)
      <3>1. exec'[d] = e
        BY <1>T, <2>11, Becoming
      <3>2. /\ e.pc = "starting" /\ e.view = x.view /\ e.target = p.route /\ e.current = p.route
            /\ e.probed = [x.probed EXCEPT ![p.route] = x.probed[p.route] + 1]
            /\ e.used = x.used /\ e.checks = x.checks + 1
            /\ IF SameProvider(x, p.route)
               THEN e.models = x.models + 1 /\ e.providers = x.providers
               ELSE e.models = x.models /\ e.providers = x.providers + 1
        BY <2>4, <2>5, <2>6, <2>7, <2>9, <2>11, ProbeOnWalk
      <3> HIDE DEF e
      <3>3. QED
        BY <1>x, <2>1, <2>6, <2>11, <3>1, <3>2 DEF Chooses
    <2>12. CASE p.action \notin {"CAPABILITY_CHECK", "FAIL_TASK"}
                /\ exec' = [exec EXCEPT ![d] = Switch(decided, p)]
      <3> DEFINE e == Switch(decided, p)
      <3>1. exec'[d] = e
        BY <1>T, <2>12, Becoming
      <3>2. /\ e.pc = "starting" /\ e.view = x.view /\ e.target = p.route /\ e.current = p.route
            /\ e.used = [x.used EXCEPT ![p.route] = x.used[p.route] + 1]
            /\ e.probed = x.probed /\ e.checks = x.checks
            /\ IF SameProvider(x, p.route)
               THEN e.models = x.models + 1 /\ e.providers = x.providers
               ELSE e.models = x.models /\ e.providers = x.providers + 1
        <4>1. p.route \in Route /\ p.route # decided.current
              /\ p.action = Use(decided, p.route).action
          BY <2>5, <2>6, <2>7, <2>10, <2>12
        <4>2. QED
          BY <2>4, <2>5, <2>9, <4>1, SwitchOnWalk
      <3> HIDE DEF e
      <3>3. QED
        BY <1>x, <2>1, <2>6, <2>12, <3>1, <3>2 DEF Chooses
    <2>13. QED
      BY <2>2, <2>8, <2>11, <2>12
  <1>14. QED
    BY <1>0, <1>1, <1>2, <1>3, <1>4, <1>5, <1>6, <1>7, <1>8, <1>9, <1>10, <1>11, <1>12, <1>13

\* The sets of tried routes are finite; a route that was not tried leaves room.
LEMMA RoomLeft ==
    ASSUME RoutesInReach, NEW e \in Execution, Initial \in Tried(e)
    PROVE  /\ IsFiniteSet(Tried(e)) /\ Cardinality(Tried(e)) \in Nat
           /\ \A r \in Route \ Tried(e) :
                  /\ Cardinality(Tried(e)) <= 3
                  /\ r \in Home /\ Tried(e) \subseteq Home => Cardinality(Tried(e)) <= 2
  <1>1. /\ IsFiniteSet(Route) /\ Cardinality(Route) <= 4 /\ Cardinality(Home) <= 3
        /\ Home \subseteq Route /\ Tried(e) \subseteq Route
    BY DEF RoutesInReach, Home, Tried
  <1>2. IsFiniteSet(Home) /\ IsFiniteSet(Tried(e))
    BY <1>1, FS_Subset
  <1>3. /\ Cardinality(Tried(e)) \in Nat /\ Cardinality(Route) \in Nat
        /\ Cardinality(Home) \in Nat
    BY <1>1, <1>2, FS_CardinalityType
  <1>4. ASSUME NEW S, IsFiniteSet(S), Tried(e) \subseteq S, NEW r \in S \ Tried(e)
        PROVE  Cardinality(Tried(e)) < Cardinality(S)
    <2>1. Tried(e) # S
      OBVIOUS
    <2>2. /\ Cardinality(Tried(e)) <= Cardinality(S)
          /\ Cardinality(Tried(e)) = Cardinality(S) => Tried(e) = S
      BY <1>4, FS_Subset
    <2>3. Cardinality(S) \in Nat
      BY <1>4, FS_CardinalityType
    <2>4. QED
      BY <1>3, <2>1, <2>2, <2>3
  <1>5. ASSUME NEW r \in Route \ Tried(e) PROVE Cardinality(Tried(e)) <= 3
    BY <1>1, <1>3, <1>4
  <1>6. ASSUME NEW r \in Route \ Tried(e), r \in Home, Tried(e) \subseteq Home
        PROVE  Cardinality(Tried(e)) <= 2
    BY <1>1, <1>2, <1>3, <1>4, <1>6
  <1>7. QED
    BY <1>2, <1>3, <1>5, <1>6

\* Every authorised route that is neither tried nor quarantined is an option: the
\* switches and checks left suffice.
LEMMA WithinReach ==
    ASSUME RoutesInReach, IInv, Walk, NEW d \in Delivery, Underway(d),
           NEW r \in setting.authority, r \notin Tried(exec[d]),
           exec[d].view[r] # "QUARANTINED"
    PROVE  r \in Options(exec[d])
  <1>e. PICK e \in Execution : e = exec[d]
    BY DEF IInv, TypeOK
  <1>1. r \in Route
    BY DEF IInv, TypeOK, Setting
  <1>2. Available(e, r)
    BY <1>e, <1>1, Budgets DEF Available, Exhausted, Tried, Execution
  <1>3. /\ Initial \in Tried(e) /\ e.current \in Tried(e) /\ SwitchesSpent(e)
        /\ \A t \in Tried(e) \ {Initial}, q \in setting.authority :
               Order[q] < Order[t] => q \in Tried(e) \/ e.view[q] = "QUARANTINED"
    BY <1>e DEF Underway
  <1>4. /\ Cardinality(Tried(e)) \in Nat /\ Cardinality(Tried(e)) <= 3
        /\ r \in Home /\ Tried(e) \subseteq Home => Cardinality(Tried(e)) <= 2
    BY <1>e, <1>1, <1>3, RoomLeft
  <1>5. e.models \in Nat /\ e.providers \in Nat /\ e.checks \in Nat
    BY DEF Execution
  <1>6. e.checks < Budget.checks
    BY <1>3, <1>4, <1>5, Budgets DEF SwitchesSpent
  <1>7. Reachable(e, r)
    <2>1. CASE e.providers = 0 /\ r \in Home
      <3>1. SameProvider(e, r)
        BY <1>3, <2>1 DEF SwitchesSpent, SameProvider, Home
      <3>2. Tried(e) \subseteq Home
        BY <1>3, <2>1 DEF SwitchesSpent
      <3>3. e.models <= 1
        BY <1>3, <1>4, <1>5, <2>1, <3>2 DEF SwitchesSpent
      <3>4. QED
        BY <1>5, <3>1, <3>3, Budgets DEF Reachable
    <2>2. CASE e.providers = 0 /\ r \notin Home
      <3>1. ~SameProvider(e, r)
        BY <1>1, <1>3, <2>2 DEF SwitchesSpent, SameProvider, Home
      <3>2. QED
        BY <2>2, <3>1, Budgets DEF Reachable
    <2>3. CASE e.providers # 0
      <3>1. e.providers = 1 /\ e.current \notin Home /\ e.current \in Route
        BY <1>3, <2>3 DEF SwitchesSpent, Tried
      <3>2. e.current # Initial /\ r # Initial
        BY <1>3, <1>e, <3>1, RecoveryAssumption DEF Home
      <3>3. r \notin Home
        <4>1. SUFFICES ASSUME r \in Home PROVE FALSE
          OBVIOUS
        <4>2. Order[r] < Order[e.current]
          BY <1>1, <3>1, <3>2, <4>1 DEF RoutesInReach, Home
        <4>3. QED
          BY <1>e, <1>3, <3>2, <4>2
      <3>4. SameProvider(e, r)
        BY <1>1, <3>1, <3>3 DEF RoutesInReach, Home, SameProvider
      <3>5. e.models <= 1
        BY <1>3, <1>4, <1>5, <3>1 DEF SwitchesSpent
      <3>6. QED
        BY <1>5, <3>4, <3>5, Budgets DEF Reachable
    <2>4. QED
      BY <2>1, <2>2, <2>3
  <1>8. e.view[r] \in {"VERIFIED", "UNKNOWN"}
    BY <1>e, <1>1 DEF Execution, Capability
  <1>9. r \in Eligible(e) \/ r \in Checkable(e)
    BY <1>1, <1>2, <1>7, <1>8 DEF Eligible, Checkable
  <1>10. QED
    BY <1>e, <1>6, <1>9 DEF Options

\* A delivery is not disturbed by the calls of another one.
LEMMA WalkElsewhere ==
    ASSUME NEW c \in Delivery, UNCHANGED setting, exec'[c] = exec[c],
           \A a : a.by = c => (a \in started' <=> a \in started), Walking(c)
    PROVE  Walking(c)'
  <1>1. \A r : Called(c, r)' <=> Called(c, r)
    BY DEF Called
  <1>3. Tried(exec[c])' = Tried(exec[c])
    BY DEF Tried
  <1>4. Blank(exec[c]) => Blank(exec[c])'
    BY DEF Blank
  <1>5. SwitchesSpent(exec[c]) => SwitchesSpent(exec[c])'
    BY <1>3 DEF SwitchesSpent
  <1>6. Underway(c) => Underway(c)'
    BY <1>1, <1>3, <1>5 DEF Underway
  <1>7. Orderly(c)'
    BY <1>1 DEF Walking, Orderly
  <1>8. QED
    BY <1>1, <1>4, <1>6, <1>7 DEF Walking

\* After a step, a delivery under way is in order.
LEMMA UnderwayOrderly ==
    ASSUME IInv', NEW d \in Delivery, Underway(d)', exec'[d].pc \in Engaged
    PROVE  Orderly(d)'
  <1>e. PICK e \in Execution : e = exec'[d]
    BY DEF IInv, TypeOK
  <1>0. e.pc # "stopping"
    BY <1>e DEF Engaged
  <1> SUFFICES ASSUME NEW a \in started', NEW r \in setting'.authority, a.by = d,
                      a.route # Initial, Order[r] < Order[a.route], ~Called(d, r)'
               PROVE  e.view[r] = "QUARANTINED"
    BY <1>e, <1>0 DEF Orderly
  <1>1. a.route \in Route /\ r \in Route
    BY DEF IInv, TypeOK, Attempt, Setting
  <1>2. a.route \in Tried(e) /\ a.route # Initial
    BY <1>e, <1>1 DEF Underway, Called, Tried
  <1>3. r \in Tried(e) \/ e.view[r] = "QUARANTINED"
    BY <1>e, <1>2 DEF Underway, Tried
  <1>4. ASSUME r \in Tried(e) PROVE FALSE
    <2>1. e.pc = "starting" /\ r = e.target
      BY <1>e, <1>4 DEF Underway, Tried
    <2>2. Order[a.route] <= Order[r]
      BY <1>e, <1>2, <2>1 DEF Underway, Tried
    <2>3. Order[a.route] \in Nat /\ Order[r] \in Nat
      BY <1>1, RecoveryAssumption
    <2>4. QED
      BY <2>2, <2>3
  <1>5. QED
    BY <1>3, <1>4

\* What Tried and SwitchesSpent read.
LEMMA SameWalked ==
    ASSUME NEW e, NEW f, Walked(e) = Walked(f)
    PROVE  /\ e.used = f.used /\ e.probed = f.probed /\ e.attempts = f.attempts
           /\ e.checks = f.checks /\ e.models = f.models /\ e.providers = f.providers
           /\ e.current = f.current /\ e.target = f.target
           /\ Tried(e) = Tried(f) /\ (SwitchesSpent(f) => SwitchesSpent(e))
           /\ (Blank(f) => Blank(e))
  <1>1. /\ e.used = f.used /\ e.probed = f.probed /\ e.attempts = f.attempts
        /\ e.checks = f.checks /\ e.models = f.models /\ e.providers = f.providers
        /\ e.current = f.current /\ e.target = f.target
    BY DEF Walked
  <1>2. Tried(e) = Tried(f)
    BY <1>1 DEF Tried
  <1>3. QED
    BY <1>1, <1>2 DEF SwitchesSpent, Blank

\* A stroll keeps the order.
LEMMA StrollOrder ==
    ASSUME IInv, IInv', NEW d \in Delivery, UNCHANGED setting, Strolls(d), Walking(d)
    PROVE  Walking(d)'
  <1>1. \A r : Called(d, r)' <=> Called(d, r)
    BY DEF Strolls, Called
  <1>2. CASE exec'[d].pc \in Ended
    <2>1. exec'[d].pc \notin Running /\ exec'[d].pc \notin {"idle", "entering", "stopping"}
          /\ exec'[d].pc \notin Engaged
      BY <1>2 DEF Ended, Running, Engaged
    <2>2. QED
      BY <2>1 DEF Walking, Orderly
  <1>3. CASE /\ exec[d].pc = "idle" /\ exec'[d].pc = "entering"
             /\ Walked(exec'[d]) = Walked(exec[d])
    <2>1. Blank(exec'[d]) /\ \A r \in Route : ~Called(d, r)'
      BY <1>1, <1>3, SameWalked DEF Walking
    <2>2. Blank(exec[d])'
      BY <2>1 DEF Blank
    <2>3. \A a \in started' : a.by # d
      <3>1. \A a \in started' : a.route \in Route
        BY DEF IInv, TypeOK, Attempt
      <3>2. QED
        BY <2>1, <3>1 DEF Called
    <2>4. exec'[d].pc \notin Engaged /\ exec'[d].pc # "stopping"
      BY <1>3 DEF Engaged
    <2>5. QED
      BY <2>1, <2>2, <2>3, <2>4 DEF Walking, Orderly
  <1>4. CASE /\ exec[d].pc \in Engaged /\ exec'[d].pc \in Engaged
             /\ exec'[d].pc = "starting" <=> exec[d].pc = "starting"
             /\ Walked(exec'[d]) = Walked(exec[d]) /\ KeepsView(d)
    <2> DEFINE e == exec[d]
               f == exec'[d]
    <2>1. /\ f.current = e.current /\ f.target = e.target /\ Tried(f) = Tried(e)
          /\ SwitchesSpent(e) => SwitchesSpent(f)
      BY <1>4, SameWalked
    <2>2. Tried(exec[d])' = Tried(e) /\ (SwitchesSpent(e) => SwitchesSpent(exec[d])')
      BY <2>1 DEF Tried, SwitchesSpent
    <2>3. Underway(d)
      BY <1>4 DEF Walking
    <2>4. setting.authority \subseteq Route
      BY DEF IInv, TypeOK, Setting
    <2>5. \A q \in setting.authority : q \in Tried(e) \/ f.view[q] = e.view[q]
      BY <1>4, <2>3, <2>4 DEF KeepsView, Underway
    <2>6. Underway(d)'
      BY <1>1, <1>4, <2>1, <2>2, <2>3, <2>5 DEF Underway
    <2>7. Orderly(d)'
      <3>1. exec'[d].pc \in Engaged
        BY <1>4
      <3>2. QED
        BY <2>6, <3>1, UnderwayOrderly
    <2>8. f.pc \notin {"idle", "entering"}
      BY <1>4 DEF Engaged
    <2>9. QED
      BY <2>6, <2>7, <2>8 DEF Walking
  <1>5. QED
    BY <1>2, <1>3, <1>4 DEF Strolls

\* Stopping keeps it; the policy denies only a delivery that has settled every route.
LEMMA HaltOrder ==
    ASSUME RoutesInReach, IInv, IInv', Walk, NEW d \in Delivery, UNCHANGED setting, Halts(d),
           Walking(d)
    PROVE  Walking(d)'
  <1>1. \A r : Called(d, r)' <=> Called(d, r)
    BY DEF Halts, Called
  <1>e. PICK e \in Execution : e = exec[d]
    BY DEF IInv, TypeOK
  <1>f. PICK f \in Execution : f = exec'[d]
    BY DEF IInv, TypeOK
  <1>2. setting.authority \subseteq Route
    BY DEF IInv, TypeOK, Setting
  <1>3. f.pc = "stopping" /\ e.pc \in Engaged \cup {"entering"}
    BY <1>e, <1>f DEF Halts
  <1>4. \A q \in Route : f.view[q] = e.view[q] \/ Called(d, q)
    <2>1. \A q \in Route : f.view[q] = e.view[q] \/ (e.pc = "calling" /\ q = e.target)
      BY <1>e, <1>f DEF Halts, KeepsView
    <2>2. e.pc = "calling" => Called(d, e.target)
      BY <1>e DEF Walking, Engaged, Underway
    <2>3. QED
      BY <2>1, <2>2
  <1>5. ASSUME NEW a \in started', NEW r \in setting'.authority, a.by = d, a.route # Initial,
               Order[r] < Order[a.route]
        PROVE  Called(d, r)' \/ f.view[r] = "QUARANTINED"
    <2>1. a \in started /\ r \in setting.authority /\ r \in Route
      BY <1>2, <1>5 DEF Halts
    <2>2. e.pc \in Running
      BY <1>3 DEF Running, Engaged
    <2>3. Called(d, r) \/ e.view[r] = "QUARANTINED"
      BY <1>e, <1>5, <2>1, <2>2 DEF Walking, Orderly
    <2>4. QED
      BY <1>1, <1>4, <2>1, <2>3
  <1>6. ASSUME f.reason = "POLICY_DENIED", f.attempts > 0, NEW r \in setting'.authority
        PROVE  Called(d, r)' \/ f.view[r] = "QUARANTINED"
    <2>1. r \in setting.authority /\ r \in Route
      BY <1>2
    <2>2. CASE e.pc = "entering"
      <3>1. e.attempts = 0
        BY <1>e, <2>2 DEF Walking, Blank
      <3>2. f.attempts = e.attempts
        BY <1>e, <1>f DEF Halts
      <3>3. QED
        BY <1>6, <3>1, <3>2
    <2>3. CASE e.pc # "entering"
      <3>1. e.pc = "deciding" /\ Options(e) = {}
        BY <1>e, <1>f, <1>6, <2>3 DEF Halts
      <3>2. Underway(d)
        BY <1>e, <3>1 DEF Walking, Engaged
      <3>3. r \in Tried(e) \/ e.view[r] = "QUARANTINED"
        BY <1>e, <2>1, <3>1, <3>2, WithinReach
      <3>4. r \in Tried(e) => Called(d, r)
        BY <1>e, <3>1, <3>2 DEF Underway
      <3>5. QED
        BY <1>1, <1>4, <2>1, <3>3, <3>4
    <2>4. QED
      BY <2>2, <2>3
  <1>7. Orderly(d)'
    BY <1>f, <1>5, <1>6 DEF Orderly
  <1>8. f.pc \notin {"idle", "entering"} /\ f.pc \notin Engaged
    BY <1>3 DEF Engaged
  <1>9. QED
    BY <1>f, <1>7, <1>8 DEF Walking

\* The first call is planned on a blank delivery.
LEMMA SetOffOrder ==
    ASSUME IInv, IInv', NEW d \in Delivery, UNCHANGED setting, SetsOff(d), Walking(d)
    PROVE  Walking(d)'
  <1>1. \A r : Called(d, r)' <=> Called(d, r)
    BY DEF SetsOff, Called
  <1>e. PICK e \in Execution : e = exec[d]
    BY DEF IInv, TypeOK
  <1>f. PICK f \in Execution : f = exec'[d]
    BY DEF IInv, TypeOK
  <1>2. Blank(e) /\ \A r \in Route : ~Called(d, r)
    BY <1>e DEF SetsOff, Walking
  <1>3. /\ f.pc = "starting" /\ f.used = [e.used EXCEPT ![Initial] = 1] /\ f.probed = e.probed
        /\ f.checks = e.checks /\ f.models = e.models /\ f.providers = e.providers
        /\ f.current = Initial /\ f.target = Initial
    BY <1>e, <1>f DEF SetsOff
  <1>4. \A r \in Route : f.probed[r] = 0 /\ f.used[r] = IF r = Initial THEN 1 ELSE 0
    BY <1>2, <1>3 DEF Blank, Execution
  <1>5. Tried(f) = {Initial}
    BY <1>4, RecoveryAssumption DEF Tried
  <1>6. Tried(exec[d])' = {Initial}
    BY <1>f, <1>5 DEF Tried
  <1>7. Cardinality({Initial}) = 1
    BY FS_Singleton
  <1>8. Initial \in Home
    BY RecoveryAssumption DEF Home
  <1>9. SwitchesSpent(exec[d])'
    <2>1. f.models = 0 /\ f.providers = 0 /\ f.checks = 0
      BY <1>2, <1>3 DEF Blank
    <2>2. QED
      BY <1>f, <1>3, <1>6, <1>7, <1>8, <2>1 DEF SwitchesSpent
  <1>10. \A r : ~Called(d, r)
    <2>1. \A a \in started : a.route \in Route
      BY DEF IInv, TypeOK, Attempt
    <2>2. QED
      BY <1>2, <2>1 DEF Called
  <1>11. Underway(d)'
    BY <1>f, <1>1, <1>3, <1>6, <1>9, <1>10 DEF Underway
  <1>12. exec'[d].pc \in Engaged /\ exec'[d].pc \notin {"idle", "entering"}
    BY <1>f, <1>3 DEF Engaged
  <1>13. QED
    BY <1>11, <1>12, UnderwayOrderly DEF Walking

\* A choice adds its route to the tried ones and spends a switch for it.
LEMMA ChoiceSpends ==
    ASSUME RoutesInReach, IInv, Walk, NEW d \in Delivery, Chooses(d), Underway(d),
           NEW e \in Execution, e = exec[d], NEW f \in Execution, f = exec'[d]
    PROVE  /\ f.target \in Options(e) /\ f.target \in Route \ Tried(e)
           /\ Tried(f) = Tried(e) \cup {f.target}
           /\ SwitchesSpent(f)
  <1> DEFINE r == f.target
  <1>1. /\ r \in First(Options(e)) /\ f.current = r
        /\ \/ f.used = [e.used EXCEPT ![r] = e.used[r] + 1] /\ f.probed = e.probed
           \/ f.probed = [e.probed EXCEPT ![r] = e.probed[r] + 1] /\ f.used = e.used
        /\ f.checks \in {e.checks, e.checks + 1}
        /\ IF SameProvider(e, r)
           THEN f.models = e.models + 1 /\ f.providers = e.providers
           ELSE f.models = e.models /\ f.providers = e.providers + 1
    BY DEF Chooses
  <1> HIDE DEF r
  <1>2. r \in Options(e) /\ r \in Route /\ Available(e, r) /\ Reachable(e, r)
    <2>1. Options(e) \subseteq { q \in Route : Available(e, q) /\ Reachable(e, q) }
      BY DEF Options, Eligible, Checkable
    <2>2. QED
      BY <1>1, <2>1 DEF First
  <1>3. e.used[r] = 0 /\ e.probed[r] = 0
    BY <1>2, Budgets DEF Available, Exhausted, Execution
  <1>4. r \notin Tried(e)
    BY <1>3 DEF Tried
  <1>5. \A q \in Route : f.used[q] + f.probed[q] >= 1 <=> e.used[q] + e.probed[q] >= 1 \/ q = r
    <2>1. CASE f.used = [e.used EXCEPT ![r] = e.used[r] + 1] /\ f.probed = e.probed
      BY <1>2, <1>3, <2>1 DEF Execution
    <2>2. CASE f.probed = [e.probed EXCEPT ![r] = e.probed[r] + 1] /\ f.used = e.used
      BY <1>2, <1>3, <2>2 DEF Execution
    <2>3. QED
      BY <1>1, <2>1, <2>2
  <1>6. Tried(f) = Tried(e) \cup {r}
    BY <1>2, <1>5 DEF Tried
  <1>7. /\ Initial \in Tried(e) /\ e.current \in Tried(e) /\ SwitchesSpent(e)
        /\ \A t \in Tried(e) \ {Initial}, q \in setting.authority :
               Order[q] < Order[t] => q \in Tried(e) \/ e.view[q] = "QUARANTINED"
    BY DEF Underway
  <1>8. IsFiniteSet(Tried(e)) /\ Cardinality(Tried(e)) \in Nat
    BY <1>7, RoomLeft
  <1>9. Cardinality(Tried(f)) = Cardinality(Tried(e)) + 1
    BY <1>4, <1>6, <1>8, FS_AddElement
  <1>10. /\ e.models \in Nat /\ e.providers \in Nat /\ e.checks \in Nat
    BY DEF Execution
  <1>11. /\ f.models + f.providers <= Cardinality(Tried(f)) - 1
         /\ f.checks <= Cardinality(Tried(f)) - 1
    BY <1>1, <1>7, <1>8, <1>9, <1>10 DEF SwitchesSpent
  <1>12. \/ f.providers = 0 /\ f.current \in Home /\ Tried(f) \subseteq Home
         \/ f.providers = 1 /\ f.current \notin Home
    <2>1. CASE e.providers = 0 /\ SameProvider(e, r)
      <3>1. r \in Home /\ Tried(e) \subseteq Home
        BY <1>2, <1>7, <2>1 DEF SwitchesSpent, SameProvider, Home
      <3>2. QED
        BY <1>1, <1>6, <2>1, <3>1
    <2>2. CASE e.providers = 0 /\ ~SameProvider(e, r)
      <3>1. r \notin Home
        BY <1>7, <2>2 DEF SwitchesSpent, SameProvider, Home
      <3>2. QED
        BY <1>1, <2>2, <3>1
    <2>3. CASE e.providers # 0
      <3>1. e.providers = 1 /\ e.current \notin Home /\ e.current \in Route
        BY <1>7, <2>3 DEF SwitchesSpent, Tried
      <3>2. SameProvider(e, r)
        BY <1>2, <3>1, Budgets DEF Reachable, SameProvider
      <3>3. r \notin Home
        BY <3>1, <3>2 DEF SameProvider, Home
      <3>4. QED
        BY <1>1, <3>1, <3>2, <3>3
    <2>4. QED
      BY <2>1, <2>2, <2>3
  <1>13. SwitchesSpent(f)
    BY <1>11, <1>12 DEF SwitchesSpent
  <1>14. QED
    BY <1>2, <1>4, <1>6, <1>13 DEF r

\* A choice passes by a route only if it is quarantined.
LEMMA ChoiceOrder ==
    ASSUME RoutesInReach, IInv, IInv', Walk, NEW d \in Delivery, UNCHANGED setting,
           Chooses(d), Walking(d)
    PROVE  Walking(d)'
  <1>1. \A r : Called(d, r)' <=> Called(d, r)
    BY DEF Chooses, Called
  <1>e. PICK e \in Execution : e = exec[d]
    BY DEF IInv, TypeOK
  <1>f. PICK f \in Execution : f = exec'[d]
    BY DEF IInv, TypeOK
  <1>2. setting.authority \subseteq Route
    BY DEF IInv, TypeOK, Setting
  <1>3. /\ e.pc = "deciding" /\ f.pc = "starting" /\ f.view = e.view
        /\ f.target \in First(Options(e)) /\ f.current = f.target
    BY <1>e, <1>f DEF Chooses
  <1>4. Underway(d)
    BY <1>e, <1>3 DEF Walking, Engaged
  <1>5. /\ f.target \in Options(e) /\ f.target \in Route \ Tried(e)
        /\ Tried(f) = Tried(e) \cup {f.target} /\ SwitchesSpent(f)
    BY <1>e, <1>f, <1>4, ChoiceSpends
  <1>6. /\ Initial \in Tried(e)
        /\ \A r \in Tried(e) : Called(d, r)
        /\ \A r \in Route : Called(d, r) => r \in Tried(e)
        /\ \A r \in Tried(e) \ {Initial}, q \in setting.authority :
               Order[q] < Order[r] => q \in Tried(e) \/ e.view[q] = "QUARANTINED"
    BY <1>e, <1>3, <1>4 DEF Underway
  <1>7. \A r \in Route : Order[r] \in Nat
    BY RecoveryAssumption
  <1>8. ASSUME NEW q \in setting.authority, Order[q] < Order[f.target]
        PROVE  q \in Tried(e) \/ e.view[q] = "QUARANTINED"
    <2>1. ASSUME q \in Options(e) PROVE FALSE
      <3>1. Order[f.target] <= Order[q]
        BY <1>3, <2>1 DEF First
      <3>2. QED
        BY <1>2, <1>5, <1>7, <1>8, <3>1
    <2>2. QED
      BY <1>e, <1>4, <2>1, WithinReach
  <1>9. ASSUME NEW r \in Tried(f) \ {Initial} PROVE Order[r] <= Order[f.target]
    <2>1. CASE r = f.target
      BY <1>5, <1>7, <2>1
    <2>2. CASE r \in Tried(e)
      <3>1. f.target \in setting.authority /\ e.view[f.target] # "QUARANTINED"
        BY <1>5 DEF Options, Eligible, Checkable, Available
      <3>2. ~(Order[f.target] < Order[r])
        BY <1>5, <1>6, <1>9, <2>2, <3>1
      <3>3. r \in Route
        BY <2>2 DEF Tried
      <3>4. QED
        BY <1>5, <1>7, <3>2, <3>3
    <2>3. QED
      BY <1>5, <1>9, <2>1, <2>2
  <1>10. /\ Tried(exec[d])' = Tried(f) /\ SwitchesSpent(exec[d])'
    <2>1. Tried(exec[d])' = Tried(f)
      BY <1>f DEF Tried
    <2>2. QED
      BY <1>f, <1>5, <2>1 DEF SwitchesSpent
  <1>11. /\ \A r \in Tried(f) : Called(d, r)' \/ r = f.target
         /\ \A r \in Route : Called(d, r)' => r \in Tried(f)
         /\ \A r \in Tried(f) \ {Initial}, q \in setting'.authority :
                Order[q] < Order[r] => q \in Tried(f) \/ f.view[q] = "QUARANTINED"
    BY <1>1, <1>3, <1>5, <1>6, <1>8
  <1>12. Underway(d)'
    BY <1>f, <1>3, <1>5, <1>6, <1>9, <1>10, <1>11 DEF Underway
  <1>13. exec'[d].pc \in Engaged /\ exec'[d].pc \notin {"idle", "entering"}
    BY <1>f, <1>3 DEF Engaged
  <1>14. QED
    BY <1>12, <1>13, UnderwayOrderly DEF Walking

\* The call that was planned is made.
LEMMA CallOrder ==
    ASSUME IInv, IInv', NEW d \in Delivery, UNCHANGED setting, Calls(d), Walking(d)
    PROVE  Walking(d)'
  <1>e. PICK e \in Execution : e = exec[d]
    BY DEF IInv, TypeOK
  <1>f. PICK f \in Execution : f = exec'[d]
    BY DEF IInv, TypeOK
  <1>1. \A r : Called(d, r)' <=> Called(d, r) \/ r = e.target
    <2> DEFINE a == ThisAttempt(d)
    <2>1. a.by = d /\ a.route = e.target
      BY <1>e DEF ThisAttempt
    <2>2. started' = started \cup {a}
      BY DEF Calls
    <2> HIDE DEF a
    <2>3. ASSUME NEW r, Called(d, r)' PROVE Called(d, r) \/ r = e.target
      BY <2>1, <2>2, <2>3 DEF Called
    <2>4. ASSUME NEW r, Called(d, r) \/ r = e.target PROVE Called(d, r)'
      BY <2>1, <2>2, <2>4 DEF Called
    <2>5. QED
      BY <2>3, <2>4
  <1>2. /\ e.pc = "starting" /\ f.pc = "calling" /\ f.view = e.view /\ Walked(f) = Walked(e)
    BY <1>e, <1>f DEF Calls
  <1>3. /\ f.current = e.current /\ f.target = e.target /\ Tried(f) = Tried(e)
        /\ SwitchesSpent(e) => SwitchesSpent(f)
    BY <1>2, SameWalked
  <1>4. Tried(exec[d])' = Tried(e) /\ (SwitchesSpent(e) => SwitchesSpent(exec[d])')
    BY <1>f, <1>3 DEF Tried, SwitchesSpent
  <1>5. Underway(d)
    BY <1>e, <1>2 DEF Walking, Engaged
  <1>6. Underway(d)'
    BY <1>e, <1>f, <1>1, <1>2, <1>3, <1>4, <1>5 DEF Underway
  <1>7. exec'[d].pc \in Engaged /\ exec'[d].pc \notin {"idle", "entering"}
    BY <1>f, <1>2 DEF Engaged
  <1>8. QED
    BY <1>6, <1>7, UnderwayOrderly DEF Walking

\* A walk takes its routes in their order, passing by only the quarantined, and
\* gives up with POLICY_DENIED only when none is left: for every set of routes
\* whose order and providers are within the reach of its switches.
THEOREM WalksTakeEveryRoute == ASSUME RoutesInReach PROVE Spec => []WalkInOrder
  <1>1. Init => WalkInv
    <2> SUFFICES ASSUME Init, NEW d \in Delivery PROVE Walking(d)
      BY DEF WalkInv
    <2>1. exec[d] = Fresh /\ started = {}
      BY DEF Init
    <2>2. Fresh.pc = "idle" /\ Blank(Fresh)
      BY DEF Fresh, Blank
    <2>3. QED
      BY <2>1, <2>2 DEF Walking, Orderly, Called, Engaged
  <1>2. IInv /\ WalkInv /\ [Next]_vars => WalkInv'
    <2> SUFFICES ASSUME IInv, WalkInv, [Next]_vars PROVE WalkInv'
      OBVIOUS
    <2>1. IInv'
      BY StepIInv
    <2>2. CASE UNCHANGED vars
      <3>1. UNCHANGED <<setting, started, exec>>
        BY <2>2 DEF vars, evidence
      <3>2. ASSUME NEW c \in Delivery, Walking(c) PROVE Walking(c)'
        BY <3>1, <3>2, WalkElsewhere
      <3>3. Walk' = Walk
        BY <3>1 DEF Walk
      <3>4. QED
        BY <3>2, <3>3 DEF WalkInv
    <2>3. ASSUME NEW d \in Delivery,
                 \/ Observe(d) \/ Enter(d) \/ Begin(d) \/ Pass(d) \/ Resume(d) \/ Fail(d)
                 \/ Timeout(d) \/ Expire(d) \/ GiveUp(d) \/ Decide(d) \/ Stop(d)
                 \/ Cancel(d) \/ Crash(d),
                 Walk'
          PROVE  \A c \in Delivery : Walking(c)'
      <3>1. Walk
        BY <2>3 DEF Walk, Observe, Enter, Begin, Pass, Resume, Fail, Timeout, Expire, GiveUp,
           Decide, Stop, Cancel, Crash, Complete
      <3>2. /\ UNCHANGED setting /\ \A c \in Delivery \ {d} : exec'[c] = exec[c]
            /\ Strolls(d) \/ Halts(d) \/ SetsOff(d) \/ Chooses(d) \/ Calls(d)
        BY <2>3, <3>1, WalkSteps
      <3>3. \A c \in Delivery : Walking(c)
        BY <3>1 DEF WalkInv
      <3>4. Walking(d)'
        BY <2>1, <3>1, <3>2, <3>3, StrollOrder, HaltOrder, SetOffOrder, ChoiceOrder, CallOrder
      <3>5. UNCHANGED started \/ started' = started \cup {ThisAttempt(d)}
        BY <3>2 DEF Strolls, Halts, SetsOff, Chooses, Calls
      <3>6. \A c \in Delivery \ {d} : Walking(c)'
        <4>1. \A c \in Delivery \ {d} : \A a : a.by = c => (a \in started' <=> a \in started)
          BY <3>5 DEF ThisAttempt
        <4>2. QED
          BY <3>2, <3>3, <4>1, WalkElsewhere
      <3>7. QED
        BY <3>4, <3>6
    <2>4. QED
      BY <2>2, <2>3 DEF Next, WalkInv
  <1>3. WalkInv => WalkInOrder
    BY DEF WalkInv, Walking, Orderly, WalkInOrder
  <1>4. QED
    BY <1>1, <1>2, <1>3, Inductive, PTL DEF Spec
================================================================================
