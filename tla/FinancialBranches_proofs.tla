----------------------- MODULE FinancialBranches_proofs -----------------------
(***************************************************************************)
(* Theorems about FinancialBranches: for any branches, dependencies and    *)
(* bounds, a call that is over has nothing running and leaves no task      *)
(* waiting, and the records of its build follow the registry.              *)
(***************************************************************************)
EXTENDS FinancialBranches, TLAPS

Final == {"ended", "cancelled", "failed"}

\* What the attempts, the registry and the task's status say at each place of the
\* build.
PlaceInv ==
    /\ build.at \in {"idle", "specifying"} => build.attempt = 0
    /\ build.at \in InLoop => build.attempt \in Attempt
    /\ build.at = "specifying" => ~registered
    /\ build.attempt # 0 => (registered <=> build.lifecycle = "ACTIVE_FOR_SCOPE")
    /\ build.attempt = 0 => build.lifecycle = "none"
    /\ build.at \in Rejecting => build.error \in {"local", "deadline", "global"}
    /\ build.at \in Rejecting /\ build.error = "local" => ~registered
    /\ build.at = "raised" => build.error \in Error
    /\ build.at \in {"idle", "available"} => status = "RUNNING"
    /\ build.at = "raised" /\ build.error = "sandbox" => status = "RUNNING"
    /\ build.at = "raised" /\ build.error \in {"local", "deadline"} =>
           status = "CAPABILITY_BUILD_FAILED"
    /\ status = "CAPABILITY_BUILD_FAILED" => build.at = "raised"

\* Which lifecycle the attempt has reached in memory where the build is.
LifecycleInv ==
    /\ build.at \in {"requesting", "generating"} => build.lifecycle = "none"
    /\ build.at = "validating" => build.lifecycle = "GENERATED"
    /\ build.at = "activating" => build.lifecycle = "FINANCIAL_VALIDATED"
    /\ build.at = "registering" => build.lifecycle = "TASK_APPROVED"
    /\ build.at \in {"recordRegistration", "resuming", "available"} /\ build.attempt # 0 =>
           build.lifecycle = "ACTIVE_FOR_SCOPE"
    /\ build.at \in {"recordBuild", "recordGenerated"} =>
           build.lifecycle \in {"GENERATED", "FINANCIAL_VALIDATED", "TASK_APPROVED",
                                "ACTIVE_FOR_SCOPE"}

\* What is stored of the present attempt, between the writes of one lifecycle and
\* of the except block.
StoredInv ==
    /\ build.at = "registering" => generated[build.attempt] = "TASK_APPROVED"
    /\ build.lifecycle = "none" /\ build.attempt # 0 => generated[build.attempt] = "none"
    /\ build.lifecycle = "ACTIVE_FOR_SCOPE" =>
           /\ build.at \in {"recordGenerated", "recordRegistration", "resuming", "available"} =>
                  builds[build.attempt] = "ACTIVE_FOR_SCOPE"
           /\ build.at \in {"recordRegistration", "resuming", "available"} =>
                  generated[build.attempt] = "ACTIVE_FOR_SCOPE"
           /\ build.at \in {"resuming", "available"} => registration
    /\ build.at \in {"failing", "announcing"} /\ ~registered =>
           generated[build.attempt] \in {"none", "BUILD_FAILED"}
    /\ build.at = "announcing" => builds[build.attempt] = "BUILD_FAILED"
    /\ \A a \in Attempt : a > build.attempt => builds[a] = "none" /\ generated[a] = "none"

BuildInv == PlaceInv /\ LifecycleInv /\ StoredInv /\ RecordsFollowRegistry

\* Where a worker is, its operation is.
WorkerInv == \A b \in Branch :
    /\ worker[b] = "waiting" => operation[b] = "none" /\ result[b] = "none"
    /\ worker[b] \in {"executing", "draining"} => operation[b] # "none"
    /\ worker[b] \notin {"executing", "draining"} => operation[b] \in {"none", "done"}
    /\ operation[b] = "done" => result[b] # "none"
    /\ worker[b] \in {"publishing", "ended", "failed"} => result[b] # "none"
    /\ worker[b] = "ended" => b \in recorded
    /\ worker[b] \in {"draining", "cancelled"} =>
           cancelled \/ \E c \in Branch : worker[c] = "failed"
    /\ operation[b] = "building" => b = Generated

\* The build is part of one operation.
BuildOf ==
    /\ operation[Generated] \in {"none", "started"} => build.at = "idle"
    /\ operation[Generated] \in {"calculating", "committing"} => build.at = "available"
    /\ operation[Generated] = "done" =>
           \/ build.at \in {"idle", "available"}
           \/ build.at = "raised" /\ result[Generated] = BuildResult

CallInv ==
    call # "running" => (\A b \in Branch : worker[b] \in Final) /\ call = Verdict

IInv == TypeOK /\ BuildInv /\ WorkerInv /\ BuildOf /\ CallInv

-----------------------------------------------------------------------------

LEMMA InitInv == Init => IInv
  <1> SUFFICES ASSUME Init PROVE IInv
    OBVIOUS
  <1> USE AttemptsAssumption, BranchesAssumption
  <1>1. TypeOK
    <2>1. BuildTypeOK
      <3>1. build \in [at : Place, attempt : 0..MaxAttempts, lifecycle : Lifecycle,
                       error : Error \cup {"none"}]
        BY DEF Init, BuildInit, Place, Lifecycle
      <3>2. builds \in [Attempt -> Lifecycle] /\ generated \in [Attempt -> Lifecycle]
        BY DEF Init, BuildInit, Lifecycle
      <3> QED
        BY <3>1, <3>2 DEF Init, BuildInit, BuildTypeOK
    <2> QED
      BY <2>1 DEF Init, TypeOK
  <1>2. BuildInv
    BY DEF Init, BuildInit, BuildInv, PlaceInv, LifecycleInv, StoredInv, RecordsFollowRegistry,
       InLoop, Trying, Rejecting, Attempt
  <1>3. WorkerInv /\ BuildOf /\ CallInv
    BY DEF Init, BuildInit, WorkerInv, BuildOf, CallInv
  <1> QED
    BY <1>1, <1>2, <1>3 DEF IInv

\* What one write may change of the records, and where it happens.
LEMMA StoreEffect ==
  ASSUME BuildTypeOK, BuildInv, Store
  PROVE  /\ build.attempt \in Attempt
         /\ builds' \in [Attempt -> Lifecycle] /\ generated' \in [Attempt -> Lifecycle]
         /\ registration' \in BOOLEAN
         /\ \A a \in Attempt : a # build.attempt =>
                builds'[a] = builds[a] /\ generated'[a] = generated[a]
         /\ \/ /\ build.at = "requesting"
               /\ builds'[build.attempt] = "SPEC_APPROVED" /\ UNCHANGED <<generated, registration>>
            \/ /\ build.at = "recordBuild"
               /\ builds'[build.attempt] = build.lifecycle
               /\ UNCHANGED <<generated, registration>>
            \/ /\ build.at = "recordGenerated"
               /\ generated'[build.attempt] = build.lifecycle
               /\ UNCHANGED <<builds, registration>>
            \/ /\ build.at = "recordRegistration"
               /\ registration' = TRUE /\ UNCHANGED <<builds, generated>>
            \/ /\ build.at = "marking" /\ build.lifecycle \in {"none", "ACTIVE_FOR_SCOPE"}
               /\ UNCHANGED records
            \/ /\ build.at = "marking" /\ build.lifecycle \notin {"none", "ACTIVE_FOR_SCOPE"}
               /\ generated'[build.attempt] = "BUILD_FAILED"
               /\ UNCHANGED <<builds, registration>>
            \/ /\ build.at = "failing"
               /\ builds'[build.attempt] = "BUILD_FAILED" /\ UNCHANGED <<generated, registration>>
  <1>1. build.at \in InLoop /\ build.attempt \in Attempt
    BY DEF BuildInv, PlaceInv, Store, InLoop, Trying, Rejecting
  <1>2. build.lifecycle \in Lifecycle /\ {"SPEC_APPROVED", "BUILD_FAILED"} \subseteq Lifecycle
    BY DEF BuildTypeOK, Lifecycle
  <1>3. CASE build.at = "requesting" /\ StoreBuild("SPEC_APPROVED")
    BY <1>1, <1>2, <1>3 DEF BuildTypeOK, StoreBuild
  <1>4. CASE build.at = "recordBuild" /\ StoreBuild(build.lifecycle)
    BY <1>1, <1>2, <1>4 DEF BuildTypeOK, StoreBuild
  <1>5. CASE build.at = "recordGenerated" /\ StoreGenerated(build.lifecycle)
    BY <1>1, <1>2, <1>5 DEF BuildTypeOK, StoreGenerated
  <1>6. CASE build.at = "recordRegistration" /\ StoreRegistration
    BY <1>1, <1>6 DEF BuildTypeOK, StoreRegistration
  <1>7. CASE build.at = "marking" /\ MarkFailed
    BY <1>1, <1>2, <1>7 DEF BuildTypeOK, MarkFailed, StoreGenerated, records
  <1>8. CASE build.at = "failing" /\ StoreBuild("BUILD_FAILED")
    BY <1>1, <1>2, <1>8 DEF BuildTypeOK, StoreBuild
  <1> QED
    BY <1>3, <1>4, <1>5, <1>6, <1>7, <1>8 DEF Store

\* A write that succeeds, in the try or in its except block.
LEMMA RecordKeeps ==
  ASSUME BuildTypeOK, BuildInv, Record
  PROVE  BuildTypeOK' /\ BuildInv'
  <1> USE AttemptsAssumption
  <1>1. /\ build' = [build EXCEPT !.at = AfterStore]
        /\ UNCHANGED <<status, registered, announced>>
        /\ Store
    BY DEF Record
  <1>2. AfterStore \in Place
    BY DEF AfterStore, AfterRecords, Place, InLoop, Trying, Rejecting
  <1>3. /\ build'.at = AfterStore /\ build'.attempt = build.attempt
        /\ build'.lifecycle = build.lifecycle /\ build'.error = build.error
        /\ build' \in [at : Place, attempt : 0..MaxAttempts, lifecycle : Lifecycle,
                       error : Error \cup {"none"}]
    BY <1>1, <1>2 DEF BuildTypeOK
  <1>4. BuildTypeOK'
    BY <1>1, <1>3, StoreEffect DEF BuildTypeOK
  <1>5. PlaceInv'
    BY <1>1, <1>3, StoreEffect DEF BuildInv, PlaceInv, AfterStore, AfterRecords, InLoop, Trying,
       Rejecting
  <1>6. LifecycleInv'
    BY <1>1, <1>3, StoreEffect DEF BuildInv, LifecycleInv, AfterStore, AfterRecords
  <1>7. StoredInv' /\ RecordsFollowRegistry'
    <2>1. CASE build.at = "requesting"
      <3>1. /\ build'.at = "generating" /\ build.attempt \in Attempt /\ build.attempt # 0
            /\ builds'[build.attempt] = "SPEC_APPROVED" /\ UNCHANGED <<generated, registration>>
            /\ \A a \in Attempt : a # build.attempt => builds'[a] = builds[a]
        BY <1>1, <1>3, <2>1, StoreEffect DEF AfterStore, Attempt
      <3> QED
        BY <1>1, <1>3, <2>1, <3>1 DEF BuildInv, PlaceInv, LifecycleInv, StoredInv,
           RecordsFollowRegistry, Attempt, InLoop, Trying, Rejecting
    <2>2. CASE build.at = "recordBuild"
      <3>1. /\ build'.at = "recordGenerated" /\ build.attempt \in Attempt /\ build.attempt # 0
            /\ builds'[build.attempt] = build.lifecycle /\ UNCHANGED <<generated, registration>>
            /\ \A a \in Attempt : a # build.attempt => builds'[a] = builds[a]
        BY <1>1, <1>3, <2>2, StoreEffect DEF AfterStore, Attempt
      <3> QED
        BY <1>1, <1>3, <2>2, <3>1 DEF BuildInv, PlaceInv, LifecycleInv, StoredInv,
           RecordsFollowRegistry, Attempt, InLoop, Trying, Rejecting
    <2>3. CASE build.at = "recordGenerated"
      <3>1. /\ build'.at = AfterRecords
            /\ generated'[build.attempt] = build.lifecycle /\ UNCHANGED <<builds, registration>>
            /\ build.attempt \in Attempt /\ build.attempt # 0
            /\ \A a \in Attempt : a # build.attempt => generated'[a] = generated[a]
        BY <1>1, <1>3, <2>3, StoreEffect DEF AfterStore, Attempt
      <3>2. CASE build.lifecycle = "ACTIVE_FOR_SCOPE"
        <4>1. build'.at = "recordRegistration" /\ registered
          BY <2>3, <3>1, <3>2 DEF AfterRecords, BuildInv, PlaceInv
        <4> QED
          BY <1>1, <1>3, <2>3, <3>1, <3>2, <4>1 DEF BuildInv, PlaceInv, LifecycleInv, StoredInv,
           RecordsFollowRegistry, Attempt, InLoop, Trying, Rejecting
      <3>3. CASE build.lifecycle # "ACTIVE_FOR_SCOPE"
        <4>1. /\ build'.at \in {"validating", "activating", "registering"} /\ ~registered
              /\ build'.at = "registering" => build.lifecycle = "TASK_APPROVED"
              /\ build.lifecycle \in {"GENERATED", "FINANCIAL_VALIDATED", "TASK_APPROVED"}
          BY <2>3, <3>1, <3>3 DEF AfterRecords, BuildInv, PlaceInv, LifecycleInv
        <4> QED
          BY <1>1, <1>3, <2>3, <3>1, <3>3, <4>1 DEF BuildInv, PlaceInv, LifecycleInv, StoredInv,
           RecordsFollowRegistry, Attempt, InLoop, Trying, Rejecting
      <3> QED
        BY <3>2, <3>3
    <2>4. CASE build.at = "recordRegistration"
      <3>1. registration' = TRUE /\ UNCHANGED <<builds, generated>>
        BY ZenonT(30), <1>1, <2>4, StoreEffect
      <3>2. build'.at = "resuming" /\ build.attempt \in Attempt /\ build.attempt # 0
        BY <1>1, <1>3, <2>4, StoreEffect DEF AfterStore, Attempt
      <3>3. build.lifecycle = "ACTIVE_FOR_SCOPE" /\ registered
        BY <2>4, <3>2 DEF BuildInv, PlaceInv, LifecycleInv
      <3> QED
        BY <1>1, <1>3, <2>4, <3>1, <3>2, <3>3 DEF BuildInv, PlaceInv, LifecycleInv, StoredInv,
           RecordsFollowRegistry, Attempt, InLoop, Trying, Rejecting
    <2>5. CASE build.at = "marking"
      BY <1>1, <1>3, <2>5, StoreEffect DEF BuildInv, PlaceInv, LifecycleInv, StoredInv,
         RecordsFollowRegistry, Attempt, records, InLoop, Trying, Rejecting, AfterStore,
         AfterRecords
    <2>6. CASE build.at = "failing"
      <3>1. /\ build'.at = "announcing" /\ build.attempt \in Attempt /\ build.attempt # 0
            /\ builds'[build.attempt] = "BUILD_FAILED" /\ UNCHANGED <<generated, registration>>
            /\ \A a \in Attempt : a # build.attempt => builds'[a] = builds[a]
        BY <1>1, <1>3, <2>6, StoreEffect DEF AfterStore, Attempt
      <3> QED
        BY <1>1, <1>3, <2>6, <3>1 DEF BuildInv, PlaceInv, LifecycleInv, StoredInv,
           RecordsFollowRegistry, Attempt, InLoop, Trying, Rejecting
    <2> QED
      BY <1>1, <2>1, <2>2, <2>3, <2>4, <2>5, <2>6 DEF Store
  <1> QED
    BY <1>4, <1>5, <1>6, <1>7 DEF BuildInv

\* A failure inside the try: the write under way may have been stored.
LEMMA RejectKeeps ==
  ASSUME BuildTypeOK, BuildInv, Reject
  PROVE  BuildTypeOK' /\ BuildInv'
  <1> USE AttemptsAssumption
  <1>1. PICK error \in Failures(build.at) :
            build' = [build EXCEPT !.at = "marking", !.error = error]
    BY DEF Reject
  <1>2. /\ build.at \in Trying /\ UNCHANGED <<registered, announced>>
        /\ Store \/ UNCHANGED records
        /\ status' \in IF build.at = "resuming" THEN {status, "RUNNING"} ELSE {status}
    BY DEF Reject
  <1>3. /\ error \in {"local", "deadline", "global"}
        /\ error = "local" => build.at \in {"generating", "validating"}
    BY DEF Failures
  <1>4. /\ build'.at = "marking" /\ build'.attempt = build.attempt
        /\ build'.lifecycle = build.lifecycle /\ build'.error = error
        /\ build' \in [at : Place, attempt : 0..MaxAttempts, lifecycle : Lifecycle,
                       error : Error \cup {"none"}]
    BY <1>1, <1>3 DEF BuildTypeOK, Place, InLoop, Rejecting, Error
  <1>5. BuildTypeOK'
    BY <1>2, <1>4, StoreEffect DEF BuildTypeOK, records
  <1>6. PlaceInv' /\ LifecycleInv'
    BY <1>2, <1>3, <1>4 DEF BuildInv, PlaceInv, LifecycleInv, InLoop, Trying, Rejecting, Attempt
  <1>7. StoredInv' /\ RecordsFollowRegistry'
    <2>1. CASE Store
      <3>1. CASE build.at = "recordBuild"
        BY <1>2, <1>4, <2>1, <3>1, StoreEffect DEF BuildInv, PlaceInv, LifecycleInv, StoredInv,
           RecordsFollowRegistry, Attempt, records, InLoop, Trying, Rejecting
      <3>2. CASE build.at = "recordGenerated"
        BY <1>2, <1>4, <2>1, <3>2, StoreEffect DEF BuildInv, PlaceInv, LifecycleInv, StoredInv,
           RecordsFollowRegistry, Attempt, records, InLoop, Trying, Rejecting
      <3>3. CASE build.at = "recordRegistration"
        <4>1. registration' = TRUE /\ UNCHANGED <<builds, generated>>
          BY ZenonT(30), <3>3, <2>1, StoreEffect
        <4>2. build.attempt \in Attempt /\ build.attempt # 0
          BY <2>1, StoreEffect DEF Attempt
        <4>3. build.lifecycle = "ACTIVE_FOR_SCOPE" /\ registered
          BY <3>3, <4>2 DEF BuildInv, PlaceInv, LifecycleInv
        <4> QED
          BY <1>2, <1>4, <3>3, <4>1, <4>2, <4>3 DEF BuildInv, PlaceInv, LifecycleInv, StoredInv,
           RecordsFollowRegistry, Attempt, InLoop, Trying, Rejecting
      <3> QED
        BY <1>2, <2>1, <3>1, <3>2, <3>3 DEF Store, Trying, Rejecting
    <2>2. CASE UNCHANGED records
      BY <1>2, <1>4, <2>2 DEF BuildInv, PlaceInv, LifecycleInv, StoredInv,
         RecordsFollowRegistry, Attempt, records, InLoop, Trying, Rejecting
    <2> QED
      BY <1>2, <2>1, <2>2
  <1> QED
    BY <1>5, <1>6, <1>7 DEF BuildInv

\* A failure outside the try: the build is over, whatever was stored.
LEMMA StoreFailsKeeps ==
  ASSUME BuildTypeOK, BuildInv, StoreFails
  PROVE  BuildTypeOK' /\ BuildInv'
  <1> USE AttemptsAssumption
  <1>1. /\ build.at \in {"specifying", "requesting"} \cup Rejecting
        /\ build' = [build EXCEPT !.at = "raised", !.error = "global"]
        /\ Store \/ UNCHANGED records
        /\ UNCHANGED <<status, registered>>
    BY DEF StoreFails, Raises
  <1>2. announced' \in BOOLEAN
    BY DEF StoreFails, BuildTypeOK, Terminal
  <1>3. /\ build'.at = "raised" /\ build'.attempt = build.attempt
        /\ build'.lifecycle = build.lifecycle /\ build'.error = "global"
        /\ build' \in [at : Place, attempt : 0..MaxAttempts, lifecycle : Lifecycle,
                       error : Error \cup {"none"}]
    BY <1>1 DEF BuildTypeOK, Place, Error
  <1>4. BuildTypeOK'
    BY <1>1, <1>2, <1>3, StoreEffect DEF BuildTypeOK, records
  <1>5. PlaceInv' /\ LifecycleInv'
    BY <1>1, <1>3 DEF BuildInv, PlaceInv, LifecycleInv, InLoop, Trying, Rejecting, Error
  <1>6. StoredInv' /\ RecordsFollowRegistry'
    <2>1. CASE Store
      <3>1. CASE build.at = "requesting"
        BY <1>1, <1>3, <2>1, <3>1, StoreEffect DEF BuildInv, PlaceInv, LifecycleInv, StoredInv,
           RecordsFollowRegistry, Attempt, records, InLoop, Trying, Rejecting
      <3>2. CASE build.at = "marking"
        BY <1>1, <1>3, <2>1, <3>2, StoreEffect DEF BuildInv, PlaceInv, LifecycleInv, StoredInv,
           RecordsFollowRegistry, Attempt, records, InLoop, Trying, Rejecting
      <3>3. CASE build.at = "failing"
        BY <1>1, <1>3, <2>1, <3>3, StoreEffect DEF BuildInv, PlaceInv, LifecycleInv, StoredInv,
           RecordsFollowRegistry, Attempt, records, InLoop, Trying, Rejecting
      <3> QED
        BY <1>1, <2>1, <3>1, <3>2, <3>3 DEF Store, Trying, Rejecting
    <2>2. CASE UNCHANGED records
      BY <1>1, <1>3, <2>2 DEF BuildInv, PlaceInv, LifecycleInv, StoredInv,
         RecordsFollowRegistry, Attempt, records, InLoop, Trying, Rejecting
    <2> QED
      BY <1>1, <2>1, <2>2
  <1> QED
    BY <1>4, <1>5, <1>6 DEF BuildInv

\* What was generated reaches its next lifecycle, registered at the last.
LEMMA ReachesLifecycle ==
  ASSUME BuildTypeOK, BuildInv, Generate \/ Validate \/ Activate \/ Register
  PROVE  BuildTypeOK' /\ BuildInv'
  <1> USE AttemptsAssumption
  <1>1. PICK place \in {"generating", "validating", "activating", "registering"},
             lifecycle \in {"GENERATED", "FINANCIAL_VALIDATED", "TASK_APPROVED",
                            "ACTIVE_FOR_SCOPE"} :
            /\ Becomes(place, lifecycle)
            /\ IF lifecycle = "ACTIVE_FOR_SCOPE" THEN place = "registering" /\ registered' = TRUE
                                                 ELSE place # "registering" /\ UNCHANGED registered
    BY DEF Generate, Validate, Activate, Register
  <1>2. /\ build.at = place
        /\ build' = [build EXCEPT !.at = "recordBuild", !.lifecycle = lifecycle]
        /\ UNCHANGED <<status, builds, generated, registration, announced>>
    BY <1>1 DEF Becomes, records
  <1>3. /\ build'.at = "recordBuild" /\ build'.attempt = build.attempt
        /\ build'.lifecycle = lifecycle /\ build'.error = build.error
        /\ build' \in [at : Place, attempt : 0..MaxAttempts, lifecycle : Lifecycle,
                       error : Error \cup {"none"}]
    BY <1>2 DEF BuildTypeOK, Place, InLoop, Trying, Lifecycle
  <1>4. BuildTypeOK'
    BY <1>1, <1>2, <1>3 DEF BuildTypeOK
  <1>5. PlaceInv' /\ LifecycleInv'
    BY <1>1, <1>2, <1>3 DEF BuildInv, PlaceInv, LifecycleInv, InLoop, Trying, Rejecting, Attempt
  <1>6. StoredInv' /\ RecordsFollowRegistry'
    BY <1>1, <1>2, <1>3 DEF BuildInv, PlaceInv, LifecycleInv, StoredInv, RecordsFollowRegistry,
       Attempt, InLoop, Trying, Rejecting
  <1> QED
    BY <1>4, <1>5, <1>6 DEF BuildInv

\* Every step of the build, its failures included, keeps its story.
LEMMA BuildKeeps ==
  ASSUME BuildTypeOK, BuildInv, BuildStep
  PROVE  BuildTypeOK' /\ BuildInv'
  <1> USE AttemptsAssumption DEF BuildInv, PlaceInv, LifecycleInv, StoredInv,
          RecordsFollowRegistry, BuildTypeOK, Attempt, Place, Error, Lifecycle, InLoop, Trying,
          Rejecting, records
  <1>1. CASE ApproveSpec
    <2>1. build.at = "specifying" /\ build.attempt = 0 /\ ~registered /\ 1 \in 1..MaxAttempts
      BY <1>1 DEF ApproveSpec
    <2>2. build' = [at |-> "requesting", attempt |-> 1, lifecycle |-> build.lifecycle,
                    error |-> build.error]
      BY <1>1 DEF ApproveSpec
    <2>3. UNCHANGED <<status, registered, builds, generated, registration, announced>>
      BY <1>1 DEF ApproveSpec
    <2> QED
      BY <2>1, <2>2, <2>3
  <1>2. CASE RefuseSpec
    BY <1>2 DEF RefuseSpec, Raises
  <1>3. CASE SandboxUnavailable
    BY <1>3 DEF SandboxUnavailable, Raises
  <1>4. CASE Resume
    BY <1>4 DEF Resume, Moves
  <1>5. CASE Announce
    <2>1. /\ build.at = "announcing" /\ announced' = Terminal
          /\ UNCHANGED <<registered, builds, generated, registration>>
      BY <1>5 DEF Announce
    <2>2. CASE TryAgain
      <3>1. /\ build.error = "local" /\ ~registered /\ build.attempt \in 1..MaxAttempts
            /\ build.attempt # MaxAttempts /\ announced' = FALSE
        BY <2>1, <2>2 DEF TryAgain, Breaks, LastAttempt, Terminal
      <3>2. /\ build' = [at |-> "requesting", attempt |-> build.attempt + 1,
                         lifecycle |-> "none", error |-> "none"]
            /\ UNCHANGED status
        BY <2>2 DEF TryAgain
      <3>3. build.attempt + 1 \in 1..MaxAttempts
        BY <3>1
      <3>4. /\ build'.at = "requesting" /\ build'.attempt = build.attempt + 1
            /\ build'.lifecycle = "none" /\ build'.error = "none"
        BY <3>2
      <3>5. BuildTypeOK'
        <4>1. build' \in [at : Place, attempt : 0..MaxAttempts, lifecycle : Lifecycle,
                          error : Error \cup {"none"}]
          BY <3>2, <3>3
        <4>2. announced' \in BOOLEAN
          BY <3>1
        <4> QED
          BY <2>1, <3>2, <4>1, <4>2
      <3>6. PlaceInv' /\ LifecycleInv'
        BY <2>1, <3>1, <3>2, <3>3, <3>4
      <3>7. StoredInv'
        BY <2>1, <3>1, <3>3, <3>4
      <3>8. /\ ~registration
            /\ \A a \in Attempt : a < build.attempt + 1 =>
                   builds[a] = "BUILD_FAILED" /\ generated[a] \in {"none", "BUILD_FAILED"}
        <4>1. builds[build.attempt] = "BUILD_FAILED"
              /\ generated[build.attempt] \in {"none", "BUILD_FAILED"}
          BY <2>1, <3>1
        <4>2. \A a \in 1..MaxAttempts : a < build.attempt + 1 => a < build.attempt \/ a = build.attempt
          BY <3>1
        <4> QED
          BY <3>1, <4>1, <4>2
      <3>9. \A a \in Attempt : "ACTIVE_FOR_SCOPE" \notin {builds[a], generated[a]}
        BY <3>1
      <3>10. status # "CAPABILITY_BUILD_FAILED"
        BY <2>1
      <3>11. RecordsFollowRegistry'
        BY <2>1, <3>1, <3>2, <3>3, <3>4, <3>8, <3>9, <3>10
      <3> QED
        BY <3>5, <3>6, <3>7, <3>11
    <2>3. CASE GiveUp
      <3>1. announced' = TRUE
        BY <2>1, <2>3 DEF GiveUp, Breaks, LastAttempt, Terminal
      <3>2. /\ build' = [build EXCEPT !.at = "raised"]
            /\ status' = "CAPABILITY_BUILD_FAILED"
        BY <2>3 DEF GiveUp, Raises
      <3> QED
        BY <2>1, <3>1, <3>2
    <2> QED
      BY <1>5, <2>2, <2>3 DEF Announce
  <1> QED
    BY <1>1, <1>2, <1>3, <1>4, <1>5, RecordKeeps, RejectKeeps, StoreFailsKeeps, ReachesLifecycle
       DEF BuildStep

\* Looking the capability up begins the build.
LEMMA LookupKeeps ==
  ASSUME BuildTypeOK, BuildInv, Found \/ Gap
  PROVE  BuildTypeOK' /\ BuildInv' /\ build'.at \in {"available", "specifying"}
  BY AttemptsAssumption DEF BuildTypeOK, BuildInv, PlaceInv, LifecycleInv, StoredInv,
     RecordsFollowRegistry, Attempt, Place, Error, Lifecycle, InLoop, Trying, Rejecting, Found,
     Gap, Moves, records

\* An operation that ends without touching the build.
LEMMA OperationStepKeeps ==
  ASSUME IInv, NEW b \in Branch, OperationStep(b)
  PROVE  IInv'
  <1> USE BranchesAssumption
  <1>0. /\ worker[b] \in {"executing", "draining"}
        /\ UNCHANGED <<worker, recorded, cancelled, call>>
    BY DEF IInv, WorkerInv, TypeOK, OperationStep, InputsMissing, StartCalculation, StartBuild, GoOnBuilding,
       BuildSucceeds, BuildRaises, CalculationRaises, Calculate, Commit, CommitFails, Ends,
       GoesOn, branchVars
  <1>1. CallInv'
    BY <1>0 DEF IInv, CallInv, Final
  <1>2. CASE UNCHANGED buildVars
    <2>1. BuildTypeOK' /\ BuildInv'
      BY <1>2 DEF IInv, TypeOK, BuildTypeOK, BuildInv, PlaceInv, LifecycleInv,
         StoredInv, RecordsFollowRegistry, buildVars, records
    <2>2. CASE InputsMissing(b)
      BY <1>0, <1>1, <1>2, <2>1, <2>2 DEF IInv, TypeOK, WorkerInv, BuildOf, InputsMissing, Ends,
         buildVars, Unavailable, Failure, BuildResult
    <2>3. CASE StartCalculation(b)
      BY <1>0, <1>1, <1>2, <2>1, <2>3 DEF IInv, TypeOK, WorkerInv, BuildOf, StartCalculation,
         GoesOn, buildVars, BuildResult
    <2>5. CASE BuildSucceeds(b)
      BY <1>0, <1>1, <1>2, <2>1, <2>5 DEF IInv, TypeOK, WorkerInv, BuildOf, BuildSucceeds, GoesOn,
         buildVars, BuildResult
    <2>6. CASE BuildRaises(b)
      BY <1>0, <1>1, <1>2, <2>1, <2>6 DEF IInv, TypeOK, WorkerInv, BuildOf, BuildRaises, Ends,
         buildVars, BuildResult, Unavailable, Failure
    <2>7. CASE CalculationRaises(b)
      BY <1>0, <1>1, <1>2, <2>1, <2>7 DEF IInv, TypeOK, WorkerInv, BuildOf, CalculationRaises,
         Ends, buildVars, BuildResult, Unavailable, Failure
    <2>8. CASE Calculate(b)
      BY <1>0, <1>1, <1>2, <2>1, <2>8 DEF IInv, TypeOK, WorkerInv, BuildOf, Calculate, GoesOn,
         buildVars, BuildResult
    <2>9. CASE Commit(b)
      BY <1>0, <1>1, <1>2, <2>1, <2>9 DEF IInv, TypeOK, WorkerInv, BuildOf, Commit, buildVars,
         BuildResult
    <2>10. CASE CommitFails(b)
      BY <1>0, <1>1, <1>2, <2>1, <2>10 DEF IInv, TypeOK, WorkerInv, BuildOf, CommitFails,
         buildVars, BuildResult, Failure
    <2>11. CASE StartBuild(b)
      BY <1>2, <2>11 DEF IInv, TypeOK, BuildTypeOK, StartBuild, Found, Gap, Moves, buildVars,
         records
    <2>12. CASE GoOnBuilding(b)
      BY <1>0, <1>1, <1>2, <2>1, <2>12 DEF IInv, TypeOK, WorkerInv, BuildOf, GoOnBuilding,
         buildVars, branchVars, BuildResult
    <2> QED
      BY <2>2, <2>3, <2>5, <2>6, <2>7, <2>8, <2>9, <2>10, <2>11, <2>12 DEF OperationStep
  <1>3. CASE StartBuild(b)
    <2>1. BuildTypeOK' /\ BuildInv'
      BY <1>3, LookupKeeps DEF IInv, TypeOK, StartBuild
    <2> QED
      BY <1>0, <1>1, <1>3, <2>1 DEF IInv, TypeOK, WorkerInv, BuildOf, StartBuild, GoesOn
  <1>4. CASE GoOnBuilding(b)
    <2>1. BuildTypeOK' /\ BuildInv'
      BY <1>4, BuildKeeps DEF IInv, TypeOK, GoOnBuilding
    <2> QED
      BY <1>0, <1>1, <1>4, <2>1 DEF IInv, TypeOK, WorkerInv, BuildOf, GoOnBuilding, branchVars
  <1> QED
    BY <1>2, <1>3, <1>4 DEF OperationStep, InputsMissing, StartCalculation, BuildSucceeds,
       BuildRaises, CalculationRaises, Calculate, Commit, CommitFails, buildVars

\* What a cancellation of the group makes of each worker.
LEMMA AbortedWorkers ==
  ASSUME NEW w \in [Branch -> {"waiting", "executing", "draining", "publishing", "ended",
                               "cancelled", "failed"}]
  PROVE  /\ Aborted(w) \in [Branch -> {"executing", "draining", "ended", "cancelled", "failed"}]
         /\ \A b \in Branch :
                /\ Aborted(w)[b] # "executing"
                /\ w[b] \in {"waiting", "publishing"} => Aborted(w)[b] = "cancelled"
                /\ w[b] = "executing" => Aborted(w)[b] = "draining"
                /\ w[b] \in {"draining"} \cup Final => Aborted(w)[b] = w[b]
  BY DEF Aborted, Final

\* Steps of the workers and of the call leave the build alone.
LEMMA BuildStands ==
  ASSUME IInv, UNCHANGED buildVars
  PROVE  BuildTypeOK' /\ BuildInv' /\ BuildResult' = BuildResult
  BY DEF IInv, TypeOK, BuildTypeOK, BuildInv, PlaceInv, LifecycleInv,
         StoredInv, RecordsFollowRegistry, buildVars, records, BuildResult

\* A worker's step keeps the invariant, the failure of its publication included,
\* which cancels its siblings.
LEMMA WorkerStepKeeps ==
  ASSUME IInv, NEW b \in Branch, WorkerStep(b)
  PROVE  IInv'
  <1> USE BranchesAssumption
  <1>1. worker[b] \notin Final /\ UNCHANGED <<buildVars, saved, cancelled, call>>
    BY DEF WorkerStep, Skip, Enter, TakeResult, Publish, PublishFails, Drained, Final
  <1>2. CallInv'
    BY <1>1 DEF IInv, CallInv
  <1>3. BuildTypeOK' /\ BuildInv' /\ BuildResult' = BuildResult
    BY <1>1, BuildStands
  <1>4. CASE Skip(b)
    <2>1. TypeOK'
      BY <1>1, <1>3, <1>4 DEF Skip, IInv, TypeOK, Unavailable
    <2>2. WorkerInv'
      BY <1>1, <1>4 DEF Skip, IInv, TypeOK, WorkerInv
    <2>3. BuildOf'
      BY <1>1, <1>3, <1>4 DEF Skip, IInv, TypeOK, WorkerInv, BuildOf, buildVars
    <2> QED
      BY <1>2, <1>3, <2>1, <2>2, <2>3 DEF IInv
  <1>5. CASE Enter(b)
    <2>1. TypeOK'
      BY <1>1, <1>3, <1>5 DEF Enter, IInv, TypeOK
    <2>2. WorkerInv'
      BY <1>1, <1>5 DEF Enter, IInv, TypeOK, WorkerInv
    <2>3. BuildOf'
      BY <1>1, <1>3, <1>5 DEF Enter, IInv, TypeOK, WorkerInv, BuildOf, buildVars
    <2> QED
      BY <1>2, <1>3, <2>1, <2>2, <2>3 DEF IInv
  <1>6. CASE TakeResult(b) \/ Publish(b) \/ Drained(b)
    <2>1. TypeOK'
      BY <1>1, <1>3, <1>6 DEF TakeResult, Publish, Drained, IInv, TypeOK
    <2>2. WorkerInv'
      BY <1>1, <1>6 DEF TakeResult, Publish, Drained, IInv, TypeOK, WorkerInv
    <2>3. BuildOf'
      BY <1>1, <1>3, <1>6 DEF TakeResult, Publish, Drained, IInv, TypeOK, BuildOf, buildVars
    <2> QED
      BY <1>2, <1>3, <2>1, <2>2, <2>3 DEF IInv
  <1>7. CASE PublishFails(b)
    <2> DEFINE w == [worker EXCEPT ![b] = "failed"]
    <2>1. /\ worker \in [Branch -> {"waiting", "executing", "draining", "publishing", "ended",
                                    "cancelled", "failed"}]
          /\ w \in [Branch -> {"waiting", "executing", "draining", "publishing", "ended",
                               "cancelled", "failed"}]
          /\ \A c \in Branch : w[c] = IF c = b THEN "failed" ELSE worker[c]
      BY DEF IInv, TypeOK
    <2>2. worker' = Aborted(w) /\ recorded' \in {recorded, recorded \cup {b}}
          /\ worker[b] = "publishing" /\ UNCHANGED <<operation, result>>
      BY <1>7 DEF PublishFails
    <2> HIDE DEF w
    <2>3. /\ worker' \in [Branch -> {"executing", "draining", "ended", "cancelled", "failed"}]
          /\ \A c \in Branch :
                 /\ worker'[c] # "executing"
                 /\ w[c] \in {"waiting", "publishing"} => worker'[c] = "cancelled"
                 /\ w[c] = "executing" => worker'[c] = "draining"
                 /\ w[c] \in {"draining"} \cup Final => worker'[c] = w[c]
      BY <2>1, <2>2, AbortedWorkers
    <2>4. TypeOK'
      BY <1>1, <1>3, <2>2, <2>3 DEF IInv, TypeOK
    <2>5. worker'[b] = "failed"
      BY <2>1, <2>3 DEF Final
    <2>6. WorkerInv'
      BY <1>1, <2>1, <2>2, <2>3, <2>5 DEF IInv, WorkerInv, Final
    <2>7. BuildOf'
      BY <1>1, <1>3, <2>2 DEF IInv, BuildOf, buildVars
    <2> QED
      BY <1>2, <1>3, <2>4, <2>6, <2>7 DEF IInv
  <1> QED
    BY <1>4, <1>5, <1>6, <1>7 DEF WorkerStep

\* A cancellation of the call, from whatever its workers do.
LEMMA CancelCallKeeps ==
  ASSUME IInv, CancelCall
  PROVE  IInv'
  <1> USE BranchesAssumption
  <1>1. /\ UNCHANGED <<buildVars, operation, result, saved, call>>
        /\ call = "running" /\ cancelled' = TRUE /\ worker' = Aborted(worker)
        /\ \A b \in recorded : b \in recorded'
        /\ recorded' \in SUBSET Branch
    BY DEF CancelCall, IInv, TypeOK
  <1>2. /\ worker' \in [Branch -> {"executing", "draining", "ended", "cancelled", "failed"}]
        /\ \A b \in Branch :
               /\ worker'[b] # "executing"
               /\ worker[b] \in {"waiting", "publishing"} => worker'[b] = "cancelled"
               /\ worker[b] = "executing" => worker'[b] = "draining"
               /\ worker[b] \in {"draining"} \cup Final => worker'[b] = worker[b]
    BY <1>1, AbortedWorkers DEF IInv, TypeOK
  <1>3. BuildTypeOK' /\ BuildInv' /\ BuildResult' = BuildResult
    BY <1>1, BuildStands
  <1>4. TypeOK'
    BY <1>1, <1>2, <1>3 DEF IInv, TypeOK
  <1>5. WorkerInv'
    <2> SUFFICES ASSUME NEW b \in Branch
                 PROVE  /\ worker'[b] \in {"executing", "draining"} => operation[b] # "none"
                        /\ worker'[b] \notin {"executing", "draining"} =>
                               operation[b] \in {"none", "done"}
                        /\ worker'[b] \in {"ended", "failed"} => result[b] # "none"
                        /\ worker'[b] = "ended" => b \in recorded'
      BY <1>1, <1>2 DEF IInv, WorkerInv
    <2> QED
      BY <1>1, <1>2 DEF IInv, TypeOK, WorkerInv, Final
  <1>6. BuildOf' /\ CallInv'
    BY <1>1, <1>3 DEF IInv, BuildOf, CallInv, buildVars
  <1> QED
    BY <1>3, <1>4, <1>5, <1>6 DEF IInv

\* The end of the call.
LEMMA CallEndsKeeps ==
  ASSUME IInv, CallEnds
  PROVE  IInv'
  <1>1. BuildTypeOK' /\ BuildInv' /\ BuildResult' = BuildResult
    BY BuildStands DEF CallEnds
  <1>2. TypeOK'
    BY <1>1 DEF IInv, TypeOK, CallEnds, Verdict
  <1>3. WorkerInv' /\ BuildOf'
    BY <1>1 DEF IInv, WorkerInv, BuildOf, CallEnds, buildVars
  <1>4. CallInv'
    BY DEF IInv, CallInv, CallEnds, Verdict, Final
  <1> QED
    BY <1>1, <1>2, <1>3, <1>4 DEF IInv

\* A stuttering step.
LEMMA StutterKeeps ==
  ASSUME IInv, UNCHANGED vars
  PROVE  IInv'
  <1>1. BuildTypeOK' /\ BuildInv' /\ BuildResult' = BuildResult
    BY BuildStands DEF vars
  <1>2. TypeOK'
    BY <1>1 DEF IInv, TypeOK, vars, branchVars
  <1>3. WorkerInv' /\ BuildOf'
    BY <1>1 DEF IInv, WorkerInv, BuildOf, vars, buildVars, branchVars
  <1>4. CallInv'
    BY DEF IInv, CallInv, Verdict, vars, branchVars
  <1> QED
    BY <1>1, <1>2, <1>3, <1>4 DEF IInv

\* The invariant is inductive.
LEMMA NextInv == IInv /\ [Next]_vars => IInv'
  <1> SUFFICES ASSUME IInv, [Next]_vars PROVE IInv'
    OBVIOUS
  <1>1. CASE \E b \in Branch : OperationStep(b) \/ WorkerStep(b)
    BY <1>1, OperationStepKeeps, WorkerStepKeeps
  <1>2. CASE CallEnds
    BY <1>2, CallEndsKeeps
  <1>3. CASE CancelCall
    BY <1>3, CancelCallKeeps
  <1>4. CASE UNCHANGED vars
    BY <1>4, StutterKeeps
  <1> QED
    BY <1>1, <1>2, <1>3, <1>4 DEF Next, Progress

LEMMA AlwaysInv == Spec => []IInv
  BY InitInv, NextInv, PTL DEF Spec

-----------------------------------------------------------------------------

\* What the inductive invariant says of a call that is over.
LEMMA Settles == IInv => CallIsSettled
  <1> SUFFICES ASSUME IInv, call # "running"
               PROVE  /\ \A b \in Branch : operation[b] \in {"none", "done"}
                      /\ call \in {"returned", "local", "global"} => recorded = Branch
                      /\ call \in {"returned", "local"} => status # "WAITING_FOR_CAPABILITY"
                      /\ call = "returned" => status = "RUNNING"
    BY DEF CallIsSettled
  <1> USE BranchesAssumption
  <1>1. (\A b \in Branch : worker[b] \in Final) /\ call = Verdict
    BY DEF IInv, CallInv
  <1>2. \A b \in Branch : operation[b] \in {"none", "done"}
    BY <1>1 DEF IInv, WorkerInv, Final
  <1>3. ASSUME call \in {"returned", "local", "global"}
        PROVE  \A b \in Branch : worker[b] = "ended" /\ result[b] # "none"
    <2>1. /\ \A b \in Branch : worker[b] # "failed"
          /\ ~cancelled
      <3>1. Verdict \notin {"raised", "cancelled"}
        BY <1>1, <1>3
      <3> QED
        BY <3>1 DEF Verdict
    <2> QED
      BY <1>1, <2>1 DEF IInv, WorkerInv, Final
  <1>4. call \in {"returned", "local", "global"} => recorded = Branch
    BY <1>3 DEF IInv, TypeOK, WorkerInv
  <1>5. ASSUME call \in {"returned", "local"}
        PROVE  /\ \A b \in Branch : result[b] # "global"
               /\ call = "returned" => \A b \in Branch : result[b] # "local"
    <2>1. Verdict \in {"returned", "local"} /\ (call = "returned" => Verdict = "returned")
      BY <1>1, <1>5
    <2> QED
      BY <2>1 DEF Verdict
  <1>6. ASSUME call \in {"returned", "local"}
        PROVE  /\ status # "WAITING_FOR_CAPABILITY"
               /\ call = "returned" => status = "RUNNING"
    <2>1. CASE build.at \in {"idle", "available"}
      BY <2>1 DEF IInv, BuildInv, PlaceInv
    <2>2. CASE build.at \notin {"idle", "available"}
      <3>1. build.at = "raised" /\ result[Generated] = BuildResult
        BY <1>2, <2>2 DEF IInv, BuildOf
      <3>2. build.error \in Error
        BY <3>1 DEF IInv, BuildInv, PlaceInv
      <3>3. CASE build.error = "sandbox"
        BY <3>1, <3>3 DEF IInv, BuildInv, PlaceInv
      <3>4. CASE build.error \in {"local", "deadline"}
        BY <1>5, <1>6, <3>1, <3>4 DEF IInv, BuildInv, PlaceInv, BuildResult
      <3>5. CASE build.error = "global"
        BY <1>5, <1>6, <3>1, <3>5 DEF BuildResult
      <3> QED
        BY <3>2, <3>3, <3>4, <3>5 DEF Error
    <2> QED
      BY <2>1, <2>2
  <1> QED
    BY <1>2, <1>4, <1>6

\* Type correctness of the call and of the build within it.
THEOREM TypeCorrect == Spec => []TypeOK
  BY AlwaysInv, PTL DEF IInv

\* Whichever write fails during a build, also after the capability is registered,
\* its records say what a registry that changes before them allows
\* (lookup_or_build).
THEOREM RecordsStayTrue == Spec => []RecordsFollowRegistry
  <1>1. IInv => RecordsFollowRegistry
    BY DEF IInv, BuildInv
  <1> QED
    BY <1>1, AlwaysInv, PTL

\* A call that is over leaves nothing running and no outcome unpublished
\* (execute_financial_branches).
THEOREM CallsSettle == Spec => []CallIsSettled
  BY AlwaysInv, Settles, PTL

=============================================================================
