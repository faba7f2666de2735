------------------------ MODULE EvaluationGateway_proofs ------------------------
(***************************************************************************)
(* What EvaluationGateway guarantees for every number of processes, keys,  *)
(* operations and retries: its types, that its reservations are those of   *)
(* EvaluationAllowance, that what is forwarded stays within the quota,     *)
(* that every call to the provider is paid for, and that a key which       *)
(* refused is left alone.                                                  *)
(***************************************************************************)
EXTENDS EvaluationGateway, FiniteSetTheorems, TLAPS

-----------------------------------------------------------------------------
(* Type correctness.  A request is made only while tries remain.           *)

TryInv ==
    \A o \in Operation :
        /\ client[o] = "idle" => tries[o] = 0
        /\ client[o] = "backoff" => tries[o] < Tries
        /\ req[o].place # "none" => tries[o] \in 1 .. Tries

\* What a transaction is about to write was computed from the row as it is.
WriteInv ==
    \A o \in Operation :
        req[o].place = "writing" =>
            LET c == CredentialOf[o] counts == row[c].counts
            IN  \E m \in 0 .. LastMinute :
                    LET rate == IF counts.window = m THEN counts.rate ELSE 0
                    IN  /\ row[c].issued /\ ~row[c].revoked
                        /\ counts.used[KindOf[o]] < Maximum[c][KindOf[o]]
                        /\ rate < PerMinute[c]
                        /\ counts.window <= m /\ m <= minute
                        /\ req[o].next = [used |-> [counts.used EXCEPT ![KindOf[o]] = @ + 1],
                                          window |-> m, rate |-> rate + 1]

\* One transaction holds the write lock.
LockInv ==
    \A o, u \in Operation :
        { req[o].place, req[u].place } \subseteq { "reading", "writing" } => o = u

WindowInv == \A c \in Credential : row[c].counts.window <= minute

SInv == TypeOK /\ TryInv /\ WriteInv /\ LockInv /\ WindowInv

LEMMA ConstantFacts ==
    /\ Tries \in Nat /\ 1 <= Tries
    /\ 0 \in Key /\ KeyCount \in Nat /\ KeyCount >= 1
    /\ KindOf \in [Operation -> Kind]
    /\ (CHOOSE p \in Process : TRUE) \in Process
  BY GatewayAssumption DEF Tries, Key, KindOf, Kind

LEMMA FreshTypes ==
    /\ \A p \in Process, where \in Place : Fresh(p, where) \in Request
    /\ NoRequest \in Request
    /\ FreshPool \in Pool
    /\ NoCounts \in Counts /\ NoRow \in Row
  BY ConstantFacts
  DEF Fresh, NoRequest, FreshPool, NoRow, NoCounts, Request, Pool, Row, Counts, Place, Answer,
      Authorizing

\* Answering a request.
LEMMA AnswersType ==
    ASSUME TypeOK, NEW o \in Operation, NEW a \in Answer, Answers(o, a)
    PROVE  /\ req' \in [Operation -> Request]
           /\ req'[o].place = "answered" /\ req'[o].at = req[o].at /\ req'[o].answer = a
           /\ \A u \in Operation \ {o} : req'[u] = req[u]
  <1> DEFINE over == [req[o] EXCEPT !.place = "answered", !.answer = a]
  <1>1. "answered" \in Place /\ req \in [Operation -> Request] /\ req[o] \in Request
    BY DEF Place, TypeOK
  <1>2. /\ over \in Request
        /\ over.place = "answered" /\ over.at = req[o].at /\ over.answer = a
    BY <1>1 DEF Request
  <1>3. req' = [req EXCEPT ![o] = over]
    BY DEF Answers
  <1> HIDE DEF over
  <1>4. QED
    BY <1>1, <1>2, <1>3

\* A new turn of the key loop keeps the types, and waits or answers.
LEMMA NextKeyType ==
    ASSUME TypeOK, NEW o \in Operation, NEW pl \in Pool, NEW tried \in SUBSET Key,
           NEW last \in Answer, NextKey(o, pl, tried, last)
    PROVE  /\ req' \in [Operation -> Request]
           /\ calls' \in Nat
           /\ req'[o].place \in { "fetching", "answered" }
           /\ req'[o].at = req[o].at
           /\ \A u \in Operation \ {o} : req'[u] = req[u]
  <1>1. \A k \in Select(pl, Untried(pl, tried)) : k \in Key
    BY DEF Select, Untried
  <1>2. /\ "fetching" \in Place /\ "answered" \in Place
        /\ { "retry", "final", last } \subseteq Answer
    BY DEF Place, Answer
  <1>3. req \in [Operation -> Request] /\ calls \in Nat /\ calls + 1 \in Nat
    BY DEF TypeOK
  <1>4. CASE \E k \in Select(pl, Untried(pl, tried)) :
                /\ req' = [req EXCEPT ![o].place = "fetching", ![o].slot = k,
                                      ![o].tried = tried \cup {k}]
                /\ calls' = calls + 1
    <2>1. PICK k \in Key :
             /\ req' = [req EXCEPT ![o].place = "fetching", ![o].slot = k,
                                   ![o].tried = tried \cup {k}]
             /\ calls' = calls + 1
      BY <1>1, <1>4
    <2>2. tried \cup {k} \in SUBSET Key
      OBVIOUS
    <2>3. QED
      BY <1>2, <1>3, <2>1, <2>2 DEF Request
  <1>5. CASE \E a \in Answer : Answers(o, a) /\ UNCHANGED calls
    BY <1>3, <1>5, AnswersType
  <1>6. (IF Unavailable(pl) # Key /\ last # "none" THEN last
         ELSE IF pl.limited = Key THEN "retry" ELSE "final") \in Answer
    BY <1>2
  <1>7. CASE /\ UNCHANGED calls
             /\ req' = [req EXCEPT ![o].place = "answered",
                                   ![o].answer = IF Unavailable(pl) # Key /\ last # "none" THEN last
                                                 ELSE IF pl.limited = Key THEN "retry" ELSE "final"]
    BY <1>5, <1>6, <1>7 DEF Answers
  <1>8. QED
    BY <1>4, <1>7 DEF NextKey

\* Moving a request within the gateway.
LEMMA MoveType ==
    ASSUME TypeOK, NEW o \in Operation, NEW where \in Place, Move(o, where)
    PROVE  /\ req' \in [Operation -> Request]
           /\ req'[o].place = where /\ req'[o].at = req[o].at /\ req'[o].answer = req[o].answer
           /\ \A u \in Operation \ {o} : req'[u] = req[u]
  BY DEF TypeOK, Move, Request

\* The steps of dispatch and of the key loop, and those that end authorize
\* without a word to the store.
Forwards(o) ==
    \/ Enter(o) \/ StoreBusy(o) \/ Dispatch(o) \/ ModelAnswers(o) \/ Deadline(o)
    \/ TakeKeys(o) \/ KeyAnswers(o) \/ KeyRefused(o)

LEMMA ForwardsEffect ==
    ASSUME TypeOK, NEW o \in Operation, Forwards(o)
    PROVE  /\ req' \in [Operation -> Request]
           /\ pool' \in [Process -> Pool]
           /\ sent' \subseteq granted
           /\ calls' \in Nat
           /\ refusals' \in [Process -> [Key -> Nat]]
           /\ UNCHANGED <<minute, row, client, tries, crashes, granted>>
           /\ \A u \in Operation \ {o} : req'[u] = req[u]
           /\ req'[o].at = req[o].at
           /\ req[o].place \notin { "none", "reading", "writing" }
           /\ req'[o].place \notin { "none", "arrived", "reading", "writing", "granted" }
           /\ req'[o].place = "locking" => req[o].place = "arrived"
  <1> USE DEF history
  <1>0. /\ req[o] \in Request /\ req[o].at \in Process /\ req[o].slot \in Key
        /\ req[o].tried \in SUBSET Key
        /\ pool[req[o].at] \in Pool
        /\ { "locking", "queued", "calling", "answered" } \subseteq Place
        /\ { "final", "retry", "none" } \subseteq Answer
        /\ Refusal \subseteq Answer
        /\ 0 \in Nat /\ KeyCount \in Nat /\ KeyCount >= 1
        /\ pool \in [Process -> Pool] /\ sent \subseteq granted /\ calls \in Nat
        /\ refusals \in [Process -> [Key -> Nat]]
    BY ConstantFacts DEF TypeOK, Request, Place, Authorizing, Answer, Refusal
  <1>1. CASE Enter(o)
    BY <1>0, <1>1, MoveType DEF Enter
  <1>2. CASE StoreBusy(o)
    BY <1>0, <1>2, AnswersType DEF StoreBusy
  <1>3. CASE Dispatch(o)
    <2>1. PICK where \in { "queued", "calling" } : Move(o, where)
      BY <1>3 DEF Dispatch
    <2>2. sent' \subseteq granted
      BY <1>0, <1>3 DEF Dispatch
    <2>3. QED
      BY <1>0, <1>3, <2>1, <2>2, MoveType DEF Dispatch
  <1>5. CASE ModelAnswers(o)
    BY <1>0, <1>5, AnswersType DEF ModelAnswers
  <1>6. CASE Deadline(o)
    BY <1>0, <1>6, AnswersType DEF Deadline
  <1>7. CASE TakeKeys(o)
    <2>1. NextKey(o, pool[req[o].at], {}, "none") /\ req[o].place = "queued"
      BY <1>7 DEF TakeKeys
    <2>2. QED
      BY <1>0, <1>7, <2>1, NextKeyType DEF TakeKeys
  <1>8. CASE KeyAnswers(o)
    <2>1. pool' \in [Process -> Pool]
      BY <1>0, <1>8 DEF KeyAnswers, TypeOK, Pool
    <2>2. QED
      BY <1>0, <1>8, <2>1, AnswersType DEF KeyAnswers
  <1>9. CASE KeyRefused(o)
    <2> DEFINE p == req[o].at
               k == req[o].slot
    <2>1. PICK r \in Refusal :
             /\ pool' = [pool EXCEPT ![p] = Refused(@, k, r)]
             /\ NextKey(o, Refused(pool[p], k, r), req[o].tried, r)
             /\ refusals' = [refusals EXCEPT ![p][k] = @ + 1]
      BY <1>9 DEF KeyRefused
    <2>2. (k + 1) % KeyCount \in Key
      BY <1>0 DEF Key
    <2>3. Refused(pool[p], k, r) \in Pool
      BY <1>0, <2>2 DEF Refused, Pool
    <2>4. pool' \in [Process -> Pool]
      BY <2>1, <2>3 DEF TypeOK
    <2>5. refusals' \in [Process -> [Key -> Nat]]
      BY <1>0, <2>1 DEF TypeOK
    <2>6. /\ req' \in [Operation -> Request] /\ calls' \in Nat
          /\ req'[o].place \in { "fetching", "answered" } /\ req'[o].at = req[o].at
          /\ \A u \in Operation \ {o} : req'[u] = req[u]
      BY <1>0, <2>1, <2>3, NextKeyType
    <2>7. /\ req[o].place = "fetching" /\ sent' \subseteq granted
          /\ UNCHANGED <<minute, row, client, tries, crashes, granted>>
      BY <1>0, <1>9 DEF KeyRefused
    <2>8. QED
      BY <2>4, <2>5, <2>6, <2>7
  <1>10. QED
    BY <1>1, <1>2, <1>3, <1>5, <1>6, <1>7, <1>8, <1>9 DEF Forwards

LEMMA InitSInv == Init => SInv
  <1> SUFFICES ASSUME Init PROVE SInv
    OBVIOUS
  <1>1. TypeOK
    BY ConstantFacts, FreshTypes, GatewayAssumption DEF Init, TypeOK
  <1>2. \A o \in Operation : req[o].place = "none"
    BY DEF Init, NoRequest, Fresh
  <1>3. TryInv /\ WriteInv /\ LockInv
    BY <1>2, ConstantFacts DEF Init, TryInv, WriteInv, LockInv
  <1>4. WindowInv
    BY DEF Init, WindowInv, NoRow, NoCounts
  <1>5. QED
    BY <1>1, <1>3, <1>4 DEF SInv

\* A request that neither enters nor leaves a transaction disturbs none, and a
\* later clock neither.
LEMMA TransactionsUndisturbed ==
    ASSUME SInv, UNCHANGED row, minute' \in Nat, minute <= minute',
           \A u \in Operation :
               req'[u] = req[u] \/ req'[u].place \notin { "reading", "writing" }
    PROVE  WriteInv' /\ LockInv' /\ WindowInv'
  <1>1. \A u \in Operation :
           req'[u].place \in { "reading", "writing" } => req'[u] = req[u]
    OBVIOUS
  <1>2. LockInv'
    BY <1>1 DEF SInv, LockInv
  <1>3. minute \in Nat /\ \A c \in Credential : row[c].counts.window \in Nat
    BY DEF SInv, TypeOK, Row, Counts
  <1>4. WindowInv'
    BY <1>3 DEF SInv, WindowInv
  <1>5. ASSUME NEW u \in Operation, req'[u].place = "writing"
        PROVE  LET c == CredentialOf[u] counts == row'[c].counts
               IN  \E m \in 0 .. LastMinute :
                       LET rate == IF counts.window = m THEN counts.rate ELSE 0
                       IN  /\ row'[c].issued /\ ~row'[c].revoked
                           /\ counts.used[KindOf[u]] < Maximum[c][KindOf[u]]
                           /\ rate < PerMinute[c]
                           /\ counts.window <= m /\ m <= minute'
                           /\ req'[u].next = [used |-> [counts.used EXCEPT ![KindOf[u]] = @ + 1],
                                              window |-> m, rate |-> rate + 1]
    <2>1. req'[u] = req[u] /\ req[u].place = "writing"
      BY <1>1, <1>5
    <2> DEFINE c == CredentialOf[u]
               counts == row[c].counts
               Rate(m) == IF counts.window = m THEN counts.rate ELSE 0
    <2>2. PICK m \in 0 .. LastMinute :
             /\ row[c].issued /\ ~row[c].revoked
             /\ counts.used[KindOf[u]] < Maximum[c][KindOf[u]]
             /\ Rate(m) < PerMinute[c]
             /\ counts.window <= m /\ m <= minute
             /\ req[u].next = [used |-> [counts.used EXCEPT ![KindOf[u]] = @ + 1],
                               window |-> m, rate |-> Rate(m) + 1]
      BY <2>1 DEF SInv, WriteInv
    <2>3. m <= minute'
      BY <1>3, <2>2
    <2>4. QED
      BY <2>1, <2>2, <2>3
  <1>6. WriteInv'
    BY <1>5 DEF WriteInv
  <1>7. QED
    BY <1>2, <1>4, <1>6

\* The steps on the credentials: what they do to the row of one of them.
LEMMA ReservationEffect ==
    ASSUME SInv, NEW o \in Operation,
           BeginReservation(o) \/ CheckCredential(o) \/ CommitReservation(o)
    PROVE  /\ SInv'
           /\ UNCHANGED <<minute, client, tries, pool, crashes, sent, calls, refusals>>
           /\ \A u \in Operation \ {o} : req'[u] = req[u]
           /\ req[o].place \in { "locking", "reading", "writing" }
           /\ req'[o].place \notin { "none", "arrived", "queued", "fetching" }
           /\ req'[o].at = req[o].at /\ req'[o].answer \in { req[o].answer, "final" }
  <1> USE DEF history
  <1>0. /\ TypeOK /\ TryInv /\ WriteInv /\ LockInv /\ WindowInv
        /\ req \in [Operation -> Request] /\ row \in [Credential -> Row]
        /\ minute \in 0 .. LastMinute /\ LastMinute \in Nat
        /\ CredentialOf[o] \in Credential /\ KindOf[o] \in Kind
        /\ { "reading", "writing", "granted" } \subseteq Place /\ "final" \in Answer
    BY ConstantFacts, GatewayAssumption DEF SInv, TypeOK, Place, Authorizing, Answer
  <1> DEFINE c == CredentialOf[o]
             counts == row[c].counts
             Counted(m) == [used |-> [counts.used EXCEPT ![KindOf[o]] = @ + 1], window |-> m,
                            rate |-> (IF counts.window = m THEN counts.rate ELSE 0) + 1]
  <1>1. counts \in Counts /\ \A m \in Nat : Counted(m) \in Counts
    BY <1>0 DEF Row, Counts
  <1>3. CASE BeginReservation(o)
    <2>1. /\ ~Locked /\ req[o].place = "locking" /\ Move(o, "reading")
          /\ UNCHANGED <<minute, row, client, tries, pool, crashes, granted, sent, calls, refusals>>
      BY <1>3 DEF BeginReservation
    <2>2. /\ req' \in [Operation -> Request] /\ req'[o].place = "reading" /\ req'[o].answer = req[o].answer
          /\ req'[o].at = req[o].at /\ \A u \in Operation \ {o} : req'[u] = req[u]
      BY <1>0, <2>1, MoveType
    <2>3. TypeOK'
      BY <1>0, <2>1, <2>2 DEF TypeOK
    <2>4. TryInv'
      BY <1>0, <2>1, <2>2 DEF TryInv
    <2>5. \A u \in Operation \ {o} : req'[u].place \notin { "reading", "writing" }
      BY <2>1, <2>2 DEF Locked
    <2>6. WriteInv' /\ LockInv'
      BY <2>2, <2>5 DEF WriteInv, LockInv
    <2>7. WindowInv'
      BY <1>0, <2>1 DEF WindowInv
    <2>8. QED
      BY <2>1, <2>2, <2>3, <2>4, <2>6, <2>7 DEF SInv
  <1>4. CASE CheckCredential(o)
    <2>1. /\ req[o].place = "reading"
          /\ UNCHANGED <<minute, row, client, tries, pool, crashes, granted, sent, calls, refusals>>
      BY <1>4 DEF CheckCredential
    <2>2. CASE ~Grantable(o) /\ Answers(o, "final")
      <3>1. /\ req' \in [Operation -> Request] /\ req'[o].place = "answered" /\ req'[o].answer = "final"
            /\ req'[o].at = req[o].at /\ \A u \in Operation \ {o} : req'[u] = req[u]
        BY <1>0, <2>2, AnswersType
      <3>2. TypeOK' /\ TryInv'
        BY <1>0, <2>1, <3>1 DEF TypeOK, TryInv
      <3>3. WriteInv' /\ LockInv' /\ WindowInv'
        BY <1>0, <2>1, <3>1, TransactionsUndisturbed
      <3>4. QED
        BY <2>1, <3>1, <3>2, <3>3 DEF SInv
    <2>3. CASE /\ Grantable(o)
               /\ req' = [req EXCEPT ![o].place = "writing", ![o].next = Reserve(counts, KindOf[o])]
      <3>1. Reserve(counts, KindOf[o]) = Counted(minute)
        BY DEF Reserve, RateNow
      <3>2. /\ req' \in [Operation -> Request] /\ req'[o].place = "writing"
            /\ req'[o].next = Counted(minute) /\ req'[o].answer = req[o].answer
            /\ req'[o].at = req[o].at /\ \A u \in Operation \ {o} : req'[u] = req[u]
        <4>1. Counted(minute) \in Counts
          BY <1>0, <1>1
        <4>2. req' = [req EXCEPT ![o].place = "writing", ![o].next = Counted(minute)]
          BY <2>3, <3>1
        <4> HIDE DEF Counted
        <4>3. QED
          BY <1>0, <4>1, <4>2 DEF Request
      <3>3. TypeOK' /\ TryInv'
        <4>1. TypeOK'
          BY <1>0, <2>1, <3>2 DEF TypeOK
        <4>2. TryInv'
          BY <1>0, <2>1, <3>2 DEF TryInv
        <4>3. QED
          BY <4>1, <4>2
      <3>4. \A u \in Operation \ {o} : req'[u].place \notin { "reading", "writing" }
        BY <1>0, <2>1, <3>2 DEF LockInv
      <3>5. /\ row[c].issued /\ ~row[c].revoked
            /\ counts.used[KindOf[o]] < Maximum[c][KindOf[o]]
            /\ (IF counts.window = minute THEN counts.rate ELSE 0) < PerMinute[c]
        BY <2>3 DEF Grantable, RateNow
      <3>6. counts.window <= minute /\ minute <= minute
        BY <1>0 DEF WindowInv
      <3>7. WriteInv'
        <4>1. \A u \in Operation : req'[u].place = "writing" => u = o
          BY <3>4
        <4>2. minute \in 0 .. LastMinute /\ UNCHANGED <<minute, row>>
          BY <1>0, <2>1
        <4>3. /\ row'[c].issued /\ ~row'[c].revoked
              /\ row'[c].counts.used[KindOf[o]] < Maximum[c][KindOf[o]]
              /\ (IF row'[c].counts.window = minute THEN row'[c].counts.rate ELSE 0) < PerMinute[c]
              /\ row'[c].counts.window <= minute /\ minute <= minute'
          BY <3>5, <3>6, <4>2
        <4>4. req'[o].next = [used |-> [row'[c].counts.used EXCEPT ![KindOf[o]] = @ + 1],
                              window |-> minute,
                              rate |-> (IF row'[c].counts.window = minute
                                        THEN row'[c].counts.rate ELSE 0) + 1]
          BY <3>2, <4>2
        <4>5. QED
          BY <4>1, <4>2, <4>3, <4>4, Zenon DEF WriteInv
      <3>8. LockInv' /\ WindowInv'
        BY <1>0, <2>1, <3>4 DEF LockInv, WindowInv
      <3>9. QED
        BY <2>1, <3>2, <3>3, <3>7, <3>8 DEF SInv
    <2>4. QED
      BY <1>4, <2>2, <2>3 DEF CheckCredential
  <1>5. CASE CommitReservation(o)
    <2>1. /\ req[o].place = "writing"
          /\ row' = [row EXCEPT ![c].counts = req[o].next]
          /\ req' = [req EXCEPT ![o].place = "granted", ![o].next = NoCounts]
          /\ granted' = granted \cup
                {[operation |-> o, try |-> tries[o], minute |-> req[o].next.window]}
          /\ UNCHANGED <<minute, client, tries, pool, crashes, sent, calls, refusals>>
      BY <1>5 DEF CommitReservation
    <2>2. PICK m \in 0 .. LastMinute : m <= minute /\ req[o].next = Counted(m)
      BY <1>0, <2>1 DEF WriteInv
    <2>3. /\ req' \in [Operation -> Request] /\ req'[o].place = "granted"
          /\ req'[o].answer = req[o].answer
          /\ req'[o].at = req[o].at /\ \A u \in Operation \ {o} : req'[u] = req[u]
      BY <1>0, <2>1, FreshTypes DEF Request
    <2>4. /\ row' \in [Credential -> Row] /\ row'[c].counts = Counted(m)
          /\ \A d \in Credential \ {c} : row'[d] = row[d]
      <3>1. Counted(m) \in Counts /\ row' = [row EXCEPT ![c].counts = Counted(m)]
        BY <1>0, <1>1, <2>1, <2>2
      <3> HIDE DEF Counted
      <3>2. QED
        BY <1>0, <3>1 DEF Row
    <2>5. tries[o] \in 1 .. Tries
      BY <1>0, <2>1 DEF TryInv
    <2>6. granted' \subseteq [operation : Operation, try : 1 .. Tries, minute : 0 .. LastMinute]
      BY <1>0, <2>1, <2>2, <2>5 DEF TypeOK
    <2>7. TypeOK'
      BY <1>0, <2>1, <2>3, <2>4, <2>6 DEF TypeOK
    <2>8. TryInv'
      BY <1>0, <2>1, <2>3 DEF TryInv
    <2>9. \A u \in Operation \ {o} : req'[u].place \notin { "reading", "writing" }
      BY <1>0, <2>1, <2>3 DEF LockInv
    <2>10. WriteInv' /\ LockInv'
      BY <2>3, <2>9 DEF WriteInv, LockInv
    <2>11. WindowInv'
      <3>0. Counted(m).window = m
        OBVIOUS
      <3> HIDE DEF Counted
      <3>1. row'[c].counts.window = m /\ m <= minute'
        BY <2>1, <2>2, <2>4, <3>0
      <3>2. \A d \in Credential \ {c} : row'[d].counts.window <= minute'
        BY <1>0, <2>1, <2>4 DEF WindowInv
      <3>3. QED
        BY <3>1, <3>2 DEF WindowInv
    <2>12. QED
      BY <2>1, <2>3, <2>7, <2>8, <2>10, <2>11 DEF SInv
  <1>6. QED
    BY <1>3, <1>4, <1>5

\* The steps of the owner, the clock, the product and a stopping process.
Outside(o) == (\E p \in Process : Ask(o, p)) \/ Respond(o)
Owner == \E c \in Credential : Issue(c) \/ Revoke(c)

LEMMA OwnerKeeps == SInv /\ Owner => SInv' /\ UNCHANGED <<granted, sent, req>>
  <1> SUFFICES ASSUME SInv, NEW c \in Credential, Issue(c) \/ Revoke(c)
               PROVE  SInv' /\ UNCHANGED <<granted, sent, req>>
    BY DEF Owner
  <1>1. /\ ~Locked /\ UNCHANGED <<minute, client, tries, req, pool, crashes, history>>
        /\ \/ row' = [row EXCEPT ![c].issued = TRUE]
           \/ row' = [row EXCEPT ![c].revoked = TRUE]
    BY DEF Issue, Revoke
  <1>2. row \in [Credential -> Row]
    BY DEF SInv, TypeOK
  <1>3. /\ row' \in [Credential -> Row]
        /\ \A d \in Credential : row'[d].counts = row[d].counts
    <2>1. CASE row' = [row EXCEPT ![c].issued = TRUE]
      BY <1>2, <2>1 DEF Row
    <2>2. CASE row' = [row EXCEPT ![c].revoked = TRUE]
      BY <1>2, <2>2 DEF Row
    <2>3. QED
      BY <1>1, <2>1, <2>2
  <1>4. TypeOK'
    BY <1>1, <1>3 DEF SInv, TypeOK, history
  <1>5. TryInv' /\ LockInv'
    BY <1>1 DEF SInv, TryInv, LockInv
  <1>6. \A o \in Operation : req'[o].place # "writing"
    BY <1>1 DEF Locked
  <1>7. WriteInv'
    BY <1>6 DEF WriteInv
  <1>8. WindowInv'
    BY <1>1, <1>3 DEF SInv, WindowInv
  <1>9. QED
    BY <1>1, <1>4, <1>5, <1>7, <1>8 DEF SInv, history

LEMMA OutsideKeeps ==
    ASSUME SInv, NEW o \in Operation, Outside(o)
    PROVE  /\ SInv'
           /\ UNCHANGED <<minute, row, pool, crashes, granted, sent, calls, refusals>>
           /\ \A u \in Operation \ {o} : req'[u] = req[u] /\ tries'[u] = tries[u]
           /\ \/ req'[o] = req[o] /\ tries'[o] = tries[o]
              \/ req'[o].place = "none" /\ tries'[o] = tries[o]
              \/ req'[o].place = "arrived" /\ tries'[o] = tries[o] + 1
           /\ req'[o] # req[o] => req'[o].answer = "none"
  <1> USE DEF history
  <1>0. /\ TypeOK /\ TryInv
        /\ req \in [Operation -> Request] /\ tries \in [Operation -> 0 .. Tries]
        /\ minute \in Nat /\ minute <= minute /\ Tries \in Nat /\ 1 <= Tries
        /\ { "none", "arrived" } \subseteq Place
    BY ConstantFacts DEF SInv, TypeOK, Place
  <1>1. ASSUME NEW p \in Process, Ask(o, p)
        PROVE  /\ TypeOK' /\ TryInv'
               /\ req'[o] = Fresh(p, "arrived") /\ tries'[o] = tries[o] + 1
               /\ \A u \in Operation \ {o} : req'[u] = req[u] /\ tries'[u] = tries[u]
               /\ UNCHANGED <<minute, row, pool, crashes, history>>
    <2>1. /\ client[o] \in { "idle", "backoff" }
          /\ client' = [client EXCEPT ![o] = "waiting"]
          /\ tries' = [tries EXCEPT ![o] = @ + 1]
          /\ req' = [req EXCEPT ![o] = Fresh(p, "arrived")]
          /\ UNCHANGED <<minute, row, pool, crashes, history>>
      BY <1>1 DEF Ask
    <2>2. tries[o] + 1 \in 1 .. Tries
      BY <1>0, <2>1 DEF TryInv
    <2>3. Fresh(p, "arrived") \in Request
      BY <1>0, FreshTypes
    <2>4. TypeOK'
      BY <1>0, <2>1, <2>2, <2>3 DEF TypeOK
    <2>5. TryInv'
      BY <1>0, <2>1, <2>2 DEF TryInv, TypeOK
    <2>6. QED
      BY <1>0, <2>1, <2>4, <2>5
  <1>2. CASE \E p \in Process : Ask(o, p)
    <2>1. PICK p \in Process : Ask(o, p)
      BY <1>2
    <2>2. req'[o].place = "arrived" /\ req'[o].answer = "none"
      <3>1. req'[o] = Fresh(p, "arrived")
        BY <1>1, <2>1
      <3>2. QED
        BY <3>1 DEF Fresh
    <2>3. WriteInv' /\ LockInv' /\ WindowInv'
      BY <1>0, <1>1, <2>1, <2>2, TransactionsUndisturbed
    <2>4. QED
      BY <1>1, <2>1, <2>2, <2>3 DEF SInv
  <1>4. CASE Respond(o)
    <2>1. PICK what \in { "backoff", "over" } :
             /\ client' = [client EXCEPT ![o] = what]
             /\ what = "backoff" => tries[o] < Tries
      BY <1>4 DEF Respond
    <2>2. /\ req' = [req EXCEPT ![o] = NoRequest]
          /\ UNCHANGED <<minute, row, tries, pool, crashes, history>>
      BY <1>4 DEF Respond
    <2>3. req'[o].place = "none" /\ req'[o].answer = "none"
      BY <1>0, <2>2 DEF NoRequest, Fresh
    <2>4. TypeOK'
      BY <1>0, <2>1, <2>2, FreshTypes DEF TypeOK
    <2>5. TryInv'
      BY <1>0, <2>1, <2>2, <2>3 DEF TryInv, TypeOK
    <2>6. WriteInv' /\ LockInv' /\ WindowInv'
      BY <1>0, <2>2, <2>3, TransactionsUndisturbed
    <2>7. QED
      BY <1>0, <2>2, <2>3, <2>4, <2>5, <2>6 DEF SInv
  <1>5. QED
    BY <1>2, <1>4 DEF Outside

LEMMA CrashKeeps ==
    ASSUME SInv, NEW p \in Process, Crash(p)
    PROVE  /\ SInv'
           /\ UNCHANGED <<minute, row, tries, granted, sent, calls>>
           /\ \A o \in Operation :
                 \/ req[o].at # p /\ req'[o] = req[o]
                 \/ req[o].place = "none" /\ req'[o] = req[o]
                 \/ req'[o] = NoRequest
           /\ pool' = [pool EXCEPT ![p] = FreshPool]
           /\ refusals' = [refusals EXCEPT ![p] = [k \in Key |-> 0]]
           /\ crashes' = crashes + 1
  <1> DEFINE lost == { o \in Operation : req[o].place # "none" /\ req[o].at = p }
  <1>0. TypeOK /\ NoRequest.place = "none" /\ NoRequest \in Request /\ FreshPool \in Pool
    BY FreshTypes DEF SInv, NoRequest, Fresh
  <1>1. /\ req' = [o \in Operation |-> IF o \in lost THEN NoRequest ELSE req[o]]
        /\ client' = [o \in Operation |-> IF o \in lost THEN "over" ELSE client[o]]
        /\ pool' = [pool EXCEPT ![p] = FreshPool]
        /\ refusals' = [refusals EXCEPT ![p] = [k \in Key |-> 0]]
        /\ crashes' = crashes + 1
        /\ UNCHANGED <<minute, row, tries, granted, sent, calls>>
    BY DEF Crash
  <1>2. TypeOK'
    BY <1>0, <1>1 DEF TypeOK
  <1>3. \A o \in Operation : o \notin lost => req'[o] = req[o] /\ client'[o] = client[o]
    BY <1>1
  <1>4. \A o \in lost : req'[o].place = "none" /\ client'[o] = "over"
    BY <1>0, <1>1
  <1>5. TryInv'
    BY <1>1, <1>3, <1>4 DEF SInv, TryInv
  <1>6. /\ \A o \in Operation : req'[o] = req[o] \/ req'[o].place \notin { "reading", "writing" }
        /\ minute' = minute /\ minute \in Nat
    BY <1>0, <1>1, <1>3, <1>4 DEF TypeOK
  <1>7. WriteInv' /\ LockInv' /\ WindowInv'
    BY <1>1, <1>6, TransactionsUndisturbed
  <1>8. QED
    BY <1>1, <1>2, <1>5, <1>7 DEF SInv

LEMMA TickKeeps == SInv /\ Tick => SInv' /\ UNCHANGED <<row, req, tries, granted, sent>>
  <1> SUFFICES ASSUME SInv, Tick PROVE SInv' /\ UNCHANGED <<row, req, tries, granted, sent>>
    OBVIOUS
  <1>0. minute \in 0 .. LastMinute /\ LastMinute \in Nat
    BY GatewayAssumption DEF SInv, TypeOK
  <1>1. /\ minute' \in 0 .. LastMinute /\ minute <= minute'
        /\ UNCHANGED <<row, client, tries, req, pool, crashes, history>>
    BY <1>0 DEF Tick
  <1>2. TypeOK' /\ TryInv'
    BY <1>1 DEF SInv, TypeOK, TryInv, history
  <1>3. minute' \in Nat /\ UNCHANGED row /\ \A u \in Operation : req'[u] = req[u]
    BY <1>0, <1>1
  <1>4. WriteInv' /\ LockInv' /\ WindowInv'
    BY <1>1, <1>3, TransactionsUndisturbed
  <1>5. QED
    BY <1>1, <1>2, <1>4 DEF SInv, history

LEMMA ForwardsKeeps ==
    ASSUME SInv, NEW o \in Operation, Forwards(o)
    PROVE  SInv'
  <1>0. /\ TypeOK /\ TryInv /\ minute \in Nat /\ minute <= minute
        /\ granted \subseteq [operation : Operation, try : 1 .. Tries, minute : 0 .. LastMinute]
    BY DEF SInv, TypeOK
  <1>1. /\ req' \in [Operation -> Request] /\ pool' \in [Process -> Pool]
        /\ sent' \subseteq granted /\ calls' \in Nat
        /\ refusals' \in [Process -> [Key -> Nat]]
        /\ UNCHANGED <<minute, row, client, tries, crashes, granted>>
        /\ \A u \in Operation \ {o} : req'[u] = req[u]
        /\ req[o].place # "none" /\ req'[o].place \notin { "reading", "writing" }
    BY <1>0, ForwardsEffect
  <1>2. TypeOK'
    BY <1>0, <1>1 DEF TypeOK
  <1>3. TryInv'
    BY <1>0, <1>1 DEF TryInv
  <1>4. WriteInv' /\ LockInv' /\ WindowInv'
    BY <1>0, <1>1, TransactionsUndisturbed
  <1>5. QED
    BY <1>2, <1>3, <1>4 DEF SInv

Reserves(o) == BeginReservation(o) \/ CheckCredential(o) \/ CommitReservation(o)

LEMMA NextCases ==
    Next => \/ Tick \/ Owner
            \/ \E o \in Operation : Outside(o) \/ Reserves(o) \/ Forwards(o)
            \/ \E p \in Process : Crash(p)
  BY GatewayAssumption DEF Next, Serve, Owner, Outside, Reserves, Forwards

LEMMA NextSInv == SInv /\ [Next]_vars => SInv'
  <1> SUFFICES ASSUME SInv, [Next]_vars PROVE SInv'
    OBVIOUS
  <1>1. CASE UNCHANGED vars
    <2>1. TypeOK' /\ TryInv'
      BY <1>1 DEF SInv, TypeOK, TryInv, vars, history
    <2>2. minute' \in Nat /\ minute <= minute' /\ UNCHANGED <<row, req>>
      BY <1>1 DEF SInv, TypeOK, vars
    <2>3. WriteInv' /\ LockInv' /\ WindowInv'
      BY <2>2, TransactionsUndisturbed
    <2>4. QED
      BY <2>1, <2>3 DEF SInv
  <1>2. CASE Tick \/ Owner
    BY <1>2, TickKeeps, OwnerKeeps
  <1>3. CASE \E o \in Operation : Outside(o) \/ Reserves(o) \/ Forwards(o)
    BY <1>3, OutsideKeeps, ReservationEffect, ForwardsKeeps DEF Reserves
  <1>4. CASE \E p \in Process : Crash(p)
    BY <1>4, CrashKeeps
  <1>5. QED
    BY <1>1, <1>2, <1>3, <1>4, NextCases

LEMMA SInvHolds == Spec => []SInv
  BY InitSInv, NextSInv, PTL DEF Spec

\* The store's rows, the requests, the key pools and the history keep their types,
\* and the product's retries of an operation are bounded (Respond, Ask).
THEOREM TypeCorrect == Spec => []TypeOK
  <1>1. SInv => TypeOK
    BY DEF SInv
  <1>2. QED
    BY <1>1, SInvHolds, PTL

-----------------------------------------------------------------------------
(* The store's counters are the accounts of what was granted.              *)

Sold(c, k) == { g \in granted : CredentialOf[g.operation] = c /\ KindOf[g.operation] = k }
SoldIn(c, m) == { g \in granted : CredentialOf[g.operation] = c /\ g.minute = m }

CountersInv ==
    \A c \in Credential :
        /\ \A k \in Kind : /\ row[c].counts.used[k] = Cardinality(Sold(c, k))
                          /\ row[c].counts.used[k] <= Maximum[c][k]
        /\ row[c].counts.rate = Cardinality(SoldIn(c, row[c].counts.window))

\* No grant is of a later minute than the window, nor of a later try than the
\* present one, whose own comes with the commit.
GrantsInv ==
    /\ IsFiniteSet(granted)
    /\ \A g \in granted :
          /\ g.minute <= row[CredentialOf[g.operation]].counts.window
          /\ g.try <= tries[g.operation]
          /\ req[g.operation].place \in { "arrived", "locking", "reading", "writing" } =>
                g.try < tries[g.operation]

AInv == CountersInv /\ GrantsInv

LEMMA InitAInv == Init => AInv
  <1> SUFFICES ASSUME Init PROVE AInv
    OBVIOUS
  <1>1. granted = {} /\ \A c \in Credential : row[c] = NoRow
    BY DEF Init
  <1>2. IsFiniteSet({}) /\ Cardinality({}) = 0
    BY FS_EmptySet
  <1>3. /\ \A c, k : Sold(c, k) = {}
        /\ \A c, m : SoldIn(c, m) = {}
    BY <1>1 DEF Sold, SoldIn
  <1>4. \A c \in Credential : /\ \A k \in Kind : row[c].counts.used[k] = 0
                             /\ row[c].counts.rate = 0
    BY <1>1 DEF NoRow, NoCounts
  <1>5. \A c \in Credential, k \in Kind : 0 <= Maximum[c][k]
    BY GatewayAssumption
  <1>6. CountersInv
    BY <1>2, <1>3, <1>4, <1>5 DEF CountersInv
  <1>7. GrantsInv
    BY <1>1, <1>2 DEF GrantsInv
  <1>8. QED
    BY <1>6, <1>7 DEF AInv

\* Steps that grant nothing leave the accounts in order.
LEMMA AccountsUndisturbed ==
    ASSUME SInv, AInv, UNCHANGED granted,
           \A c \in Credential : row'[c].counts = row[c].counts,
           \A o \in Operation :
              /\ tries'[o] >= tries[o] /\ tries'[o] \in Nat
              /\ req'[o].place \in { "arrived", "locking", "reading", "writing" } =>
                    \/ req[o].place \in { "arrived", "locking", "reading", "writing" }
                    \/ tries'[o] > tries[o]
    PROVE  AInv'
  <1>0. /\ \A g \in granted : /\ g.operation \in Operation /\ g.try \in Nat
                             /\ CredentialOf[g.operation] \in Credential
        /\ \A o \in Operation : tries[o] \in Nat
    BY GatewayAssumption, ConstantFacts DEF SInv, TypeOK
  <1>1. CountersInv'
    BY DEF AInv, CountersInv, Sold, SoldIn
  <1>2. IsFiniteSet(granted')
    BY DEF AInv, GrantsInv
  <1>3. ASSUME NEW g \in granted'
        PROVE  /\ g.minute <= row'[CredentialOf[g.operation]].counts.window
               /\ g.try <= tries'[g.operation]
               /\ req'[g.operation].place \in { "arrived", "locking", "reading", "writing" } =>
                     g.try < tries'[g.operation]
    <2>1. /\ g.minute <= row[CredentialOf[g.operation]].counts.window
          /\ g.try <= tries[g.operation]
          /\ req[g.operation].place \in { "arrived", "locking", "reading", "writing" } =>
                g.try < tries[g.operation]
      BY DEF AInv, GrantsInv
    <2>2. QED
      BY <1>0, <2>1
  <1>4. QED
    BY <1>1, <1>2, <1>3 DEF AInv, GrantsInv

\* What a commit gives, and that the allowance of the credential has it left.
LEMMA CommitGives ==
    ASSUME SInv, AInv, NEW o \in Operation, CommitReservation(o)
    PROVE  \E g \in [operation : Operation, try : 1 .. Tries, minute : 0 .. LastMinute] :
              /\ g.operation = o /\ g.try = tries[o]
              /\ granted' = granted \cup {g}
              /\ ~row[CredentialOf[o]].revoked
              /\ \A h \in granted : <<h.operation, h.try>> # <<o, tries[o]>>
              /\ Cardinality(Sold(CredentialOf[o], KindOf[o])) < Maximum[CredentialOf[o]][KindOf[o]]
              /\ Cardinality(SoldIn(CredentialOf[o], g.minute)) < PerMinute[CredentialOf[o]]
              /\ AInv'
  <1> DEFINE c == CredentialOf[o]
             k == KindOf[o]
             counts == row[c].counts
             Rate(m) == IF counts.window = m THEN counts.rate ELSE 0
  <1>0. /\ c \in Credential /\ k \in Kind /\ counts \in Counts
        /\ row \in [Credential -> Row] /\ req \in [Operation -> Request]
        /\ minute \in Nat /\ LastMinute \in Nat
        /\ tries[o] \in Nat
        /\ granted \subseteq [operation : Operation, try : 1 .. Tries, minute : 0 .. LastMinute]
    BY ConstantFacts, GatewayAssumption DEF SInv, TypeOK, Row
  <1>1. /\ req[o].place = "writing"
        /\ row' = [row EXCEPT ![c].counts = req[o].next]
        /\ req' = [req EXCEPT ![o].place = "granted", ![o].next = NoCounts]
        /\ granted' = granted \cup
              {[operation |-> o, try |-> tries[o], minute |-> req[o].next.window]}
        /\ UNCHANGED tries
    BY DEF CommitReservation
  <1>2. PICK m \in 0 .. LastMinute :
           /\ row[c].issued /\ ~row[c].revoked
           /\ counts.used[k] < Maximum[c][k]
           /\ Rate(m) < PerMinute[c]
           /\ counts.window <= m
           /\ req[o].next = [used |-> [counts.used EXCEPT ![k] = @ + 1],
                             window |-> m, rate |-> Rate(m) + 1]
    BY <1>1 DEF SInv, WriteInv
  <1>3. tries[o] \in 1 .. Tries
    BY <1>1 DEF SInv, TryInv
  <1> DEFINE g == [operation |-> o, try |-> tries[o], minute |-> m]
  <1>4. /\ g \in [operation : Operation, try : 1 .. Tries, minute : 0 .. LastMinute]
        /\ g.operation = o /\ g.try = tries[o] /\ g.minute = m
        /\ granted' = granted \cup {g}
    BY <1>1, <1>2, <1>3
  <1>5. \A h \in granted : h.operation = o => h.try # tries[o]
    BY <1>0, <1>1 DEF AInv, GrantsInv
  <1>6. g \notin granted /\ \A h \in granted : <<h.operation, h.try>> # <<o, tries[o]>>
    BY <1>4, <1>5
  <1> HIDE DEF g
  <1>7. IsFiniteSet(granted)
    BY DEF AInv, GrantsInv
  <1>8. \A S \in SUBSET granted :
           /\ IsFiniteSet(S) /\ Cardinality(S) \in Nat
           /\ Cardinality(S \cup {g}) = Cardinality(S) + 1
    <2>1. SUFFICES ASSUME NEW S \in SUBSET granted
                   PROVE  /\ IsFiniteSet(S) /\ Cardinality(S) \in Nat
                          /\ Cardinality(S \cup {g}) = Cardinality(S) + 1
      OBVIOUS
    <2>2. IsFiniteSet(S)
      BY <1>7, FS_Subset
    <2>3. g \notin S
      BY <1>6
    <2>4. QED
      BY <2>2, <2>3, FS_AddElement, FS_CardinalityType
  <1>9. Cardinality(SoldIn(c, m)) = Rate(m)
    <2>1. CASE counts.window = m
      BY <1>0, <2>1 DEF AInv, CountersInv
    <2>2. CASE counts.window # m
      <3>1. \A h \in granted : CredentialOf[h.operation] = c => h.minute <= counts.window
        BY DEF AInv, GrantsInv
      <3>2. \A h \in granted : CredentialOf[h.operation] = c => h.minute # m
        <4>1. counts.window < m
          BY <1>0, <1>2, <2>2 DEF Counts
        <4>2. \A h \in granted : h.minute \in Nat
          BY <1>0
        <4>3. counts.window \in Nat /\ m \in Nat
          BY <1>0 DEF Counts
        <4>4. QED
          BY <3>1, <4>1, <4>2, <4>3
      <3>3. SoldIn(c, m) = {}
        BY <3>2 DEF SoldIn
      <3>4. QED
        BY <2>2, <3>3, FS_EmptySet
    <2>3. QED
      BY <2>1, <2>2
  <1>10. Cardinality(Sold(c, k)) = counts.used[k]
    BY <1>0 DEF AInv, CountersInv
  <1>11. /\ row' \in [Credential -> Row]
         /\ row'[c].counts = req[o].next
         /\ \A d \in Credential \ {c} : row'[d] = row[d]
    <2>1. req[o].next \in Counts
      BY <1>0 DEF Request
    <2>2. QED
      BY <1>0, <1>1, <2>1 DEF Row
  <1>12. /\ Sold(c, k)' = Sold(c, k) \cup {g}
         /\ SoldIn(c, m)' = SoldIn(c, m) \cup {g}
    BY <1>4 DEF Sold, SoldIn
  <1>13. /\ \A d \in Credential, j \in Kind : <<d, j>> # <<c, k>> => Sold(d, j)' = Sold(d, j)
         /\ \A n : \A d \in Credential \ {c} : SoldIn(d, n)' = SoldIn(d, n)
    BY <1>4 DEF Sold, SoldIn
  <1>14. CountersInv'
    <2>1. ASSUME NEW d \in Credential, d # c, NEW w, w = row[d].counts.window
          PROVE  /\ \A j \in Kind : /\ row'[d].counts.used[j] = Cardinality(Sold(d, j)')
                                   /\ row'[d].counts.used[j] <= Maximum[d][j]
                 /\ row'[d].counts.window = w
                 /\ row'[d].counts.rate = Cardinality(SoldIn(d, w)')
      <3>1. row'[d] = row[d]
        BY <1>11, <2>1
      <3>2. /\ \A j \in Kind : Sold(d, j)' = Sold(d, j)
            /\ SoldIn(d, w)' = SoldIn(d, w)
        BY <1>13, <2>1
      <3>3. QED
        BY <2>1, <3>1, <3>2 DEF AInv, CountersInv
    <2>2. ASSUME NEW j \in Kind
          PROVE  /\ row'[c].counts.used[j] = Cardinality(Sold(c, j)')
                 /\ row'[c].counts.used[j] <= Maximum[c][j]
      <3>1. CASE j = k
        <4>1. row'[c].counts.used[k] = counts.used[k] + 1
          BY <1>0, <1>2, <1>11 DEF Counts
        <4>2. Cardinality(Sold(c, k)') = Cardinality(Sold(c, k)) + 1
          BY <1>8, <1>12 DEF Sold
        <4>3. counts.used[k] \in Nat /\ Maximum[c][k] \in Nat
          BY <1>0, GatewayAssumption DEF Counts
        <4>4. QED
          BY <1>2, <1>10, <3>1, <4>1, <4>2, <4>3
      <3>2. CASE j # k
        <4>1. row'[c].counts.used[j] = counts.used[j]
          BY <1>0, <1>2, <1>11, <3>2 DEF Counts
        <4>2. Sold(c, j)' = Sold(c, j)
          BY <1>0, <1>13, <3>2
        <4>3. QED
          BY <1>0, <4>1, <4>2 DEF AInv, CountersInv
      <3>3. QED
        BY <3>1, <3>2
    <2>3. row'[c].counts.window = m /\ row'[c].counts.rate = Cardinality(SoldIn(c, m)')
      <3>1. row'[c].counts.window = m /\ row'[c].counts.rate = Rate(m) + 1
        BY <1>2, <1>11
      <3>2. Cardinality(SoldIn(c, m)') = Cardinality(SoldIn(c, m)) + 1
        BY <1>8, <1>12 DEF SoldIn
      <3>3. QED
        BY <1>9, <3>1, <3>2
    <2>4. ASSUME NEW d \in Credential
          PROVE  /\ \A j \in Kind : /\ row'[d].counts.used[j] = Cardinality(Sold(d, j)')
                                   /\ row'[d].counts.used[j] <= Maximum[d][j]
                 /\ \A n : n = row'[d].counts.window =>
                               row'[d].counts.rate = Cardinality(SoldIn(d, n)')
      <3>1. CASE d = c
        BY <2>2, <2>3, <3>1
      <3>2. CASE d # c
        BY <2>1, <3>2
      <3>3. QED
        BY <3>1, <3>2
    <2>5. QED
      BY <2>4 DEF CountersInv, Sold, SoldIn
  <1>15. GrantsInv'
    <2>1. IsFiniteSet(granted')
      BY <1>4, <1>7, FS_AddElement
    <2>2. \A h \in granted : h.minute \in Nat /\ h.operation \in Operation
      BY <1>0
    <2>3. /\ row'[c].counts.window = m /\ counts.window <= m /\ counts.window \in Nat /\ m \in Nat
          /\ req'[o].place = "granted" /\ \A u \in Operation \ {o} : req'[u] = req[u]
      <3>1. counts.window \in Nat /\ m \in Nat
        BY <1>0 DEF Counts
      <3>2. row'[c].counts.window = m
        BY <1>2, <1>11
      <3>3. req'[o].place = "granted" /\ \A u \in Operation \ {o} : req'[u] = req[u]
        BY <1>0, <1>1 DEF Request
      <3>4. QED
        BY <1>2, <3>1, <3>2, <3>3
    <2>4. ASSUME NEW h \in granted
          PROVE  /\ h.minute <= row'[CredentialOf[h.operation]].counts.window
                 /\ h.try <= tries'[h.operation]
                 /\ req'[h.operation].place \in { "arrived", "locking", "reading", "writing" } =>
                       h.try < tries'[h.operation]
      <3>1. /\ h.minute <= row[CredentialOf[h.operation]].counts.window
            /\ h.try <= tries[h.operation]
            /\ req[h.operation].place \in { "arrived", "locking", "reading", "writing" } =>
                  h.try < tries[h.operation]
            /\ CredentialOf[h.operation] \in Credential
        BY <2>2, GatewayAssumption DEF AInv, GrantsInv
      <3>2. h.minute <= row'[CredentialOf[h.operation]].counts.window
        <4>1. CASE CredentialOf[h.operation] = c
          <5>1. h.minute <= counts.window
            BY <3>1, <4>1
          <5>2. h.minute <= m
            BY <2>2, <2>3, <5>1
          <5>3. QED
            BY <2>3, <4>1, <5>2
        <4>2. CASE CredentialOf[h.operation] # c
          <5>1. row'[CredentialOf[h.operation]] = row[CredentialOf[h.operation]]
            BY <1>11, <3>1, <4>2
          <5>2. QED
            BY <3>1, <5>1
        <4>3. QED
          BY <4>1, <4>2
      <3>3. tries' = tries
        BY <1>1
      <3>4. h.operation # o => req'[h.operation] = req[h.operation]
        BY <2>2, <2>3
      <3>5. QED
        BY <2>3, <3>1, <3>2, <3>3, <3>4
    <2>5. /\ g.minute <= row'[CredentialOf[g.operation]].counts.window
          /\ g.try <= tries'[g.operation]
          /\ req'[g.operation].place \notin { "arrived", "locking", "reading", "writing" }
      BY <1>0, <1>1, <1>4, <2>3
    <2>6. QED
      BY <1>4, <2>1, <2>4, <2>5 DEF GrantsInv
  <1>16. QED
    BY <1>0, <1>2, <1>4, <1>6, <1>9, <1>10, <1>14, <1>15 DEF AInv

\* Every other step grants nothing and starts a request only with a new try.
LEMMA OtherStepsGrantNothing ==
    ASSUME SInv, AInv, [Next]_vars, ~(\E o \in Operation : CommitReservation(o))
    PROVE  AInv' /\ UNCHANGED granted
  <1> DEFINE Early == { "arrived", "locking", "reading", "writing" }
             Quiet == /\ UNCHANGED granted
                      /\ \A c \in Credential : row'[c].counts = row[c].counts
                      /\ \A o \in Operation :
                            /\ tries'[o] >= tries[o] /\ tries'[o] \in Nat
                            /\ req'[o].place \in Early =>
                                  req[o].place \in Early \/ tries'[o] > tries[o]
  <1>0. /\ \A o \in Operation : tries[o] \in Nat
        /\ row \in [Credential -> Row]
        /\ TypeOK
    BY ConstantFacts DEF SInv, TypeOK
  <1>1. CASE UNCHANGED vars
    <2>1. Quiet
      BY <1>0, <1>1 DEF vars, history
    <2>2. QED
      BY <2>1, AccountsUndisturbed
  <1>2. CASE Tick
    <2>1. UNCHANGED <<row, req, tries, granted>>
      BY <1>2 DEF Tick, history
    <2>2. Quiet
      BY <1>0, <2>1
    <2>3. QED
      BY <2>2, AccountsUndisturbed
  <1>3. CASE Owner
    <2>1. PICK c \in Credential : Issue(c) \/ Revoke(c)
      BY <1>3 DEF Owner
    <2>2. UNCHANGED <<req, tries, granted>>
      BY <2>1 DEF Issue, Revoke, history
    <2>3. \A d \in Credential : row'[d].counts = row[d].counts
      <3>1. CASE Issue(c)
        BY <1>0, <3>1 DEF Issue, Row
      <3>2. CASE Revoke(c)
        BY <1>0, <3>2 DEF Revoke, Row
      <3>3. QED
        BY <2>1, <3>1, <3>2
    <2>4. Quiet
      BY <1>0, <2>2, <2>3
    <2>5. QED
      BY <2>4, AccountsUndisturbed
  <1>4. ASSUME NEW o \in Operation, Outside(o)
        PROVE  AInv' /\ UNCHANGED granted
    <2>1. /\ UNCHANGED <<row, granted>>
          /\ \A u \in Operation \ {o} : req'[u] = req[u] /\ tries'[u] = tries[u]
          /\ \/ req'[o] = req[o] /\ tries'[o] = tries[o]
             \/ req'[o].place = "none" /\ tries'[o] = tries[o]
             \/ req'[o].place = "arrived" /\ tries'[o] = tries[o] + 1
      BY <1>4, OutsideKeeps
    <2>2. Quiet
      BY <1>0, <2>1
    <2>3. QED
      BY <2>2, AccountsUndisturbed
  <1>5. ASSUME NEW o \in Operation, BeginReservation(o) \/ CheckCredential(o)
        PROVE  AInv' /\ UNCHANGED granted
    <2>1. UNCHANGED <<row, tries, granted>>
      BY <1>5 DEF BeginReservation, CheckCredential, history
    <2>2. /\ \A u \in Operation \ {o} : req'[u] = req[u]
          /\ req[o].place \in { "locking", "reading", "writing" }
      BY <1>5, ReservationEffect
    <2>3. Quiet
      BY <1>0, <2>1, <2>2
    <2>4. QED
      BY <2>3, AccountsUndisturbed
  <1>6. ASSUME NEW o \in Operation, Forwards(o)
        PROVE  AInv' /\ UNCHANGED granted
    <2>1. /\ UNCHANGED <<row, tries, granted>>
          /\ \A u \in Operation \ {o} : req'[u] = req[u]
      BY <1>0, <1>6, ForwardsEffect
    <2>2. req'[o].place \in Early => req[o].place \in Early
      BY <1>0, <1>6, ForwardsEffect
    <2>3. Quiet
      BY <1>0, <2>1, <2>2
    <2>4. QED
      BY <2>3, AccountsUndisturbed
  <1>7. ASSUME NEW p \in Process, Crash(p)
        PROVE  AInv' /\ UNCHANGED granted
    <2>1. /\ UNCHANGED <<row, tries, granted>>
          /\ \A o \in Operation : req'[o] = req[o] \/ req'[o] = NoRequest
      BY <1>7, CrashKeeps
    <2>2. NoRequest.place = "none"
      BY DEF NoRequest, Fresh
    <2>3. Quiet
      BY <1>0, <2>1, <2>2
    <2>4. QED
      BY <2>3, AccountsUndisturbed
  <1>8. QED
    BY <1>1, <1>2, <1>3, <1>4, <1>5, <1>6, <1>7, NextCases DEF Reserves

LEMMA NextAInv == SInv /\ AInv /\ [Next]_vars => AInv'
  BY CommitGives, OtherStepsGrantNothing

LEMMA AccountsHold == Spec => [](SInv /\ AInv)
  <1>1. Init => SInv /\ AInv
    BY InitSInv, InitAInv
  <1>2. (SInv /\ AInv) /\ [Next]_vars => (SInv /\ AInv)'
    BY NextSInv, NextAInv
  <1>3. QED
    BY <1>1, <1>2, PTL DEF Spec

\* However processes interleave, time out or stop, the operations forwarded for a
\* credential stay within its quota (authorize, CommitReservation, Dispatch).
THEOREM QuotaIsKept == Spec => []QuotaHolds
  <1>1. SInv /\ AInv => QuotaHolds
    <2> SUFFICES ASSUME SInv, AInv, NEW c \in Credential, NEW k \in Kind
                 PROVE  Cardinality({ g \in sent : CredentialOf[g.operation] = c
                                                    /\ KindOf[g.operation] = k })
                            <= Maximum[c][k]
      BY DEF QuotaHolds
    <2> DEFINE S == { g \in sent : CredentialOf[g.operation] = c /\ KindOf[g.operation] = k }
    <2>1. S \subseteq Sold(c, k) /\ Sold(c, k) \subseteq granted
      BY DEF SInv, TypeOK, Sold
    <2>2. IsFiniteSet(granted)
      BY DEF AInv, GrantsInv
    <2>3. IsFiniteSet(Sold(c, k))
      BY <2>1, <2>2, FS_Subset
    <2>4. /\ IsFiniteSet(S) /\ Cardinality(S) <= Cardinality(Sold(c, k))
          /\ Cardinality(S) \in Nat /\ Cardinality(Sold(c, k)) \in Nat
      <3>1. IsFiniteSet(S)
        BY <2>1, <2>3, FS_Subset
      <3>2. QED
        BY <2>1, <2>3, <3>1, FS_Subset, FS_CardinalityType
    <2>5. Cardinality(Sold(c, k)) <= Maximum[c][k]
      BY DEF AInv, CountersInv
    <2>6. Maximum[c][k] \in Nat
      BY GatewayAssumption
    <2>7. QED
      BY <2>4, <2>5, <2>6
  <1>2. QED
    BY <1>1, AccountsHold, PTL

\* The cardinality of a set is the same in both modules.
LEMMA SameCardinality == \A S : Allowance!Cardinality(S) = Cardinality(S)
  BY Zenon DEF Cardinality, Allowance!Cardinality

\* The reservations of all processes together are the grants of one allowance:
\* within the quota, the rate of the minute, and never of a revoked credential.
THEOREM AllowanceIsKept == Spec => KeepsAllowance
  <1> DEFINE Revoked == { c \in Credential : row[c].revoked }
  <1>1. Init => Allowance!Init
    BY DEF Init, Allowance!Init, NoRow
  <1>2. ASSUME SInv, AInv, [Next]_vars
        PROVE  [Allowance!Next]_<<granted, Revoked>>
    <2>1. CASE \E o \in Operation : CommitReservation(o)
      <3>1. PICK o \in Operation : CommitReservation(o)
        BY <2>1
      <3>2. PICK g \in [operation : Operation, try : 1 .. Tries, minute : 0 .. LastMinute] :
               /\ g.operation = o /\ g.try = tries[o]
               /\ granted' = granted \cup {g}
               /\ ~row[CredentialOf[o]].revoked
               /\ \A h \in granted : <<h.operation, h.try>> # <<o, tries[o]>>
               /\ Cardinality(Sold(CredentialOf[o], KindOf[o]))
                     < Maximum[CredentialOf[o]][KindOf[o]]
               /\ Cardinality(SoldIn(CredentialOf[o], g.minute)) < PerMinute[CredentialOf[o]]
        BY <1>2, <3>1, CommitGives
      <3>3. Revoked' = Revoked
        <4>1. row' = [row EXCEPT ![CredentialOf[o]].counts = req[o].next]
          BY <3>1 DEF CommitReservation
        <4>2. row \in [Credential -> Row]
          BY <1>2 DEF SInv, TypeOK
        <4>3. \A c \in Credential : row'[c].revoked = row[c].revoked
          BY <4>1, <4>2 DEF Row
        <4>4. QED
          BY <4>3
      <3>4. Allowance!Give(g)
        <4>1. CredentialOf[g.operation] \notin Revoked
          BY <3>2
        <4>2. /\ Allowance!OfKind(CredentialOf[o], KindOf[o]) = Sold(CredentialOf[o], KindOf[o])
              /\ Allowance!InMinute(CredentialOf[o], g.minute) = SoldIn(CredentialOf[o], g.minute)
          BY DEF Allowance!OfKind, Allowance!InMinute, Sold, SoldIn
        <4>3. /\ CredentialOf[g.operation] = CredentialOf[o]
              /\ KindOf[g.operation] = KindOf[o]
              /\ \A h \in granted : <<h.operation, h.try>> # <<g.operation, g.try>>
          BY <3>2
        <4>4. QED
          BY <3>2, <3>3, <4>1, <4>2, <4>3, SameCardinality DEF Allowance!Give
      <3>5. QED
        BY <3>2, <3>4 DEF Allowance!Next, Allowance!Grant
    <2>2. CASE ~(\E o \in Operation : CommitReservation(o))
      <3>1. UNCHANGED granted
        BY <1>2, <2>2, OtherStepsGrantNothing
      <3>2. CASE Owner
        <4>1. PICK c \in Credential : Issue(c) \/ Revoke(c)
          BY <3>2 DEF Owner
        <4>2. row \in [Credential -> Row]
          BY <1>2 DEF SInv, TypeOK
        <4>3. CASE Issue(c)
          <5>1. \A d \in Credential : row'[d].revoked = row[d].revoked
            BY <4>2, <4>3 DEF Issue, Row
          <5>2. QED
            BY <3>1, <5>1
        <4>4. CASE Revoke(c)
          <5>1. \A d \in Credential : row'[d].revoked <=> row[d].revoked \/ d = c
            BY <4>2, <4>4 DEF Revoke, Row
          <5>2. Revoked' = Revoked \cup {c}
            BY <5>1
          <5>3. QED
            BY <3>1, <5>2 DEF Allowance!Next, Allowance!TakeBack
        <4>5. QED
          BY <4>1, <4>3, <4>4
      <3>3. CASE ~Owner
        <4>1. TypeOK
          BY <1>2 DEF SInv
        <4>2. UNCHANGED row
          <5>1. CASE UNCHANGED vars
            BY <5>1 DEF vars
          <5>2. CASE Tick
            BY <5>2 DEF Tick
          <5>3. ASSUME NEW o \in Operation, Outside(o) \/ Forwards(o)
                PROVE  UNCHANGED row
            BY <1>2, <4>1, <5>3, OutsideKeeps, ForwardsEffect
          <5>4. ASSUME NEW o \in Operation, BeginReservation(o) \/ CheckCredential(o)
                PROVE  UNCHANGED row
            BY <5>4 DEF BeginReservation, CheckCredential
          <5>5. ASSUME NEW p \in Process, Crash(p)
                PROVE  UNCHANGED row
            BY <1>2, <5>5, CrashKeeps
          <5>6. QED
            BY <1>2, <2>2, <3>3, <5>1, <5>2, <5>3, <5>4, <5>5, NextCases DEF Reserves
        <4>3. QED
          BY <3>1, <4>2
      <3>4. QED
        BY <3>2, <3>3
    <2>3. QED
      BY <2>1, <2>2
  <1>3. QED
    BY <1>1, <1>2, AccountsHold, PTL DEF Spec, KeepsAllowance, Allowance!Spec

-----------------------------------------------------------------------------
(* One rotation at a time over the keys of a process.                      *)

\* A key refused as often as it is marked; the key on its way is not, and those
\* tried before it are; no refusal is the answer of a request.
MarksInv == \A p \in Process, k \in Key :
                refusals[p][k] = IF k \in Unavailable(pool[p]) THEN 1 ELSE 0

RotationInv == \A o \in Operation :
                  /\ req[o].answer \notin Refusal
                  /\ req[o].place = "fetching" =>
                        /\ req[o].slot \notin Unavailable(pool[req[o].at])
                        /\ req[o].tried \subseteq Unavailable(pool[req[o].at]) \cup {req[o].slot}

HolderInv == \A o, u \in Operation :
                /\ req[o].place = "fetching" /\ req[u].place = "fetching"
                /\ req[o].at = req[u].at
                => o = u

KInv == MarksInv /\ RotationInv /\ HolderInv

LEMMA InitKInv == Init => KInv
  <1> SUFFICES ASSUME Init PROVE KInv
    OBVIOUS
  <1>1. \A o \in Operation : req[o].place = "none" /\ req[o].answer = "none"
    BY DEF Init, NoRequest, Fresh
  <1>2. \A p \in Process, k \in Key : refusals[p][k] = 0 /\ Unavailable(pool[p]) = {}
    BY DEF Init, FreshPool, Unavailable
  <1>3. QED
    BY <1>1, <1>2 DEF KInv, MarksInv, RotationInv, HolderInv, Refusal

\* A step that marks no key and calls with none.
LEMMA KeysUndisturbed ==
    ASSUME SInv, KInv,
           \A p \in Process : /\ Unavailable(pool'[p]) = Unavailable(pool[p])
                              /\ refusals'[p] = refusals[p],
           \A o \in Operation :
              \/ req'[o] = req[o]
              \/ req'[o].place # "fetching" /\ req'[o].answer \notin Refusal
    PROVE  KInv'
  <1>1. \A o \in Operation : req[o].at \in Process
    BY DEF SInv, TypeOK, Request
  <1>2. MarksInv'
    BY DEF KInv, MarksInv, Unavailable
  <1>3. ASSUME NEW o \in Operation
        PROVE  /\ req'[o].answer \notin Refusal
               /\ req'[o].place = "fetching" =>
                     /\ req'[o].slot \notin Unavailable(pool'[req'[o].at])
                     /\ req'[o].tried \subseteq Unavailable(pool'[req'[o].at]) \cup {req'[o].slot}
    <2>1. CASE req'[o] = req[o]
      BY <1>1, <2>1 DEF KInv, RotationInv
    <2>2. CASE req'[o].place # "fetching" /\ req'[o].answer \notin Refusal
      BY <2>2
    <2>3. QED
      BY <2>1, <2>2
  <1>4. RotationInv'
    BY <1>3 DEF RotationInv, Unavailable
  <1>5. HolderInv'
    BY DEF KInv, HolderInv
  <1>6. QED
    BY <1>2, <1>4, <1>5 DEF KInv

\* A turn of the rotation, of a request that holds the lock.
LEMMA TurnKeeps ==
    ASSUME SInv, KInv, NEW o \in Operation, NEW pl \in Pool, NEW tried \in SUBSET Key,
           NEW last \in Answer, NextKey(o, pl, tried, last),
           last \in Refusal => tried \subseteq Unavailable(pl),
           last \notin Refusal => last = "none" /\ tried = {}
    PROVE  /\ req'[o].at = req[o].at /\ \A u \in Operation \ {o} : req'[u] = req[u]
           /\ req'[o].answer \notin Refusal
           /\ req'[o].place = "fetching" =>
                 /\ req'[o].slot \notin Unavailable(pl)
                 /\ req'[o].tried \subseteq Unavailable(pl) \cup {req'[o].slot}
  <1>1. TypeOK /\ req \in [Operation -> Request] /\ req[o].answer \notin Refusal
    BY DEF SInv, TypeOK, KInv, RotationInv
  <1>2. req'[o].at = req[o].at /\ \A u \in Operation \ {o} : req'[u] = req[u]
    BY <1>1, NextKeyType
  <1>3. CASE \E k \in Select(pl, Untried(pl, tried)) :
                req' = [req EXCEPT ![o].place = "fetching", ![o].slot = k,
                                   ![o].tried = tried \cup {k}]
    <2>1. PICK k \in Select(pl, Untried(pl, tried)) :
                req' = [req EXCEPT ![o].place = "fetching", ![o].slot = k,
                                   ![o].tried = tried \cup {k}]
      BY <1>3
    <2>2. k \in Key /\ k \notin Unavailable(pl)
      BY DEF Select, Untried
    <2>3. tried \subseteq Unavailable(pl)
      OBVIOUS
    <2>4. req'[o].slot = k /\ req'[o].tried = tried \cup {k} /\ req'[o].answer = req[o].answer
      BY <1>1, <2>1 DEF Request
    <2>5. QED
      BY <1>1, <1>2, <2>2, <2>3, <2>4
  <1>4. CASE /\ Untried(pl, tried) = {}
             /\ req' = [req EXCEPT ![o].place = "answered",
                                   ![o].answer = IF Unavailable(pl) # Key /\ last # "none" THEN last
                                                 ELSE IF pl.limited = Key THEN "retry" ELSE "final"]
    <2>1. last = "none" \/ Unavailable(pl) = Key
      BY <1>4 DEF Untried, Unavailable, Pool
    <2>2. PICK a \in { "retry", "final" } :
             req' = [req EXCEPT ![o].place = "answered", ![o].answer = a]
      BY <1>4, <2>1
    <2>3. req'[o].place = "answered" /\ req'[o].answer = a
      BY <1>1, <2>2 DEF Request
    <2>4. QED
      BY <1>2, <2>3 DEF Refusal
  <1>5. QED
    BY <1>3, <1>4 DEF NextKey

LEMMA TakeKeysKeeps == ASSUME SInv, KInv, NEW o \in Operation, TakeKeys(o) PROVE KInv'
  <1>0. /\ TypeOK /\ req[o].at \in Process /\ pool[req[o].at] \in Pool /\ "none" \in Answer
        /\ "none" \notin Refusal
    BY DEF SInv, TypeOK, Request, Answer, Refusal
  <1>1. /\ \A u \in Operation : req[u].at = req[o].at => req[u].place # "fetching"
        /\ NextKey(o, pool[req[o].at], {}, "none")
        /\ UNCHANGED <<pool, refusals>>
    BY DEF TakeKeys
  <1>2. /\ req'[o].at = req[o].at /\ \A u \in Operation \ {o} : req'[u] = req[u]
        /\ req'[o].answer \notin Refusal
        /\ req'[o].place = "fetching" =>
              /\ req'[o].slot \notin Unavailable(pool[req[o].at])
              /\ req'[o].tried \subseteq Unavailable(pool[req[o].at]) \cup {req'[o].slot}
    BY <1>0, <1>1, TurnKeeps
  <1>3. MarksInv'
    BY <1>1 DEF KInv, MarksInv, Unavailable
  <1>4. RotationInv'
    BY <1>1, <1>2 DEF KInv, RotationInv, Unavailable
  <1>5. HolderInv'
    BY <1>1, <1>2 DEF KInv, HolderInv
  <1>6. QED
    BY <1>3, <1>4, <1>5 DEF KInv

LEMMA KeyRefusedKeeps == ASSUME SInv, KInv, NEW o \in Operation, KeyRefused(o) PROVE KInv'
  <1> DEFINE p == req[o].at
             k == req[o].slot
  <1>0. /\ TypeOK /\ p \in Process /\ pool[p] \in Pool /\ k \in Key
        /\ req[o].tried \in SUBSET Key /\ Refusal \subseteq Answer
        /\ pool \in [Process -> Pool] /\ refusals \in [Process -> [Key -> Nat]]
        /\ KeyCount \in Nat /\ KeyCount >= 1
        /\ \A u \in Operation : req[u].at \in Process
    BY ConstantFacts DEF SInv, TypeOK, Request, Answer, Refusal
  <1>1. PICK r \in Refusal :
           /\ pool' = [pool EXCEPT ![p] = Refused(@, k, r)]
           /\ NextKey(o, Refused(pool[p], k, r), req[o].tried, r)
           /\ refusals' = [refusals EXCEPT ![p][k] = @ + 1]
    BY DEF KeyRefused
  <1>2. req[o].place = "fetching"
    BY DEF KeyRefused
  <1> DEFINE pl == Refused(pool[p], k, r)
  <1>3. /\ pl \in Pool
        /\ Unavailable(pl) = Unavailable(pool[p]) \cup {k}
    <2>1. (k + 1) % KeyCount \in Key
      BY <1>0 DEF Key
    <2>2. pl \in Pool
      BY <1>0, <2>1 DEF Refused, Pool
    <2>3. /\ pl.limited = IF r = "limited" THEN pool[p].limited \cup {k} ELSE pool[p].limited
          /\ pl.invalid = IF r = "invalid" THEN pool[p].invalid \cup {k} ELSE pool[p].invalid
      BY <1>0 DEF Refused, Pool
    <2>4. r = "limited" \/ r = "invalid"
      BY DEF Refusal
    <2> HIDE DEF pl
    <2>5. Unavailable(pl) = Unavailable(pool[p]) \cup {k}
      BY <2>3, <2>4 DEF Unavailable
    <2>6. QED
      BY <2>2, <2>5
  <1> HIDE DEF pl
  <1>4. /\ pool' = [pool EXCEPT ![p] = pl] /\ NextKey(o, pl, req[o].tried, r)
        /\ pool'[p] = pl /\ \A q \in Process \ {p} : pool'[q] = pool[q]
    BY <1>0, <1>1 DEF pl
  <1>5. k \notin Unavailable(pool[p]) /\ req[o].tried \subseteq Unavailable(pl)
    BY <1>2, <1>3 DEF KInv, RotationInv
  <1>6. /\ req'[o].at = p /\ \A u \in Operation \ {o} : req'[u] = req[u]
        /\ req'[o].answer \notin Refusal
        /\ req'[o].place = "fetching" =>
              /\ req'[o].slot \notin Unavailable(pl)
              /\ req'[o].tried \subseteq Unavailable(pl) \cup {req'[o].slot}
    BY <1>0, <1>3, <1>4, <1>5, TurnKeeps
  <1>7. MarksInv'
    <2>1. ASSUME NEW q \in Process, NEW j \in Key
          PROVE  refusals'[q][j] = IF j \in Unavailable(pool'[q]) THEN 1 ELSE 0
      <3>1. refusals[q][j] = IF j \in Unavailable(pool[q]) THEN 1 ELSE 0
        BY DEF KInv, MarksInv
      <3>2. CASE q = p /\ j = k
        BY <1>0, <1>1, <1>3, <1>4, <1>5, <3>1, <3>2
      <3>3. CASE q = p /\ j # k
        BY <1>0, <1>1, <1>3, <1>4, <3>1, <3>3
      <3>4. CASE q # p
        BY <1>0, <1>1, <1>4, <3>1, <3>4
      <3>5. QED
        BY <3>2, <3>3, <3>4
    <2>2. QED
      BY <2>1 DEF MarksInv, Unavailable
  <1>8. \A u \in Operation \ {o} : req[u].place = "fetching" => req[u].at # p
    BY <1>2 DEF KInv, HolderInv
  <1>9. RotationInv'
    <2>1. ASSUME NEW u \in Operation
          PROVE  /\ req'[u].answer \notin Refusal
                 /\ req'[u].place = "fetching" =>
                       /\ req'[u].slot \notin Unavailable(pool'[req'[u].at])
                       /\ req'[u].tried \subseteq
                             Unavailable(pool'[req'[u].at]) \cup {req'[u].slot}
      <3>1. CASE u = o
        BY <1>4, <1>6, <3>1
      <3>2. CASE u # o
        BY <1>0, <1>4, <1>6, <1>8, <3>2 DEF KInv, RotationInv
      <3>3. QED
        BY <3>1, <3>2
    <2>2. QED
      BY <2>1 DEF RotationInv, Unavailable
  <1>10. HolderInv'
    BY <1>6, <1>8 DEF KInv, HolderInv
  <1>11. QED
    BY <1>7, <1>9, <1>10 DEF KInv

\* The other steps of dispatch and of the key loop.
LEMMA ForwardsKeepKeys == ASSUME SInv, KInv, NEW o \in Operation, Forwards(o) PROVE KInv'
  <1>0. /\ TypeOK /\ \A u \in Operation : req[u].answer \notin Refusal
        /\ req \in [Operation -> Request] /\ pool \in [Process -> Pool]
        /\ req[o].at \in Process
        /\ { "locking", "queued", "calling", "answered" } \subseteq Place
    BY DEF SInv, KInv, RotationInv, TypeOK, Request, Place, Authorizing
  <1>1. \A u \in Operation \ {o} : req'[u] = req[u]
    BY <1>0, ForwardsEffect
  <1>2. ASSUME NEW where \in { "locking", "queued", "calling" }, Move(o, where)
        PROVE  req'[o].place # "fetching" /\ req'[o].answer \notin Refusal
    BY <1>0, <1>2, MoveType
  <1>3. ASSUME NEW a \in { "final", "retry" }, Answers(o, a)
        PROVE  req'[o].place # "fetching" /\ req'[o].answer \notin Refusal
    BY <1>0, <1>3, AnswersType DEF Refusal, Answer
  <1>4. CASE TakeKeys(o)
    BY <1>4, TakeKeysKeeps
  <1>5. CASE KeyRefused(o)
    BY <1>5, KeyRefusedKeeps
  <1>6. CASE Enter(o) \/ StoreBusy(o) \/ Dispatch(o) \/ ModelAnswers(o) \/ Deadline(o)
    <2>1. UNCHANGED <<pool, refusals>>
      BY <1>6 DEF Enter, StoreBusy, Dispatch, ModelAnswers, Deadline, history
    <2>2. \/ \E where \in { "locking", "queued", "calling" } : Move(o, where)
          \/ Answers(o, "final")
      BY <1>6 DEF Enter, StoreBusy, Dispatch, ModelAnswers, Deadline
    <2>3. req'[o].place # "fetching" /\ req'[o].answer \notin Refusal
      BY <1>2, <1>3, <2>2
    <2>4. QED
      BY <1>1, <2>1, <2>3, KeysUndisturbed
  <1>7. CASE KeyAnswers(o)
    <2>1. /\ pool' = [pool EXCEPT ![req[o].at].active = req[o].slot] /\ UNCHANGED refusals
          /\ \E a \in { "final", "retry" } : Answers(o, a)
      BY <1>7 DEF KeyAnswers, history
    <2>2. \A p \in Process : Unavailable(pool'[p]) = Unavailable(pool[p])
      BY <1>0, <2>1 DEF Unavailable, Pool
    <2>3. req'[o].place # "fetching" /\ req'[o].answer \notin Refusal
      BY <1>3, <2>1
    <2>4. QED
      BY <1>1, <2>1, <2>2, <2>3, KeysUndisturbed
  <1>8. QED
    BY <1>4, <1>5, <1>6, <1>7 DEF Forwards

LEMMA NextKInv == SInv /\ KInv /\ [Next]_vars => KInv'
  <1> SUFFICES ASSUME SInv, KInv, [Next]_vars PROVE KInv'
    OBVIOUS
  <1>0. /\ TypeOK /\ \A u \in Operation : req[u].answer \notin Refusal
        /\ "none" \notin Refusal /\ "final" \notin Refusal
    BY DEF SInv, KInv, RotationInv, Refusal
  <1>1. CASE UNCHANGED vars
    <2>1. UNCHANGED <<pool, refusals, req>>
      BY <1>1 DEF vars, history
    <2>2. QED
      BY <2>1, KeysUndisturbed
  <1>2. CASE Tick \/ Owner
    <2>1. UNCHANGED <<pool, refusals, req>>
      BY <1>2 DEF Tick, Owner, Issue, Revoke, history
    <2>2. QED
      BY <2>1, KeysUndisturbed
  <1>3. ASSUME NEW o \in Operation, Outside(o)
        PROVE  KInv'
    BY <1>0, <1>3, OutsideKeeps, KeysUndisturbed
  <1>4. ASSUME NEW o \in Operation, Reserves(o)
        PROVE  KInv'
    <2>1. /\ UNCHANGED <<pool, refusals>> /\ \A u \in Operation \ {o} : req'[u] = req[u]
          /\ req'[o].place # "fetching" /\ req'[o].answer \in { req[o].answer, "final" }
      BY <1>4, ReservationEffect DEF Reserves
    <2>2. QED
      BY <1>0, <2>1, KeysUndisturbed
  <1>5. ASSUME NEW p \in Process, Crash(p)
        PROVE  KInv'
    <2>1. /\ \A o \in Operation :
               \/ req[o].at # p /\ req'[o] = req[o]
               \/ req[o].place = "none" /\ req'[o] = req[o]
               \/ req'[o] = NoRequest
          /\ pool' = [pool EXCEPT ![p] = FreshPool]
          /\ refusals' = [refusals EXCEPT ![p] = [k \in Key |-> 0]]
      BY <1>5, CrashKeeps
    <2>2. NoRequest.place = "none" /\ NoRequest.answer = "none" /\ Unavailable(FreshPool) = {}
      BY DEF NoRequest, Fresh, FreshPool, Unavailable
    <2>3. /\ pool \in [Process -> Pool] /\ refusals \in [Process -> [Key -> Nat]]
          /\ \A u \in Operation : req[u].at \in Process
      BY DEF SInv, TypeOK, Request
    <2>4. /\ pool'[p] = FreshPool /\ \A q \in Process \ {p} : pool'[q] = pool[q]
          /\ \A k \in Key : refusals'[p][k] = 0
          /\ \A q \in Process \ {p} : refusals'[q] = refusals[q]
      BY <2>1, <2>3
    <2>5. MarksInv'
      <3>1. ASSUME NEW q \in Process, NEW j \in Key
            PROVE  refusals'[q][j] = IF j \in Unavailable(pool'[q]) THEN 1 ELSE 0
        BY <2>2, <2>4 DEF KInv, MarksInv
      <3>2. QED
        BY <3>1 DEF MarksInv, Unavailable
    <2>6. \A o \in Operation :
             \/ req'[o] = req[o] /\ (req[o].place = "fetching" => req[o].at # p)
             \/ req'[o].place = "none" /\ req'[o].answer = "none"
      BY <2>1, <2>2
    <2>7. ASSUME NEW o \in Operation
          PROVE  /\ req'[o].answer \notin Refusal
                 /\ req'[o].place = "fetching" =>
                       /\ req'[o].slot \notin Unavailable(pool'[req'[o].at])
                       /\ req'[o].tried \subseteq
                             Unavailable(pool'[req'[o].at]) \cup {req'[o].slot}
      BY <1>0, <2>3, <2>4, <2>6 DEF KInv, RotationInv
    <2>8. RotationInv'
      BY <2>7 DEF RotationInv, Unavailable
    <2>9. HolderInv'
      BY <2>6 DEF KInv, HolderInv
    <2>10. QED
      BY <2>5, <2>8, <2>9 DEF KInv
  <1>6. QED
    BY <1>1, <1>2, <1>3, <1>4, <1>5, NextCases, ForwardsKeepKeys

LEMMA KInvHolds == Spec => [](SInv /\ KInv)
  <1>1. Init => SInv /\ KInv
    BY InitSInv, InitKInv
  <1>2. (SInv /\ KInv) /\ [Next]_vars => (SInv /\ KInv)'
    BY NextSInv, NextKInv
  <1>3. QED
    BY <1>1, <1>2, PTL DEF Spec

\* Whatever requests, deadlines and crashes interleave, a process calls no more
\* with a key that refused it (HttpxFMPTransport.request under its lock).
THEOREM RefusedKeysRest == Spec => []RefusedOnce
  <1>1. KInv => RefusedOnce
    BY DEF KInv, MarksInv, RefusedOnce
  <1>2. QED
    BY <1>1, KInvHolds, PTL

\* The product is never answered with the refusal of one key: a rotation that ends
\* without an answer has found every key refused (HttpxFMPTransport.request).
THEOREM DenialsArePools == Spec => []DenialIsThePools
  <1>1. KInv => DenialIsThePools
    BY DEF KInv, RotationInv, DenialIsThePools
  <1>2. QED
    BY <1>1, KInvHolds, PTL

-----------------------------------------------------------------------------
(* Every call to the provider is paid for.                                 *)

DataSent == { g \in sent : g.operation \in Data }
RefusedPairs == { pk \in Process \X Key : refusals[pk[1]][pk[2]] > 0 }
Queued == { o \in Operation : req[o].place = "queued" }

Unsent == { "arrived", "locking", "reading", "writing", "granted" }

\* What is forwarded is the present try, and only once.
SentInv == \A o \in Operation :
    /\ req[o].place = "granted" => \E g \in granted : g.operation = o /\ g.try = tries[o]
    /\ req[o].place \in Unsent => \A g \in sent : g.operation = o => g.try < tries[o]

\* A request that waits for the keys has a call left, which TakeKeys spends.
PaidInv ==
    /\ IsFiniteSet(RefusedPairs)
    /\ crashes = 0 =>
          calls + Cardinality(Queued) <= Cardinality(DataSent) + Cardinality(RefusedPairs)

LEMMA InitPaid == Init => SentInv /\ PaidInv
  <1> SUFFICES ASSUME Init PROVE SentInv /\ PaidInv
    OBVIOUS
  <1>1. \A o \in Operation : req[o].place = "none"
    BY DEF Init, NoRequest, Fresh
  <1>2. \A p \in Process, k \in Key : refusals[p][k] = 0
    BY DEF Init
  <1>3. DataSent = {} /\ Queued = {} /\ RefusedPairs = {} /\ calls = 0
    BY <1>1, <1>2 DEF Init, DataSent, Queued, RefusedPairs
  <1>4. IsFiniteSet({}) /\ Cardinality({}) = 0
    BY FS_EmptySet
  <1>5. QED
    BY <1>1, <1>3, <1>4 DEF SentInv, PaidInv, Unsent

\* The sets that are counted are finite.
LEMMA PaidFinite ==
    ASSUME SInv, AInv, PaidInv
    PROVE  /\ IsFiniteSet(DataSent) /\ IsFiniteSet(Queued) /\ IsFiniteSet(RefusedPairs)
           /\ Cardinality(DataSent) \in Nat /\ Cardinality(Queued) \in Nat
           /\ Cardinality(RefusedPairs) \in Nat /\ calls \in Nat
  <1>1. IsFiniteSet(granted) /\ DataSent \subseteq granted
    BY DEF AInv, GrantsInv, SInv, TypeOK, DataSent
  <1>2. IsFiniteSet(Operation) /\ Queued \subseteq Operation
    BY GatewayAssumption DEF Queued
  <1>3. IsFiniteSet(DataSent) /\ IsFiniteSet(Queued) /\ IsFiniteSet(RefusedPairs)
    BY <1>1, <1>2, FS_Subset DEF PaidInv
  <1>4. QED
    BY <1>3, FS_CardinalityType DEF SInv, TypeOK

\* A step that calls nobody, forwards nothing and lets no request wait for the keys.
LEMMA PaidUndisturbed ==
    ASSUME SInv, AInv, PaidInv, UNCHANGED <<crashes, sent, calls, refusals>>,
           \A u \in Operation : req'[u].place = "queued" => req[u].place = "queued"
    PROVE  PaidInv'
  <1>1. DataSent' = DataSent /\ RefusedPairs' = RefusedPairs /\ Queued' \subseteq Queued
    BY DEF DataSent, RefusedPairs, Queued
  <1>2. /\ IsFiniteSet(Queued') /\ Cardinality(Queued') <= Cardinality(Queued)
        /\ Cardinality(Queued') \in Nat
    BY <1>1, PaidFinite, FS_Subset, FS_CardinalityType
  <1>3. QED
    BY <1>1, <1>2, PaidFinite DEF PaidInv

\* A try that is forwarded adds a member to what was sent, and at most one
\* request waits for the keys more than before.
LEMMA DispatchPays ==
    ASSUME SInv, AInv, SentInv, PaidInv, NEW o \in Operation, Dispatch(o)
    PROVE  PaidInv'
  <1>0. /\ TypeOK /\ req \in [Operation -> Request] /\ { "queued", "calling" } \subseteq Place
        /\ IsFiniteSet(granted)
    BY DEF SInv, AInv, GrantsInv, TypeOK, Place
  <1>1. /\ req[o].place = "granted"
        /\ sent' = sent \cup { g \in granted : g.operation = o /\ g.try = tries[o] }
        /\ UNCHANGED <<crashes, calls, refusals, granted>>
    BY DEF Dispatch
  <1>2. PICK where \in { "queued", "calling" } :
           /\ Move(o, where) /\ (where = "queued" <=> o \in Data)
    BY DEF Dispatch
  <1>3. req'[o].place = where /\ \A u \in Operation \ {o} : req'[u] = req[u]
    BY <1>0, <1>2, MoveType
  <1>4. RefusedPairs' = RefusedPairs /\ DataSent \subseteq DataSent' /\ DataSent' \subseteq granted
    BY <1>0, <1>1 DEF RefusedPairs, DataSent, TypeOK
  <1>5. /\ IsFiniteSet(DataSent') /\ Cardinality(DataSent) <= Cardinality(DataSent')
        /\ Cardinality(DataSent') \in Nat
    <2>1. IsFiniteSet(DataSent')
      BY <1>0, <1>4, FS_Subset
    <2>2. QED
      BY <1>4, <2>1, FS_Subset, FS_CardinalityType
  <1>6. CASE o \notin Data
    <2>1. Queued' = Queued
      BY <1>1, <1>2, <1>3, <1>6 DEF Queued
    <2>2. QED
      BY <1>1, <1>4, <1>5, <2>1, PaidFinite DEF PaidInv
  <1>7. CASE o \in Data
    <2>1. Queued' = Queued \cup {o} /\ o \notin Queued
      BY <1>1, <1>2, <1>3, <1>7 DEF Queued
    <2>2. Cardinality(Queued') = Cardinality(Queued) + 1
      BY <2>1, PaidFinite, FS_AddElement
    <2>3. PICK g \in granted : g.operation = o /\ g.try = tries[o]
      BY <1>1 DEF SentInv
    <2>4. g \in DataSent'
      BY <1>1, <1>7, <2>3 DEF DataSent
    <2>5. g \notin DataSent
      <3>1. tries[o] \in Nat
        BY ConstantFacts DEF SInv, TypeOK
      <3>2. \A h \in sent : h.operation = o => h.try < tries[o]
        BY <1>1 DEF SentInv, Unsent
      <3>3. QED
        BY <2>3, <3>1, <3>2 DEF DataSent
    <2>6. Cardinality(DataSent \cup {g}) = Cardinality(DataSent) + 1
      BY <2>5, PaidFinite, FS_AddElement
    <2>7. Cardinality(DataSent \cup {g}) <= Cardinality(DataSent')
      BY <1>4, <1>5, <2>4, FS_Subset
    <2>8. QED
      BY <1>1, <1>4, <1>5, <2>2, <2>6, <2>7, PaidFinite DEF PaidInv
  <1>8. QED
    BY <1>6, <1>7

\* A turn of the rotation calls once at most.
LEMMA TurnCalls ==
    ASSUME TypeOK, NEW o \in Operation, NEW pl, NEW tried, NEW last, NextKey(o, pl, tried, last)
    PROVE  calls' \in Nat /\ calls' <= calls + 1
  <1>1. calls \in Nat /\ (calls' = calls + 1 \/ calls' = calls)
    BY DEF TypeOK, NextKey
  <1>2. QED
    BY <1>1

LEMMA TakeKeysPays ==
    ASSUME SInv, AInv, PaidInv, NEW o \in Operation, TakeKeys(o)
    PROVE  PaidInv'
  <1>0. /\ TypeOK /\ pool[req[o].at] \in Pool /\ "none" \in Answer
    BY DEF SInv, TypeOK, Request, Answer
  <1>1. /\ req[o].place = "queued"
        /\ NextKey(o, pool[req[o].at], {}, "none")
        /\ UNCHANGED <<crashes, sent, refusals>>
    BY DEF TakeKeys
  <1>2. calls' \in Nat /\ calls' <= calls + 1
    BY <1>0, <1>1, TurnCalls
  <1>3. req'[o].place # "queued" /\ \A u \in Operation \ {o} : req'[u] = req[u]
    BY <1>0, <1>1, NextKeyType
  <1>4. Queued' = Queued \ {o} /\ o \in Queued
    BY <1>1, <1>3 DEF Queued
  <1>5. DataSent' = DataSent /\ RefusedPairs' = RefusedPairs
    BY <1>1 DEF DataSent, RefusedPairs
  <1>6. Cardinality(Queued') = Cardinality(Queued) - 1 /\ IsFiniteSet(Queued')
    BY <1>4, PaidFinite, FS_RemoveElement
  <1>7. QED
    BY <1>1, <1>2, <1>5, <1>6, PaidFinite DEF PaidInv

\* Whatever the pool, a turn over the keys ends in a fetch or in an answer.
LEMMA NextKeyPlaces ==
    ASSUME TypeOK, NEW o \in Operation, NEW pl, NEW tried, NEW last,
           NextKey(o, pl, tried, last)
    PROVE  req'[o].place \in { "fetching", "answered" }
  <1>0. o \in DOMAIN req /\ "place" \in DOMAIN req[o]
    BY DEF TypeOK, Request
  <1>1. CASE \E k \in Select(pl, Untried(pl, tried)) :
                req' = [req EXCEPT ![o].place = "fetching", ![o].slot = k,
                                   ![o].tried = tried \cup {k}]
    <2>1. PICK k : req' = [req EXCEPT ![o].place = "fetching", ![o].slot = k,
                                      ![o].tried = tried \cup {k}]
      BY <1>1
    <2>2. req'[o].place = "fetching"
      BY <1>0, <2>1
    <2>3. QED
      BY <2>2
  <1>2. ASSUME NEW a, req' = [req EXCEPT ![o].place = "answered", ![o].answer = a]
        PROVE  req'[o].place = "answered"
    BY <1>0, <1>2
  <1>3. QED
    BY <1>1, <1>2 DEF NextKey

\* The key that is refused had not refused before: its lock was never let go.
LEMMA KeyRefusedPays ==
    ASSUME SInv, AInv, KInv, PaidInv, NEW o \in Operation, KeyRefused(o)
    PROVE  PaidInv'
  <1> DEFINE p == req[o].at
             k == req[o].slot
  <1>0. /\ TypeOK /\ p \in Process /\ k \in Key
        /\ refusals \in [Process -> [Key -> Nat]]
    BY DEF SInv, TypeOK, Request
  <1>1. /\ req[o].place = "fetching"
        /\ refusals' = [refusals EXCEPT ![p][k] = @ + 1]
        /\ UNCHANGED <<crashes, sent>>
        /\ \E pl, r : NextKey(o, pl, req[o].tried, r)
    BY DEF KeyRefused
  <1>2. refusals[p][k] = 0
    BY <1>0, <1>1 DEF KInv, RotationInv, MarksInv
  <1>3. RefusedPairs' = RefusedPairs \cup {<<p, k>>} /\ <<p, k>> \notin RefusedPairs
    <2>1. \A q \in Process, j \in Key :
             refusals'[q][j] = IF q = p /\ j = k THEN 1 ELSE refusals[q][j]
      BY <1>0, <1>1, <1>2
    <2>2. QED
      BY <1>0, <1>2, <2>1 DEF RefusedPairs
  <1>4. /\ IsFiniteSet(RefusedPairs')
        /\ Cardinality(RefusedPairs') = Cardinality(RefusedPairs) + 1
    BY <1>3, PaidFinite, FS_AddElement
  <1>5. calls' \in Nat /\ calls' <= calls + 1
    BY <1>0, <1>1, TurnCalls
  <1>6. Queued' = Queued
    <2>1. req'[o].place # "queued" /\ \A u \in Operation \ {o} : req'[u] = req[u]
      <3>1. \E r \in Refusal : NextKey(o, Refused(pool[p], k, r), req[o].tried, r)
        BY DEF KeyRefused
      <3>2. \A u \in Operation \ {o} : req'[u] = req[u]
        BY <1>0, ForwardsEffect DEF Forwards
      <3>3. req'[o].place \in { "fetching", "answered" }
        BY <1>0, <3>1, NextKeyPlaces
      <3>4. QED
        BY <3>2, <3>3
    <2>2. QED
      BY <1>1, <2>1 DEF Queued
  <1>7. DataSent' = DataSent
    BY <1>1 DEF DataSent
  <1>8. QED
    BY <1>1, <1>4, <1>5, <1>6, <1>7, PaidFinite DEF PaidInv

LEMMA NextPaidInv == SInv /\ AInv /\ KInv /\ SentInv /\ PaidInv /\ [Next]_vars => PaidInv'
  <1> SUFFICES ASSUME SInv, AInv, KInv, SentInv, PaidInv, [Next]_vars PROVE PaidInv'
    OBVIOUS
  <1>0. TypeOK
    BY DEF SInv
  <1>1. CASE UNCHANGED vars \/ Tick \/ Owner
    <2>1. UNCHANGED <<crashes, sent, calls, refusals, req>>
      BY <1>1 DEF vars, history, Tick, Owner, Issue, Revoke
    <2>2. QED
      BY <2>1, PaidUndisturbed
  <1>2. ASSUME NEW o \in Operation, Outside(o) PROVE PaidInv'
    BY <1>2, OutsideKeeps, PaidUndisturbed
  <1>3. ASSUME NEW o \in Operation, Reserves(o) PROVE PaidInv'
    <2>1. /\ UNCHANGED <<crashes, sent, calls, refusals>> /\ req'[o].place # "queued"
          /\ \A u \in Operation \ {o} : req'[u] = req[u]
      <3>1. CASE CommitReservation(o)
        BY <1>3, <3>1, ReservationEffect DEF CommitReservation
      <3>2. CASE BeginReservation(o) \/ CheckCredential(o)
        BY <1>3, <3>2, ReservationEffect DEF BeginReservation, CheckCredential, history
      <3>3. QED
        BY <1>3, <3>1, <3>2 DEF Reserves
    <2>2. QED
      BY <2>1, PaidUndisturbed
  <1>4. ASSUME NEW o \in Operation,
               Enter(o) \/ StoreBusy(o) \/ ModelAnswers(o) \/ Deadline(o) \/ KeyAnswers(o)
        PROVE  PaidInv'
    <2>1. UNCHANGED <<crashes, sent, calls, refusals>>
      BY <1>4 DEF Enter, StoreBusy, ModelAnswers, Deadline, KeyAnswers, history
    <2>2. Move(o, "locking") \/ \E a \in { "final", "retry" } : Answers(o, a)
      BY <1>4 DEF Enter, StoreBusy, ModelAnswers, Deadline, KeyAnswers
    <2>3. "locking" \in Place /\ { "final", "retry" } \subseteq Answer
      BY DEF Place, Authorizing, Answer
    <2>4. req'[o].place # "queued" /\ \A u \in Operation \ {o} : req'[u] = req[u]
      BY <1>0, <2>2, <2>3, MoveType, AnswersType
    <2>5. QED
      BY <2>1, <2>4, PaidUndisturbed
  <1>5. ASSUME NEW o \in Operation, Forwards(o) PROVE PaidInv'
    BY <1>4, <1>5, DispatchPays, TakeKeysPays, KeyRefusedPays DEF Forwards
  <1>6. ASSUME NEW p \in Process, Crash(p) PROVE PaidInv'
    <2>1. /\ refusals' = [refusals EXCEPT ![p] = [k \in Key |-> 0]]
          /\ crashes' = crashes + 1 /\ crashes \in Nat
          /\ refusals \in [Process -> [Key -> Nat]]
      BY <1>0, <1>6, CrashKeeps DEF TypeOK
    <2>2. RefusedPairs' \subseteq RefusedPairs
      BY <2>1 DEF RefusedPairs
    <2>3. IsFiniteSet(RefusedPairs')
      BY <2>2, FS_Subset DEF PaidInv
    <2>4. QED
      BY <2>1, <2>3 DEF PaidInv
  <1>7. QED
    BY <1>1, <1>2, <1>3, <1>5, <1>6, NextCases

\* What was sent before stays of an earlier try.
LEMMA NextSentInv == SInv /\ AInv /\ SentInv /\ [Next]_vars => SentInv'
  <1> SUFFICES ASSUME SInv, AInv, SentInv, [Next]_vars PROVE SentInv'
    OBVIOUS
  <1>0. /\ TypeOK /\ sent \subseteq granted
        /\ \A u \in Operation : tries[u] \in Nat
        /\ \A g \in granted : g.try \in Nat /\ g.operation \in Operation
        /\ \A g \in sent : g.try <= tries[g.operation]
    <2>1. Tries \in Nat
      BY ConstantFacts
    <2>2. QED
      BY <2>1 DEF SInv, AInv, GrantsInv, TypeOK
  <1>1. CASE UNCHANGED vars \/ Tick \/ Owner
    <2>1. UNCHANGED <<granted, sent, tries, req>>
      BY <1>1 DEF vars, history, Tick, Owner, Issue, Revoke
    <2>2. QED
      BY <2>1 DEF SentInv
  <1>2. ASSUME NEW o \in Operation, Outside(o) PROVE SentInv'
    <2>1. /\ UNCHANGED <<granted, sent>>
          /\ \A u \in Operation \ {o} : req'[u] = req[u] /\ tries'[u] = tries[u]
          /\ \/ req'[o] = req[o] /\ tries'[o] = tries[o]
             \/ req'[o].place = "none" /\ tries'[o] = tries[o]
             \/ req'[o].place = "arrived" /\ tries'[o] = tries[o] + 1
      BY <1>2, OutsideKeeps
    <2>2. CASE req'[o].place = "arrived" /\ tries'[o] = tries[o] + 1
      <3>1. \A g \in sent : g.operation = o => g.try < tries'[o]
        BY <1>0, <2>2
      <3>2. QED
        BY <2>1, <2>2, <3>1 DEF SentInv, Unsent
    <2>3. QED
      BY <2>1, <2>2 DEF SentInv, Unsent
  <1>3. ASSUME NEW o \in Operation, Reserves(o) PROVE SentInv'
    <2>1. /\ \A u \in Operation \ {o} : req'[u] = req[u]
          /\ UNCHANGED <<tries, sent>> /\ req[o].place \in Unsent
      BY <1>3, ReservationEffect DEF Reserves, Unsent
    <2>2. CASE CommitReservation(o)
      <3>1. \E g : g.operation = o /\ g.try = tries[o] /\ granted' = granted \cup {g}
        BY <2>2, CommitGives
      <3>2. QED
        BY <2>1, <3>1 DEF SentInv, Unsent
    <2>3. CASE BeginReservation(o) \/ CheckCredential(o)
      <3>1. UNCHANGED granted
        BY <2>3 DEF BeginReservation, CheckCredential, history
      <3>2. req'[o].place # "granted"
        <4>1. "reading" \in Place /\ "final" \in Answer /\ req \in [Operation -> Request]
          BY <1>0 DEF Place, Authorizing, Answer, TypeOK
        <4>2. CASE BeginReservation(o)
          BY <1>0, <4>1, <4>2, MoveType DEF BeginReservation
        <4>3. CASE CheckCredential(o) /\ ~Grantable(o)
          BY <1>0, <4>1, <4>3, AnswersType DEF CheckCredential
        <4>4. CASE CheckCredential(o) /\ Grantable(o)
          <5>1. \E n : req' = [req EXCEPT ![o].place = "writing", ![o].next = n]
            BY <4>4 DEF CheckCredential
          <5>2. QED
            BY <4>1, <5>1 DEF Request
        <4>5. QED
          BY <2>3, <4>2, <4>3, <4>4
      <3>3. QED
        BY <2>1, <3>1, <3>2 DEF SentInv, Unsent
    <2>4. QED
      BY <1>3, <2>2, <2>3 DEF Reserves
  <1>4. ASSUME NEW o \in Operation, Forwards(o) PROVE SentInv'
    <2>1. /\ UNCHANGED <<tries, granted>> /\ \A u \in Operation \ {o} : req'[u] = req[u]
          /\ req'[o].place \notin { "arrived", "reading", "writing", "granted" }
          /\ req'[o].place = "locking" => req[o].place = "arrived"
      BY <1>0, <1>4, ForwardsEffect
    <2>2. CASE Dispatch(o)
      <3>1. /\ req[o].place = "granted"
            /\ sent' = sent \cup { g \in granted : g.operation = o /\ g.try = tries[o] }
        BY <2>2 DEF Dispatch
      <3>2. req'[o].place \notin Unsent
        BY <2>1, <3>1 DEF Unsent
      <3>3. \A g \in sent' : g.operation # o => g \in sent
        BY <3>1
      <3>4. QED
        BY <2>1, <3>2, <3>3 DEF SentInv, Unsent
    <2>3. CASE ~Dispatch(o)
      <3>1. UNCHANGED sent
        BY <1>4, <2>3 DEF Forwards, Enter, StoreBusy, ModelAnswers, Deadline, TakeKeys,
           KeyAnswers, KeyRefused, history
      <3>2. QED
        BY <2>1, <3>1 DEF SentInv, Unsent
    <2>4. QED
      BY <2>2, <2>3
  <1>5. ASSUME NEW p \in Process, Crash(p) PROVE SentInv'
    <2>1. /\ UNCHANGED <<tries, granted, sent>>
          /\ \A o \in Operation : req'[o] = req[o] \/ req'[o] = NoRequest
      BY <1>5, CrashKeeps
    <2>2. NoRequest.place \notin Unsent
      BY DEF NoRequest, Fresh, Unsent
    <2>3. QED
      BY <2>1, <2>2 DEF SentInv, Unsent
  <1>6. QED
    BY <1>1, <1>2, <1>3, <1>4, <1>5, NextCases

\* While no process stops, the calls to the data provider are at most the forwarded
\* operations and the refusals: no failure but a refusal rotates (KeyAnswers,
\* KeyRefused), and no request is forwarded twice (Dispatch).
THEOREM ProviderCallsArePaid == Spec => []CallsArePaid
  <1>1. SInv /\ AInv /\ PaidInv => CallsArePaid
    <2> SUFFICES ASSUME SInv, AInv, PaidInv, crashes = 0
                 PROVE  calls <= Cardinality(DataSent) + Cardinality(RefusedPairs)
      BY DEF CallsArePaid, DataSent, RefusedPairs
    <2>1. QED
      BY PaidFinite DEF PaidInv
  <1>2. Init => SentInv /\ PaidInv
    BY InitPaid
  <1>3. /\ SInv /\ AInv /\ KInv /\ SentInv /\ [Next]_vars => SentInv'
        /\ SInv /\ AInv /\ KInv /\ SentInv /\ PaidInv /\ [Next]_vars => PaidInv'
    BY NextSentInv, NextPaidInv
  <1>4. QED
    BY <1>1, <1>2, <1>3, AccountsHold, KInvHolds, PTL DEF Spec

=============================================================================
