--------------------------- MODULE EvaluationGateway ---------------------------
(***************************************************************************)
(* The owner's evaluation gateway: processes that authorize an evaluator's *)
(* requests against one SQLite store (src/src/evaluator/store.py), forward *)
(* them to a model or to the financial data provider within a deadline     *)
(* (src/src/evaluator/gateway.py), and rotate the provider's keys under    *)
(* one lock (src/src/adapters/fmp); and the product's clients, which give  *)
(* up, or try a data operation again (src/src/evaluator/client.py).        *)
(*                                                                         *)
(* authorize is synchronous: while a process waits for the store or holds  *)
(* its write lock, the event loop of that process runs nothing else.  The  *)
(* clock is read in minutes, the grain of the rate limit.                  *)
(***************************************************************************)
EXTENDS Integers, FiniteSets

CONSTANTS
    Process,        \* gateway processes that share the store
    Credential,     \* credentials the owner may issue
    Operation,      \* operations of the evaluators' products
    CredentialOf,   \* [Operation -> Credential]
    Data,           \* the operations that fetch financial data, others ask a model
    Reaches,        \* [Operation -> SUBSET Process]: those behind the URL of its session
    Permitted,      \* the operations within their policy's routes and data scope
    Maximum,        \* [Credential -> [Kind -> Nat]]: max_llm_requests, max_data_requests
    PerMinute,      \* [Credential -> Nat]: requests_per_minute
    ExpiresAt,      \* [Credential -> Nat]: the first minute it is expired
    KeyCount,       \* keys of the data provider
    Retries,        \* len(transient_retry_delays)
    LastMinute,     \* bound: the last minute of the clock
    MaxCrashes      \* bound: gateway processes that stop

Kind == { "llm", "data" }
Key == 0 .. KeyCount - 1
Tries == 1 + Retries

ASSUME GatewayAssumption ==
    /\ Process # {} /\ IsFiniteSet(Operation)
    /\ CredentialOf \in [Operation -> Credential]
    /\ Reaches \in [Operation -> SUBSET Process]
    /\ Data \subseteq Operation /\ Permitted \subseteq Operation
    /\ Maximum \in [Credential -> [Kind -> Nat]]
    /\ PerMinute \in [Credential -> Nat]
    /\ ExpiresAt \in [Credential -> Nat]
    /\ KeyCount \in Nat \ {0}
    /\ Retries \in Nat /\ LastMinute \in Nat /\ MaxCrashes \in Nat

VARIABLES
    minute,     \* the clock, in minutes
    row,        \* [Credential -> its row of the credentials table]
    client,     \* [Operation -> what the product's client does with it]
    tries,      \* [Operation -> requests made for it]
    req,        \* [Operation -> its present request at the gateway]
    pool,       \* [Process -> its FMPKeyPool]
    crashes,    \* processes stopped
    granted,    \* history: the reservations committed
    sent,       \* history: those whose operation was forwarded
    calls,      \* history: HTTP calls to the data provider
    refusals    \* history: [Process -> [Key -> refusals since it started]]

history == <<granted, sent, calls, refusals>>
vars == <<minute, row, client, tries, req, pool, crashes, history>>

KindOf == [o \in Operation |-> IF o \in Data THEN "data" ELSE "llm"]

\* The columns llm and data, window and rate_count.
Counts == [ used : [Kind -> Nat], window : Nat, rate : Nat ]
Row == [ issued : BOOLEAN, revoked : BOOLEAN, counts : Counts ]
NoCounts == [used |-> [k \in Kind |-> 0], window |-> 0, rate |-> 0]
NoRow == [issued |-> FALSE, revoked |-> FALSE, counts |-> NoCounts]

\* Where a request is.  The first four follow each other inside authorize and
\* up to the first await of dispatch.
Authorizing == { "locking", "reading", "writing", "granted" }
Place == Authorizing \cup { "none", "arrived", "calling", "queued", "fetching",
                            "answered" }

\* A key's refusal by HTTP 429, or by 401 or 403.
Refusal == { "limited", "invalid" }

\* What the gateway answers: "retry" is a status of the data provider that the
\* product tries again, "final" is anything else, a refusal to authorize included.
Answer == { "none", "retry", "final" } \cup Refusal

Request == [ place : Place, at : Process, next : Counts, tried : SUBSET Key,
             slot : Key, answer : Answer ]

\* No request, or a new one at process p.
Fresh(p, where) ==
    [place |-> where, at |-> p, next |-> NoCounts, tried |-> {}, slot |-> 0, answer |-> "none"]
NoRequest == Fresh(CHOOSE p \in Process : TRUE, "none")

Pool == [ active : Key, limited : SUBSET Key, invalid : SUBSET Key ]
FreshPool == [active |-> 0, limited |-> {}, invalid |-> {}]

Init ==
    /\ minute = 0
    /\ row = [c \in Credential |-> NoRow]
    /\ client = [o \in Operation |-> "idle"]
    /\ tries = [o \in Operation |-> 0]
    /\ req = [o \in Operation |-> NoRequest]
    /\ pool = [p \in Process |-> FreshPool]
    /\ crashes = 0
    /\ granted = {} /\ sent = {} /\ calls = 0
    /\ refusals = [p \in Process |-> [k \in Key |-> 0]]

\* The write lock of the store is held by a transaction.
Locked == \E o \in Operation : req[o].place \in { "reading", "writing" }

\* The event loop that serves o is free to run its coroutine.
LoopFree(o) ==
    \A u \in Operation :
        req[u].at = req[o].at => u = o \/ req[u].place \notin Authorizing

Move(o, where) == req' = [req EXCEPT ![o].place = where]

Answers(o, a) == req' = [req EXCEPT ![o].place = "answered", ![o].answer = a]

-----------------------------------------------------------------------------
(* The owner and the clock                                                 *)

\* issue, refused for a policy that is expired already.
Issue(c) ==
    /\ ~Locked
    /\ ~row[c].issued /\ minute < ExpiresAt[c]
    /\ row' = [row EXCEPT ![c].issued = TRUE]
    /\ UNCHANGED <<minute, client, tries, req, pool, crashes, history>>

\* revoke, from the console or after an issue whose bundle could not be written.
Revoke(c) ==
    /\ ~Locked
    /\ row[c].issued /\ ~row[c].revoked
    /\ row' = [row EXCEPT ![c].revoked = TRUE]
    /\ UNCHANGED <<minute, client, tries, req, pool, crashes, history>>

Tick ==
    /\ minute < LastMinute
    /\ minute' = minute + 1
    /\ UNCHANGED <<row, client, tries, req, pool, crashes, history>>

-----------------------------------------------------------------------------
(* The product                                                             *)

\* The first request for o, or the next after a transient answer.
Ask(o, p) ==
    /\ client[o] \in { "idle", "backoff" }
    /\ req[o].place = "none"
    /\ client' = [client EXCEPT ![o] = "waiting"]
    /\ tries' = [tries EXCEPT ![o] = @ + 1]
    /\ req' = [req EXCEPT ![o] = Fresh(p, "arrived")]
    /\ UNCHANGED <<minute, row, pool, crashes, history>>

\* Altered form of Respond: the product tries again for ever.
RespondAlways(o) ==
    /\ req[o].place = "answered" /\ LoopFree(o)
    /\ client' = [client EXCEPT ![o] =
           IF o \in Data /\ req[o].answer = "retry" THEN "backoff" ELSE "over"]
    /\ req' = [req EXCEPT ![o] = NoRequest]
    /\ UNCHANGED <<minute, row, tries, pool, crashes, history>>

\* The response reaches the client, or a client that gave up meanwhile: its
\* deadline or transport failed, of which the gateway does not know.  Only a
\* transient answer that is received is followed by another request.
Respond(o) ==
    /\ req[o].place = "answered" /\ LoopFree(o)
    /\ \/ /\ o \in Data /\ req[o].answer = "retry" /\ tries[o] < Tries
          /\ client' = [client EXCEPT ![o] = "backoff"]
       \/ client' = [client EXCEPT ![o] = "over"]
    /\ req' = [req EXCEPT ![o] = NoRequest]
    /\ UNCHANGED <<minute, row, tries, pool, crashes, history>>

-----------------------------------------------------------------------------
(* authorize                                                               *)

Enter(o) ==
    /\ req[o].place = "arrived"
    /\ LoopFree(o)
    /\ Move(o, "locking")
    /\ UNCHANGED <<minute, row, client, tries, pool, crashes, history>>

\* Altered form of BeginReservation: a transaction that takes no lock to read.
BeginDeferred(o) ==
    /\ req[o].place = "locking"
    /\ Move(o, "reading")
    /\ UNCHANGED <<minute, row, client, tries, pool, crashes, history>>

\* BEGIN IMMEDIATE takes the write lock of the store.
BeginReservation(o) ==
    /\ req[o].place = "locking"
    /\ ~Locked
    /\ Move(o, "reading")
    /\ UNCHANGED <<minute, row, client, tries, pool, crashes, history>>

\* The busy timeout: an error that is no authorization error, so a 503.
StoreBusy(o) ==
    /\ req[o].place = "locking"
    /\ Locked
    /\ Answers(o, "final")
    /\ UNCHANGED <<minute, row, client, tries, pool, crashes, history>>

\* The reservations already counted in the present minute.
RateNow(counts) == IF counts.window = minute THEN counts.rate ELSE 0

\* What authorize requires of the row and the clock it reads.
Grantable(o) ==
    LET c == CredentialOf[o] counts == row[c].counts
    IN  /\ row[c].issued /\ ~row[c].revoked /\ minute < ExpiresAt[c]
        /\ o \in Permitted
        /\ counts.used[KindOf[o]] < Maximum[c][KindOf[o]]
        /\ RateNow(counts) < PerMinute[c]

Reserve(counts, k) ==
    [used |-> [counts.used EXCEPT ![k] = @ + 1], window |-> minute,
     rate |-> RateNow(counts) + 1]

\* The row and the clock are read.  A refusal rolls back.
CheckCredential(o) ==
    /\ req[o].place = "reading"
    /\ IF Grantable(o)
       THEN req' = [req EXCEPT ![o].place = "writing",
                               ![o].next = Reserve(row[CredentialOf[o]].counts, KindOf[o])]
       ELSE Answers(o, "final")
    /\ UNCHANGED <<minute, row, client, tries, pool, crashes, history>>

CommitReservation(o) ==
    /\ req[o].place = "writing"
    /\ row' = [row EXCEPT ![CredentialOf[o]].counts = req[o].next]
    /\ req' = [req EXCEPT ![o].place = "granted", ![o].next = NoCounts]
    /\ granted' = granted \cup
           {[operation |-> o, try |-> tries[o], minute |-> req[o].next.window]}
    /\ UNCHANGED <<minute, client, tries, pool, crashes, sent, calls, refusals>>

-----------------------------------------------------------------------------
(* dispatch                                                                *)

\* The grant in hand, the operation goes to the model or waits for the keys.
Dispatch(o) ==
    /\ req[o].place = "granted"
    /\ Move(o, IF o \in Data THEN "queued" ELSE "calling")
    /\ sent' = sent \cup { g \in granted : g.operation = o /\ g.try = tries[o] }
    /\ UNCHANGED <<minute, row, client, tries, pool, crashes, granted, calls, refusals>>

ModelAnswers(o) ==
    /\ req[o].place = "calling" /\ LoopFree(o)
    /\ Answers(o, "final")
    /\ UNCHANGED <<minute, row, client, tries, pool, crashes, history>>

\* Altered form of Deadline: only models have one.
DeadlineOfModels(o) ==
    /\ req[o].place = "calling"
    /\ LoopFree(o)
    /\ Answers(o, "final")
    /\ UNCHANGED <<minute, row, client, tries, pool, crashes, history>>

\* The overall deadline: a failed answer of the model, or a 503.  A call that
\* was on its way leaves no mark on the pool.
Deadline(o) ==
    /\ req[o].place \in { "calling", "queued", "fetching" }
    /\ LoopFree(o)
    /\ Answers(o, "final")
    /\ UNCHANGED <<minute, row, client, tries, pool, crashes, history>>

-----------------------------------------------------------------------------
(* The provider's keys: HttpxFMPTransport.request and FMPKeyPool           *)

Unavailable(pl) == pl.limited \cup pl.invalid

Untried(pl, tried) == Key \ (Unavailable(pl) \cup tried)

\* select: the first of them from the active slot on.
Select(pl, keys) ==
    LET Distance(k) == (k - pl.active + KeyCount) % KeyCount
    IN  { k \in keys : \A j \in keys : Distance(k) <= Distance(j) }

\* The next turn of the loop: a call with the next key, or the exhausted
\* envelope, or the last answer if some key tried is still available.
NextKey(o, pl, tried, last) ==
    \/ \E k \in Select(pl, Untried(pl, tried)) :
          /\ req' = [req EXCEPT ![o].place = "fetching", ![o].slot = k,
                                ![o].tried = tried \cup {k}]
          /\ calls' = calls + 1
    \/ /\ Untried(pl, tried) = {}
       /\ req' = [req EXCEPT ![o].place = "answered",
                             ![o].answer = IF Unavailable(pl) # Key /\ last # "none" THEN last
                                           ELSE IF pl.limited = Key THEN "retry" ELSE "final"]
       /\ UNCHANGED calls

\* Altered form of TakeKeys: a pool without its lock.
TakeKeysUnlocked(o) ==
    /\ req[o].place = "queued" /\ LoopFree(o)
    /\ NextKey(o, pool[req[o].at], {}, "none")
    /\ UNCHANGED <<minute, row, client, tries, pool, crashes, granted, sent, refusals>>

\* The lock of the pool is free; its holders are served in any order.
TakeKeys(o) ==
    /\ req[o].place = "queued" /\ LoopFree(o)
    /\ \A u \in Operation : req[u].at = req[o].at => req[u].place # "fetching"
    /\ NextKey(o, pool[req[o].at], {}, "none")
    /\ UNCHANGED <<minute, row, client, tries, pool, crashes, granted, sent, refusals>>

\* Altered form of KeyAnswers: a provider's error tries the next key.
KeyAnswersRotating(o) ==
    /\ req[o].place = "fetching" /\ LoopFree(o)
    /\ \/ /\ Answers(o, "final")
          /\ UNCHANGED calls
       \/ NextKey(o, pool[req[o].at], req[o].tried, "retry")
    /\ pool' = [pool EXCEPT ![req[o].at].active = req[o].slot]
    /\ UNCHANGED <<minute, row, client, tries, crashes, granted, sent, refusals>>

\* record, of an answer that is no refusal of the key.
KeyAnswers(o) ==
    /\ req[o].place = "fetching" /\ LoopFree(o)
    /\ \E a \in { "final", "retry" } : Answers(o, a)
    /\ pool' = [pool EXCEPT ![req[o].at].active = req[o].slot]
    /\ UNCHANGED <<minute, row, client, tries, crashes, history>>

\* Altered form of Refused: a rejected key is passed over but not marked.
RefusedUnmarked(pl, k, r) ==
    [pl EXCEPT !.limited = IF r = "limited" THEN @ \cup {k} ELSE @,
               !.active = (k + 1) % KeyCount]

\* record, of a refusal: the key is unavailable to this process from now on.
Refused(pl, k, r) ==
    [pl EXCEPT !.limited = IF r = "limited" THEN @ \cup {k} ELSE @,
               !.invalid = IF r = "invalid" THEN @ \cup {k} ELSE @,
               !.active = (k + 1) % KeyCount]

KeyRefused(o) ==
    /\ req[o].place = "fetching" /\ LoopFree(o)
    /\ \E r \in Refusal :
          LET p == req[o].at
              k == req[o].slot
          IN  /\ pool' = [pool EXCEPT ![p] = Refused(@, k, r)]
              /\ NextKey(o, Refused(pool[p], k, r), req[o].tried, r)
              /\ refusals' = [refusals EXCEPT ![p][k] = @ + 1]
    /\ UNCHANGED <<minute, row, client, tries, crashes, granted, sent>>

-----------------------------------------------------------------------------
(* A process stops: its transaction rolls back, its requests are gone and  *)
(* the next one starts with a new pool.                                    *)

Crash(p) ==
    LET lost == { o \in Operation : req[o].place # "none" /\ req[o].at = p }
    IN  /\ crashes < MaxCrashes
        /\ crashes' = crashes + 1
        /\ req' = [o \in Operation |-> IF o \in lost THEN NoRequest ELSE req[o]]
        /\ client' = [o \in Operation |-> IF o \in lost THEN "over" ELSE client[o]]
        /\ pool' = [pool EXCEPT ![p] = FreshPool]
        /\ refusals' = [refusals EXCEPT ![p] = [k \in Key |-> 0]]
        /\ UNCHANGED <<minute, row, tries, granted, sent, calls>>

-----------------------------------------------------------------------------
(* The next-state relation                                                 *)

\* The steps the gateway owes a request.
Serve(o) ==
    \/ Enter(o) \/ BeginReservation(o) \/ StoreBusy(o) \/ CheckCredential(o)
    \/ CommitReservation(o) \/ Dispatch(o) \/ TakeKeys(o) \/ Deadline(o) \/ Respond(o)

Next ==
    \/ Tick
    \/ \E c \in Credential : Issue(c) \/ Revoke(c)
    \/ \E o \in Operation :
          \/ \E p \in Reaches[o] : Ask(o, p)
          \/ Serve(o) \/ ModelAnswers(o) \/ KeyAnswers(o) \/ KeyRefused(o)
    \/ \E p \in Process : Crash(p)

Spec == Init /\ [][Next]_vars

\* The event loop runs what is ready and the busy and overall timeouts expire.
\* Nothing obliges a model or the data provider to answer.
Fairness == \A o \in Operation : WF_vars(Serve(o))

FairSpec == Spec /\ Fairness

-----------------------------------------------------------------------------
(* Properties                                                              *)

\* Types of the store's rows, of the requests, of the key pools and of the
\* history; a product makes no more requests for an operation than its retries.
TypeOK ==
    /\ minute \in 0 .. LastMinute
    /\ row \in [Credential -> Row]
    /\ client \in [Operation -> { "idle", "waiting", "backoff", "over" }]
    /\ tries \in [Operation -> 0 .. Tries]
    /\ req \in [Operation -> Request]
    /\ pool \in [Process -> Pool]
    /\ crashes \in Nat
    /\ granted \subseteq [operation : Operation, try : 1 .. Tries, minute : 0 .. LastMinute]
    /\ sent \subseteq granted
    /\ calls \in Nat
    /\ refusals \in [Process -> [Key -> Nat]]

\* Whatever the processes interleave, lose or time out, a credential's requests
\* that reached the upstreams stay within what was issued.
QuotaHolds ==
    \A c \in Credential, k \in Kind :
        Cardinality({ g \in sent : CredentialOf[g.operation] = c /\ KindOf[g.operation] = k })
            <= Maximum[c][k]

\* The grants are those of EvaluationAllowance: none beyond the quota, the rate
\* of a minute or a revocation, from however many processes.
Allowance == INSTANCE EvaluationAllowance WITH
    Try <- 1 .. Tries,
    Minute <- 0 .. LastMinute,
    grants <- granted,
    revoked <- { c \in Credential : row[c].revoked }

KeepsAllowance == Allowance!Spec

\* A key that refused once is left alone by that process: the lock spans the
\* whole rotation, so no other request is on its way with the same key.
RefusedOnce == \A p \in Process, k \in Key : refusals[p][k] <= 1

\* While no process stops, each call to the provider but one per forwarded
\* operation follows a key's refusal: other failures rotate nothing.
CallsArePaid ==
    crashes = 0 =>
        calls <= Cardinality({ g \in sent : g.operation \in Data })
                    + Cardinality({ pk \in Process \X Key : refusals[pk[1]][pk[2]] > 0 })

\* What one key was refused is never the product's answer: the answer of a
\* rotation that found no key is the pool's, when every key refused.
DenialIsThePools == \A o \in Operation : req[o].answer \notin Refusal

\* No request stays at the gateway for ever, even if no upstream ever answers.
RequestsEnd ==
    \A o \in Operation : (req[o].place # "none") ~> (req[o].place = "none")

=============================================================================
