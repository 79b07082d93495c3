---------------------------- MODULE OutboxWorker ----------------------------
(***************************************************************************)
(* The outbox of tec-payment-service: rows written by outbox.service.ts,   *)
(* and the polling loop of outbox.worker.ts that appends them to Redis.    *)
(* isRunning is per process, so one worker runs one poll at a time, while  *)
(* the workers of overlapping instances share the rows without any lock.   *)
(***************************************************************************)
EXTENDS Naturals, FiniteSets

CONSTANTS
    Rows,         \* ids of outbox rows, in the order of created_at
    Workers,      \* processes whose workers may overlap
    BatchSize,    \* take
    SelectLimit,  \* rows with this many attempts are no longer selected
    MaxAttempts   \* column max_attempts

ASSUME OutboxAssumption ==
    /\ Rows \subseteq Nat
    /\ BatchSize \in Nat \ {0}
    /\ SelectLimit \in Nat \ {0}
    /\ MaxAttempts \in Nat \ {0}

VARIABLES
    status,      \* column status; "absent" before the row is written
    attempts,    \* column attempts
    due,         \* next_retry has passed
    sent,        \* rows with an entry on the stream
    ready,       \* the Redis connection is ready
    worker       \* what each worker is doing

rowVars == <<status, attempts, due>>
vars == <<status, attempts, due, sent, ready, worker>>

Pc == {"idle", "loop", "mark", "fail"}
Idle == [pc |-> "idle", batch |-> {}, seen |-> [i \in Rows |-> 0]]

Init ==
    /\ status = [i \in Rows |-> "absent"]
    /\ attempts = [i \in Rows |-> 0]
    /\ due = [i \in Rows |-> FALSE]
    /\ sent = {}
    /\ ready = TRUE
    /\ worker = [w \in Workers |-> Idle]

At(w, pc) == worker[w].pc = pc

\* The row a worker is at: the oldest one left of its batch
Current(w, i) == i \in worker[w].batch /\ \A j \in worker[w].batch : i <= j

\* Move on; the row is done with when the worker returns to the loop
Goto(w, pc, batch) ==
    worker' = [worker EXCEPT ![w] =
        [pc |-> pc, batch |-> batch,
         seen |-> [i \in Rows |-> IF i \in batch THEN worker[w].seen[i] ELSE 0]]]

-----------------------------------------------------------------------------

\* saveOutboxEvent, saveOutboxEventDirect
SaveOutboxEvent(i) ==
    /\ status[i] = "absent"
    /\ status' = [status EXCEPT ![i] = "pending"]
    /\ due' = [due EXCEPT ![i] = TRUE]
    /\ UNCHANGED <<attempts, sent, ready, worker>>

\* next_retry passes
BecomeDue(i) ==
    /\ status[i] # "absent" /\ ~due[i]
    /\ due' = [due EXCEPT ![i] = TRUE]
    /\ UNCHANGED <<status, attempts, sent, ready, worker>>

RedisGoesDown ==
    /\ ready /\ ready' = FALSE
    /\ UNCHANGED <<rowVars, sent, worker>>

RedisComesBack ==
    /\ ~ready /\ ready' = TRUE
    /\ UNCHANGED <<rowVars, sent, worker>>

\* Fault: the query does not look at the number of attempts
EligibleForEver == {i \in Rows : status[i] = "pending" /\ due[i]}

Eligible == {i \in Rows : status[i] = "pending" /\ due[i] /\ attempts[i] < SelectLimit}

\* orderBy created_at, take
Batch == {i \in Eligible : Cardinality({j \in Eligible : j < i}) < BatchSize}

\* findMany; an error of the query, or no row, ends the poll
SelectEvents(w) ==
    /\ At(w, "idle") /\ Eligible # {}
    /\ worker' = [worker EXCEPT ![w] =
           [pc |-> "loop", batch |-> Batch,
            seen |-> [i \in Rows |-> IF i \in Batch THEN attempts[i] ELSE 0]]]
    /\ UNCHANGED <<rowVars, sent, ready>>

EndOfBatch(w) ==
    /\ At(w, "loop") /\ worker[w].batch = {}
    /\ worker' = [worker EXCEPT ![w] = Idle]
    /\ UNCHANGED <<rowVars, sent, ready>>

\* No publisher, or one whose connection is not ready: break
RedisNotReady(w) ==
    /\ At(w, "loop") /\ ~ready
    /\ worker' = [worker EXCEPT ![w] = Idle]
    /\ UNCHANGED <<rowVars, sent, ready>>

Xadd(w, i) ==
    /\ At(w, "loop") /\ ready /\ Current(w, i)
    /\ sent' = sent \cup {i}
    /\ Goto(w, "mark", worker[w].batch)
    /\ UNCHANGED <<rowVars, ready>>

\* Fault: the row is marked although XADD threw
XaddFailsButMarked(w, i) ==
    /\ At(w, "loop") /\ ready /\ Current(w, i)
    /\ sent' \in {sent, sent \cup {i}}
    /\ Goto(w, "mark", worker[w].batch)
    /\ UNCHANGED <<rowVars, ready>>

\* XADD throws; the entry may have been appended nevertheless
XaddFails(w, i) ==
    /\ At(w, "loop") /\ ready /\ Current(w, i)
    /\ sent' \in {sent, sent \cup {i}}
    /\ Goto(w, "fail", worker[w].batch)
    /\ UNCHANGED <<rowVars, ready>>

MarkEventPublished(w, i) ==
    /\ At(w, "mark") /\ Current(w, i)
    /\ status' = [status EXCEPT ![i] = "published"]
    /\ Goto(w, "loop", worker[w].batch \ {i})
    /\ UNCHANGED <<attempts, due, sent, ready>>

\* The update throws, whether or not it was applied: the catch block follows
MarkEventPublishedFails(w, i) ==
    /\ At(w, "mark") /\ Current(w, i)
    /\ \/ UNCHANGED status
       \/ status' = [status EXCEPT ![i] = "published"]
    /\ Goto(w, "fail", worker[w].batch)
    /\ UNCHANGED <<attempts, due, sent, ready>>

\* Fault: next_retry and attempts stay, and a failing row keeps its place
MarkEventFailedUncounted(w, i) ==
    /\ At(w, "fail") /\ Current(w, i)
    /\ status' = [status EXCEPT ![i] =
           IF worker[w].seen[i] >= MaxAttempts THEN "failed" ELSE "pending"]
    /\ Goto(w, "loop", worker[w].batch \ {i})
    /\ UNCHANGED <<attempts, due, sent, ready>>

\* attempts is the number read when the batch was selected
MarkEventFailed(w, i) ==
    /\ At(w, "fail") /\ Current(w, i)
    /\ status' = [status EXCEPT ![i] =
           IF worker[w].seen[i] >= MaxAttempts THEN "failed" ELSE "pending"]
    /\ attempts' = [attempts EXCEPT ![i] = worker[w].seen[i] + 1]
    /\ due' = [due EXCEPT ![i] = FALSE]
    /\ Goto(w, "loop", worker[w].batch \ {i})
    /\ UNCHANGED <<sent, ready>>

\* An error of that update is swallowed
MarkEventFailedFails(w, i) ==
    /\ At(w, "fail") /\ Current(w, i)
    /\ Goto(w, "loop", worker[w].batch \ {i})
    /\ UNCHANGED <<rowVars, sent, ready>>

\* The process ends
Crash(w) ==
    /\ ~At(w, "idle")
    /\ worker' = [worker EXCEPT ![w] = Idle]
    /\ UNCHANGED <<rowVars, sent, ready>>

-----------------------------------------------------------------------------

Publish(w, i) == Xadd(w, i) \/ XaddFails(w, i)
Settle(w, i) ==
    \/ MarkEventPublished(w, i) \/ MarkEventPublishedFails(w, i)
    \/ MarkEventFailed(w, i) \/ MarkEventFailedFails(w, i)

Process(w) ==
    \/ SelectEvents(w) \/ EndOfBatch(w) \/ RedisNotReady(w)
    \/ \E i \in Rows : Publish(w, i) \/ Settle(w, i)

Next ==
    \/ \E i \in Rows : SaveOutboxEvent(i) \/ BecomeDue(i)
    \/ RedisGoesDown \/ RedisComesBack
    \/ \E w \in Workers : Process(w) \/ Crash(w)

Spec == Init /\ [][Next]_vars

\* The interval timer polls for ever and awaits return.  Redis is not away at
\* every poll, and neither Redis nor the database refuses for ever what is tried
\* again and again.
Fairness ==
    /\ \A i \in Rows : WF_vars(BecomeDue(i))
    /\ \A w \in Workers :
        /\ WF_vars(Process(w))
        /\ SF_vars(At(w, "loop") /\ RedisComesBack)
        /\ SF_vars(\E i \in Rows : Publish(w, i))
        /\ SF_vars(\E i \in Rows : MarkEventPublished(w, i))
        /\ SF_vars(\E i \in Rows : MarkEventFailed(w, i))

FairSpec == Spec /\ Fairness

-----------------------------------------------------------------------------
(* Properties *)

\* Every variable has its type; no row is tried more often than the query allows.
TypeOK ==
    /\ status \in [Rows -> {"absent", "pending", "published", "failed"}]
    /\ attempts \in [Rows -> 0..SelectLimit]
    /\ due \in [Rows -> BOOLEAN]
    /\ sent \subseteq Rows
    /\ ready \in BOOLEAN
    /\ worker \in [Workers -> [pc: Pc, batch: SUBSET Rows, seen: [Rows -> 0..SelectLimit]]]

\* A row is marked published only if its event is on the stream, however
\* workers overlap and whichever of XADD and the two updates fail or lose their
\* answers: an event is delivered at least once, never silently dropped.
PublishedWasSent == \A i \in Rows : status[i] = "published" => i \in sent

\* A pending row does not starve behind older rows that keep failing: in the
\* end it is published, or it has used up its attempts.
PendingIsSettled ==
    \A i \in Rows :
        status[i] = "pending" ~> (status[i] # "pending" \/ attempts[i] = SelectLimit)

-----------------------------------------------------------------------------
(* The inductive invariant behind PublishedWasSent                           *)

\* A worker about to mark rows has sent the one it is at
MarkOK(w) == At(w, "mark") => \A i \in Rows : Current(w, i) => i \in sent

\* A batch holds rows that could still be tried when it was selected
BatchOK(w) == \A i \in worker[w].batch : worker[w].seen[i] < SelectLimit

IInv ==
    /\ TypeOK
    /\ PublishedWasSent
    /\ \A w \in Workers : MarkOK(w) /\ BatchOK(w)
=============================================================================
