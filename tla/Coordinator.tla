---------------------------- MODULE Coordinator ----------------------------
(***************************************************************************)
(* The proving-task lifecycle of the coordinator.  Provers ask for a       *)
(* chunk or a batch to prove (get_task) and hand back proofs               *)
(* (submit_proof); cron goroutines time out silent provers and mark the    *)
(* batches whose chunks are all proved.  API handlers and cron loops share *)
(* nothing but the database, so a step of this module is one SQL statement *)
(* or one read.  updateProofStatus is the one transaction another          *)
(* connection can observe half-way (it reads outside itself), so it takes  *)
(* three steps, with the row locks PostgreSQL holds between them.          *)
(***************************************************************************)
EXTENDS Integers, Sequences, FiniteSets

CONSTANTS
    Chunks, Batches,    \* disjoint sets of naturals: a task is its index
    BatchOf,            \* the batch the rollup relayer puts a chunk in
    Provers,
    Handlers,           \* request goroutines of the API server
    ProverOf,           \* the prover whose requests a handler serves
    Eligible,           \* tasks inside a prover's fork range and block height
    SessionAttempts,    \* config: total attempts per task
    ProversPerSession,  \* config: concurrent attempts per task
    Tries,              \* tries of Assign's compare-and-swap loop (5)
    TimeoutLimit,       \* rows one timeout scan reads (10)
    MaxFaults,          \* bound on the failing database calls of a run
    MaxCrashes          \* bound on the restarts of a run

Tasks == Chunks \cup Batches

NoTask == -1
NoBatch == -1
Kinds == {"chunk", "batch"}
OfKind(k) == IF k = "chunk" THEN Chunks ELSE Batches
KindOf(t) == IF t \in Chunks THEN "chunk" ELSE "batch"

ASSUME TaskAssumption ==
    /\ Chunks \subseteq Nat
    /\ Batches \subseteq Nat
    /\ Chunks \cap Batches = {}
    /\ BatchOf \in [Chunks -> Batches]

ASSUME ProverAssumption ==
    /\ ProverOf \in [Handlers -> Provers]
    /\ Eligible \in [Provers -> SUBSET Tasks]

ASSUME ConfigAssumption ==
    /\ SessionAttempts \in Nat \ {0}
    /\ ProversPerSession \in Nat \ {0}
    /\ Tries \in Nat \ {0}
    /\ TimeoutLimit \in Nat \ {0}
    /\ MaxFaults \in Nat
    /\ MaxCrashes \in Nat

VARIABLES
    task,         \* chunk and batch rows: proving_status, attempts, proof
    chunkProofs,  \* batch.chunk_proofs_status; "absent" before the insert
    proverTask,   \* the prover_task table, a row's uuid is its position
    pc, loc,      \* control point and locals of each request goroutine
    timeoutQ,     \* rows the chunk/batch timeout goroutine still has to close
    readyQ,       \* batch the ready goroutine found to be ready
    faults,       \* database calls that failed so far
    crashes       \* restarts so far

dbVars == <<task, chunkProofs, proverTask>>
cronVars == <<timeoutQ, readyQ>>
vars == <<task, chunkProofs, proverTask, pc, loc, timeoutQ, readyQ, faults, crashes>>

ProvingStatus == {"Unassigned", "Assigned", "Verified", "Failed"}
ChunkProofsStatus == {"absent", "Pending", "Ready"}
ProverProveStatus == {"Assigned", "Valid", "Invalid"}
FailureType == {"Undefined", "Timeout", "SubmitStatusNotOk", "VerifiedFailed", "ServerError"}

\* proof is the prover task whose proof the row holds, 0 for none
TaskRow == [proving_status: ProvingStatus, total_attempts: Nat, active_attempts: Nat, proof: Nat]
ProverTaskRow == [task_id: Tasks, prover: Provers, proving_status: ProverProveStatus,
                  failure_type: FailureType]

assignPc == {"getAssigned", "getUnassigned", "updateAttempts", "insert", "format", "recover"}
txPc == {"txCheck", "txCommit"}
submitPc == {"checkSuccess", "txBegin"} \cup txPc \cup {"readyCheck", "setReady"}
PC == {"idle"} \cup assignPc \cup submitPc

(* Locals: Assign's task type, loop counter, selected task and the         *)
(* attempts read with it; HandleZkProof's prover task (row), the status    *)
(* and failure type to write, whether the open transaction decreased       *)
(* active_attempts (and so locks the task row), and whether it saw the     *)
(* task verified.                                                          *)
Locals == [kind: Kinds, try: Nat, task: Tasks \cup {NoTask}, active: Nat, total: Nat, row: Nat,
           status: ProverProveStatus, failure: FailureType, dec: BOOLEAN, seen: BOOLEAN]
NoLocals == [kind |-> "chunk", try |-> 0, task |-> NoTask, active |-> 0, total |-> 0, row |-> 0,
             status |-> "Assigned", failure |-> "Undefined", dec |-> FALSE, seen |-> FALSE]

Init ==
    /\ task = [t \in Tasks |-> [proving_status |-> "Unassigned", total_attempts |-> 0,
                                active_attempts |-> 0, proof |-> 0]]
    /\ chunkProofs = [b \in Batches |-> "absent"]
    /\ proverTask = << >>
    /\ pc = [h \in Handlers |-> "idle"]
    /\ loc = [h \in Handlers |-> NoLocals]
    /\ timeoutQ = [k \in Kinds |-> {}]
    /\ readyQ = NoBatch
    /\ faults = 0
    /\ crashes = 0

-----------------------------------------------------------------------------
(* Queries and updates of the orm packages. *)

Rows == 1..Len(proverTask)
AssignedRows == {u \in Rows : proverTask[u].proving_status = "Assigned"}
RowsOf(t) == {u \in Rows : proverTask[u].task_id = t}

\* the chunks whose batch_hash is b
ChunksOf(b) == {c \in Chunks : BatchOf[c] = b /\ chunkProofs[b] # "absent"}

IsProverAssigned(p) == \E u \in AssignedRows : proverTask[u].prover = p

\* GetAssigned/UnassignedChunk and GetAssigned/UnassignedBatch
Candidates(p, k, status) ==
    {t \in Eligible[p] \cap OfKind(k) :
        /\ task[t].proving_status = status
        /\ task[t].total_attempts < SessionAttempts
        /\ task[t].active_attempts < ProversPerSession
        /\ t \in Batches => chunkProofs[t] = "Ready"}

\* variant: chunks that are merely assigned count as ready
ChunkProofsUnderWay(b) == \A c \in ChunksOf(b) : task[c].proving_status # "Unassigned"

CheckIfBatchChunkProofsAreReady(b) ==
    \A c \in ChunksOf(b) : task[c].proving_status = "Verified"

\* variant: the swap compares one counter
ActiveMatches(r, active, total) == r.active_attempts = active

\* UpdateChunkAttempts, UpdateBatchAttempts: the WHERE clause, and the row it writes
AttemptsMatch(r, active, total) == r.active_attempts = active /\ r.total_attempts = total
TakeAttempt(r) == [r EXCEPT !.proving_status = "Assigned", !.total_attempts = @ + 1,
                            !.active_attempts = @ + 1]

DecreaseMatches(r) == r.proving_status # "Verified" /\ r.active_attempts > 0

\* variant: the task is also released
DecreaseAndRelease(r) ==
    IF DecreaseMatches(r)
    THEN [r EXCEPT !.active_attempts = @ - 1, !.proving_status = "Unassigned"] ELSE r

DecreaseActiveAttempts(r) ==
    IF DecreaseMatches(r) THEN [r EXCEPT !.active_attempts = @ - 1] ELSE r

\* variant: off by one
UpdateFailedEarly(r) ==
    IF r.total_attempts >= SessionAttempts - 1 /\ r.proving_status # "Assigned"
    THEN [r EXCEPT !.proving_status = "Failed"] ELSE r

\* The WHERE clause compares proving_status with ProverProofValid, whose
\* value is that of ProvingTaskAssigned.
UpdateProvingStatusFailed(r) ==
    IF r.total_attempts >= SessionAttempts /\ r.proving_status # "Assigned"
    THEN [r EXCEPT !.proving_status = "Failed"] ELSE r

\* variant: the proof column is forgotten
UpdateStatusOnly(r, u) == [r EXCEPT !.proving_status = "Verified"]

UpdateProofAndProvingStatus(r, u) == [r EXCEPT !.proving_status = "Verified", !.proof = u]

UpdateProverTask(r, status, failure) ==
    [r EXCEPT !.proving_status = status,
              !.failure_type = IF status = "Invalid" THEN failure ELSE @]

(* Row locks: an open updateProofStatus transaction holds its prover task, *)
(* and the task row if its decrement matched.                              *)
RowLocked(u) == \E h \in Handlers : pc[h] \in txPc /\ loc[h].row = u
TaskLocked(t) == \E h \in Handlers : pc[h] \in txPc /\ loc[h].task = t /\ loc[h].dec

Fault == faults < MaxFaults /\ faults' = faults + 1
Crash == crashes < MaxCrashes /\ crashes' = crashes + 1
Goto(h, l) == pc' = [pc EXCEPT ![h] = l]
Return(h) == Goto(h, "idle") /\ loc' = [loc EXCEPT ![h] = NoLocals]

-----------------------------------------------------------------------------
(* get_task: ChunkProverTask.Assign and BatchProverTask.Assign. *)

\* checkParameter: a prover with an open prover task gets no other
CheckParameter(h, k) ==
    /\ pc[h] = "idle"
    /\ ~IsProverAssigned(ProverOf[h])
    /\ Goto(h, "getAssigned")
    /\ loc' = [loc EXCEPT ![h] = [@ EXCEPT !.kind = k]]
    /\ UNCHANGED <<dbVars, cronVars, faults, crashes>>

\* the handler keeps the attempts it read with the task
Selected(l, t) == [l EXCEPT !.task = t, !.active = task[t].active_attempts,
                            !.total = task[t].total_attempts]

SelectTask(h, status) ==
    LET cand == Candidates(ProverOf[h], loc[h].kind, status) IN
    \E t \in cand :
        /\ \A s \in cand : t <= s
        /\ Goto(h, "updateAttempts")
        /\ loc' = [loc EXCEPT ![h] = Selected(@, t)]

GetAssigned(h) ==
    /\ pc[h] = "getAssigned"
    /\ \/ SelectTask(h, "Assigned")
       \/ /\ Candidates(ProverOf[h], loc[h].kind, "Assigned") = {}
          /\ Goto(h, "getUnassigned")
          /\ UNCHANGED loc
    /\ UNCHANGED <<dbVars, cronVars, faults, crashes>>

GetUnassigned(h) ==
    /\ pc[h] = "getUnassigned"
    /\ \/ SelectTask(h, "Unassigned")
       \/ /\ Candidates(ProverOf[h], loc[h].kind, "Unassigned") = {}
          /\ Return(h)
    /\ UNCHANGED <<dbVars, cronVars, faults, crashes>>

Retry(l) == [NoLocals EXCEPT !.kind = l.kind, !.try = l.try + 1]

\* the compare-and-swap on both attempt counters; losing it is one try of the loop
UpdateAttempts(h) ==
    LET t == loc[h].task IN
    /\ pc[h] = "updateAttempts"
    /\ \/ /\ AttemptsMatch(task[t], loc[h].active, loc[h].total)
          /\ ~TaskLocked(t)
          /\ task' = [task EXCEPT ![t] = TakeAttempt(@)]
          /\ Goto(h, "insert")
          /\ UNCHANGED loc
       \/ /\ ~AttemptsMatch(task[t], loc[h].active, loc[h].total)
          /\ IF loc[h].try + 1 < Tries
             THEN /\ Goto(h, "getAssigned")
                  /\ loc' = [loc EXCEPT ![h] = Retry(@)]
             ELSE Return(h)
          /\ UNCHANGED task
    /\ UNCHANGED <<chunkProofs, proverTask, cronVars, faults, crashes>>

\* a failing query of the loop: Assign returns the error
AssignQueryFails(h) ==
    /\ pc[h] \in {"getAssigned", "getUnassigned", "updateAttempts"}
    /\ Fault
    /\ Return(h)
    /\ UNCHANGED <<dbVars, cronVars, crashes>>

InsertProverTask(h) ==
    /\ pc[h] = "insert"
    /\ proverTask' = Append(proverTask, [task_id |-> loc[h].task, prover |-> ProverOf[h],
                                         proving_status |-> "Assigned",
                                         failure_type |-> "Undefined"])
    /\ Goto(h, "format")
    /\ UNCHANGED <<task, chunkProofs, loc, cronVars, faults, crashes>>

\* formatProverTask of a batch task unmarshals the proof of each of its chunks
HasChunkProofs(b) == \A c \in ChunksOf(b) : task[c].proof # 0

\* formatProverTask succeeded: the prover has the task
FormatProverTask(h) ==
    /\ pc[h] = "format"
    /\ loc[h].task \in Batches => HasChunkProofs(loc[h].task)
    /\ Return(h)
    /\ UNCHANGED <<dbVars, cronVars, faults, crashes>>

\* the insert failed, or formatting did (its row stays assigned)
AssignFails(h) ==
    /\ pc[h] \in {"insert", "format"}
    /\ IF pc[h] = "format" /\ loc[h].task \in Batches /\ ~HasChunkProofs(loc[h].task)
       THEN UNCHANGED faults
       ELSE Fault
    /\ Goto(h, "recover")
    /\ UNCHANGED <<dbVars, loc, cronVars, crashes>>

\* variant: neither table is updated
RecoverNothing(h) ==
    /\ pc[h] = "recover"
    /\ Return(h)
    /\ UNCHANGED <<dbVars, cronVars, faults, crashes>>

\* recoverActiveAttempts.  The batch version hands the batch hash to the
\* chunk table, where it matches no row.
RecoverActiveAttempts(h) ==
    LET t == loc[h].task IN
    /\ pc[h] = "recover"
    /\ \/ /\ t \in Chunks
          /\ DecreaseMatches(task[t]) => ~TaskLocked(t)
          /\ task' = [task EXCEPT ![t] = DecreaseActiveAttempts(@)]
          /\ UNCHANGED faults
       \/ t \in Batches /\ UNCHANGED <<task, faults>>
       \/ Fault /\ UNCHANGED task
    /\ Return(h)
    /\ UNCHANGED <<chunkProofs, proverTask, cronVars, crashes>>

-----------------------------------------------------------------------------
(* submit_proof: ProofReceiverLogic.HandleZkProof. *)

Closing(l, status, failure) == [l EXCEPT !.status = status, !.failure = failure,
                                         !.dec = FALSE, !.seen = FALSE]

\* updateProofStatus(status, failure) is called next
CloseWith(h, status, failure) ==
    /\ Goto(h, "txBegin")
    /\ loc' = [loc EXCEPT ![h] = Closing(@, status, failure)]

\* The handler reads the prover task and, in validator, refuses one that is
\* closed; a prover that reports a failure skips verification.
HandleZkProof(h, u) ==
    LET l == [NoLocals EXCEPT !.task = proverTask[u].task_id, !.row = u] IN
    /\ pc[h] = "idle"
    /\ proverTask[u].prover = ProverOf[h]
    /\ proverTask[u].proving_status = "Assigned"
    /\ \/ Goto(h, "checkSuccess") /\ loc' = [loc EXCEPT ![h] = l]
       \/ /\ Goto(h, "txBegin")
          /\ loc' = [loc EXCEPT ![h] = Closing(l, "Invalid", "SubmitStatusNotOk")]
    /\ UNCHANGED <<dbVars, cronVars, faults, crashes>>

\* checkIsTaskSuccess answers false when its query fails
CheckIsTaskSuccess(t, res) ==
    \/ res = (task[t].proving_status = "Verified") /\ UNCHANGED faults
    \/ res = FALSE /\ task[t].proving_status = "Verified" /\ Fault

\* validator's last check, then the verifier's verdict
VerifyProof(h) ==
    /\ pc[h] = "checkSuccess"
    /\ \/ CheckIsTaskSuccess(loc[h].task, TRUE) /\ Return(h)
       \/ /\ CheckIsTaskSuccess(loc[h].task, FALSE)
          /\ \/ CloseWith(h, "Valid", "Undefined")
             \/ CloseWith(h, "Invalid", "VerifiedFailed")
    /\ UNCHANGED <<dbVars, cronVars, crashes>>

\* The transaction updates the prover task and decreases active_attempts:
\* it waits for the rows it matches and keeps them locked.
TxBegin(h) ==
    LET t == loc[h].task IN
    /\ pc[h] = "txBegin"
    /\ ~RowLocked(loc[h].row)
    /\ DecreaseMatches(task[t]) => ~TaskLocked(t)
    /\ Goto(h, "txCheck")
    /\ loc' = [loc EXCEPT ![h] = [@ EXCEPT !.dec = DecreaseMatches(task[t])]]
    /\ UNCHANGED <<dbVars, cronVars, faults, crashes>>

\* the status is read on another connection, which sees committed rows only
TxCheck(h) ==
    /\ pc[h] = "txCheck"
    /\ \E seen \in BOOLEAN :
          /\ CheckIsTaskSuccess(loc[h].task, seen)
          /\ loc' = [loc EXCEPT ![h] = [@ EXCEPT !.seen = seen]]
    /\ Goto(h, "txCommit")
    /\ UNCHANGED <<dbVars, cronVars, crashes>>

StoresProof(l) == l.status = "Valid" /\ ~l.seen

\* variant: the attempt is not given back
CommitKeepsAttempt(r, l) == IF StoresProof(l) THEN UpdateProofAndProvingStatus(r, l.row) ELSE r

\* the task row the transaction leaves
CommitTask(r, l) ==
    LET d == IF l.dec THEN [r EXCEPT !.active_attempts = @ - 1] ELSE r
    IN  IF StoresProof(l) THEN UpdateProofAndProvingStatus(d, l.row) ELSE d

\* the rest of the transaction and its commit
TxCommit(h) ==
    LET l == loc[h] IN
    /\ pc[h] = "txCommit"
    /\ StoresProof(l) /\ ~l.dec => ~TaskLocked(l.task)
    /\ proverTask' = [proverTask EXCEPT ![l.row] = UpdateProverTask(@, l.status, l.failure)]
    /\ task' = [task EXCEPT ![l.task] = CommitTask(@, l)]
    /\ IF l.status = "Valid" /\ l.task \in Chunks
       THEN Goto(h, "readyCheck") /\ UNCHANGED loc
       ELSE Return(h)
    /\ UNCHANGED <<chunkProofs, cronVars, faults, crashes>>

\* An error of the transaction rolls it back, an error of the ready check
\* does not; either way HandleZkProof answers a failed closeProofTask with
\* proofRecover(ServerError), and only logs a failed proofRecover.
CloseFails(h) ==
    /\ pc[h] \in {"txBegin", "readyCheck", "setReady"} \cup txPc
    /\ Fault
    /\ IF loc[h].status = "Valid" THEN CloseWith(h, "Invalid", "ServerError") ELSE Return(h)
    /\ UNCHANGED <<dbVars, cronVars, crashes>>

\* checkAreAllChunkProofsReady: the query, then the update
ReadyCheck(h) ==
    LET b == BatchOf[loc[h].task] IN
    /\ pc[h] = "readyCheck"
    /\ IF chunkProofs[b] # "absent" /\ CheckIfBatchChunkProofsAreReady(b)
       THEN Goto(h, "setReady") /\ UNCHANGED loc
       ELSE Return(h)
    /\ UNCHANGED <<dbVars, cronVars, faults, crashes>>

SetReady(h) ==
    /\ pc[h] = "setReady"
    /\ chunkProofs' = [chunkProofs EXCEPT ![BatchOf[loc[h].task]] = "Ready"]
    /\ Return(h)
    /\ UNCHANGED <<task, proverTask, cronVars, faults, crashes>>

-----------------------------------------------------------------------------
(* The cron goroutines of the collector. *)

\* variant: the batch timeout loop is missing
TimeoutScanChunks(k) ==
    /\ k = "chunk"
    /\ timeoutQ[k] = {}
    /\ \E S \in SUBSET {u \in AssignedRows : proverTask[u].task_id \in Chunks} :
          /\ S # {}
          /\ Cardinality(S) <= TimeoutLimit
          /\ timeoutQ' = [timeoutQ EXCEPT ![k] = S]
    /\ UNCHANGED <<dbVars, pc, loc, readyQ, faults, crashes>>

\* GetTimeoutAssignedProverTasks: which assigned rows are old enough is left
\* open, the query returns at most TimeoutLimit of them
TimeoutScan(k) ==
    /\ timeoutQ[k] = {}
    /\ \E S \in SUBSET {u \in AssignedRows : proverTask[u].task_id \in OfKind(k)} :
          /\ S # {}
          /\ Cardinality(S) <= TimeoutLimit
          /\ timeoutQ' = [timeoutQ EXCEPT ![k] = S]
    /\ UNCHANGED <<dbVars, pc, loc, readyQ, faults, crashes>>

\* the row check() writes for the task of a timed out prover task
TimeoutTask(r) == UpdateProvingStatusFailed(DecreaseActiveAttempts(r))

\* Collector.check: one transaction per row, whatever became of it since the scan
TimeoutCheck(k, u) ==
    LET t == proverTask[u].task_id IN
    /\ u \in timeoutQ[k]
    /\ ~RowLocked(u)
    /\ TimeoutTask(task[t]) # task[t] => ~TaskLocked(t)
    /\ proverTask' = [proverTask EXCEPT ![u] = UpdateProverTask(@, "Invalid", "Timeout")]
    /\ task' = [task EXCEPT ![t] = TimeoutTask(@)]
    /\ timeoutQ' = [timeoutQ EXCEPT ![k] = @ \ {u}]
    /\ UNCHANGED <<chunkProofs, pc, loc, readyQ, faults, crashes>>

TimeoutCheckFails(k, u) ==
    /\ u \in timeoutQ[k]
    /\ Fault
    /\ timeoutQ' = [timeoutQ EXCEPT ![k] = @ \ {u}]
    /\ UNCHANGED <<dbVars, pc, loc, readyQ, crashes>>

\* variant: the query asks for assigned batches
BatchReadyScanAssigned(b) ==
    /\ readyQ = NoBatch
    /\ chunkProofs[b] = "Pending"
    /\ task[b].proving_status = "Assigned"
    /\ CheckIfBatchChunkProofsAreReady(b)
    /\ readyQ' = b
    /\ UNCHANGED <<dbVars, pc, loc, timeoutQ, faults, crashes>>

\* checkBatchAllChunkReady: a batch GetUnassignedAndChunksUnreadyBatches
\* returns and whose chunks are all verified, then the update
BatchReadyScan(b) ==
    /\ readyQ = NoBatch
    /\ chunkProofs[b] = "Pending"
    /\ task[b].proving_status = "Unassigned"
    /\ CheckIfBatchChunkProofsAreReady(b)
    /\ readyQ' = b
    /\ UNCHANGED <<dbVars, pc, loc, timeoutQ, faults, crashes>>

BatchReadyUpdate ==
    /\ readyQ # NoBatch
    /\ \/ chunkProofs' = [chunkProofs EXCEPT ![readyQ] = "Ready"] /\ UNCHANGED faults
       \/ Fault /\ UNCHANGED chunkProofs
    /\ readyQ' = NoBatch
    /\ UNCHANGED <<task, proverTask, pc, loc, timeoutQ, crashes>>

-----------------------------------------------------------------------------
(* The environment. *)

\* the rollup relayer inserts the batch and its chunks' batch_hash in one transaction
ProposeBatch(b) ==
    /\ chunkProofs[b] = "absent"
    /\ chunkProofs' = [chunkProofs EXCEPT ![b] = "Pending"]
    /\ UNCHANGED <<task, proverTask, pc, loc, cronVars, faults, crashes>>

\* the API server restarts: requests and open transactions are gone
CrashApi ==
    /\ \E h \in Handlers : pc[h] # "idle"
    /\ Crash
    /\ pc' = [h \in Handlers |-> "idle"]
    /\ loc' = [h \in Handlers |-> NoLocals]
    /\ UNCHANGED <<dbVars, cronVars, faults>>

CrashCron ==
    /\ readyQ # NoBatch \/ \E k \in Kinds : timeoutQ[k] # {}
    /\ Crash
    /\ timeoutQ' = [k \in Kinds |-> {}]
    /\ readyQ' = NoBatch
    /\ UNCHANGED <<dbVars, pc, loc, faults>>

Assign(h) ==
    \/ \E k \in Kinds : CheckParameter(h, k)
    \/ GetAssigned(h) \/ GetUnassigned(h) \/ UpdateAttempts(h) \/ AssignQueryFails(h)
    \/ InsertProverTask(h) \/ FormatProverTask(h) \/ AssignFails(h) \/ RecoverActiveAttempts(h)

SubmitProof(h) ==
    \/ \E u \in Rows : HandleZkProof(h, u)
    \/ VerifyProof(h) \/ TxBegin(h) \/ TxCheck(h) \/ TxCommit(h) \/ CloseFails(h)
    \/ ReadyCheck(h) \/ SetReady(h)

Cron ==
    \/ \E k \in Kinds : TimeoutScan(k)
    \/ \E k \in Kinds : \E u \in timeoutQ[k] : TimeoutCheck(k, u) \/ TimeoutCheckFails(k, u)
    \/ \E b \in Batches : BatchReadyScan(b)
    \/ BatchReadyUpdate

Next ==
    \/ \E h \in Handlers : Assign(h) \/ SubmitProof(h)
    \/ Cron
    \/ \E b \in Batches : ProposeBatch(b)
    \/ CrashApi
    \/ CrashCron

Spec == Init /\ [][Next]_vars

(* Request goroutines and cron loops keep running, and a database call     *)
(* returns: every step but the arrival of a request, a fault or a crash is *)
(* fair.  An assigned row grows older than the timeout while it waits, so  *)
(* it cannot be passed over by the scans for ever.                         *)
Progress(h) ==
    \/ GetAssigned(h) \/ GetUnassigned(h) \/ UpdateAttempts(h) \/ InsertProverTask(h)
    \/ FormatProverTask(h) \/ RecoverActiveAttempts(h) \/ VerifyProof(h)
    \/ TxBegin(h) \/ TxCheck(h) \/ TxCommit(h) \/ ReadyCheck(h) \/ SetReady(h)

MaxRows == SessionAttempts * Cardinality(Tasks)

Fairness ==
    /\ \A h \in Handlers : WF_vars(Progress(h))
    /\ \A k \in Kinds, u \in 1..MaxRows :
          /\ SF_vars(TimeoutScan(k) /\ u \in timeoutQ'[k])
          /\ WF_vars(u \in timeoutQ[k] /\ TimeoutCheck(k, u))
    /\ \A b \in Batches : SF_vars(BatchReadyScan(b))
    /\ WF_vars(BatchReadyUpdate)

FairSpec == Spec /\ Fairness

-----------------------------------------------------------------------------
(* Properties. *)

\* Type invariant of the tables, of the request goroutines and of the cron loops.
TypeOK ==
    /\ task \in [Tasks -> TaskRow]
    /\ chunkProofs \in [Batches -> ChunkProofsStatus]
    /\ proverTask \in Seq(ProverTaskRow)
    /\ pc \in [Handlers -> PC]
    /\ loc \in [Handlers -> Locals]
    /\ timeoutQ \in [Kinds -> SUBSET Rows]
    /\ readyQ \in Batches \cup {NoBatch}
    /\ faults \in 0..MaxFaults
    /\ crashes \in 0..MaxCrashes

\* The two limits of the configuration hold of the attempt counters, however
\* the compare-and-swaps of concurrent Assign loops interleave with timeouts,
\* rejected proofs and recoveries.
AttemptsBounded ==
    \A t \in Tasks :
        /\ task[t].total_attempts <= SessionAttempts
        /\ task[t].active_attempts <= ProversPerSession
        /\ task[t].active_attempts <= task[t].total_attempts

\* A task is verified, or one of its prover tasks valid, only with a proof in
\* the task's row, and that proof came from a prover task of this very task.
VerifiedHasProof ==
    /\ \A t \in Tasks :
          /\ task[t].proving_status = "Verified" => task[t].proof # 0
          /\ task[t].proof # 0 => task[t].proof \in RowsOf(t)
    /\ \A u \in Rows :
          proverTask[u].proving_status = "Valid" => task[proverTask[u].task_id].proof # 0

\* A batch that is ready, was ever attempted or is being formatted has a
\* stored proof for each of its chunks, although the ready check and the
\* update after it are separate statements and a chunk can leave the status
\* verified in between (formatProverTask unmarshals those proofs).
BatchWaitsForChunks ==
    \A b \in Batches :
        \/ chunkProofs[b] = "Ready"
        \/ task[b].total_attempts > 0
        \/ \E h \in Handlers : loc[h].task = b
        => chunkProofs[b] = "Ready" /\ HasChunkProofs(b)

\* A task is given up only when its attempts are used up.
FailedIsExhausted ==
    \A t \in Tasks :
        task[t].proving_status = "Failed" => task[t].total_attempts = SessionAttempts

\* A task given up is never handed out again, although the compare-and-swap
\* of Assign does not look at proving_status: it may only still be verified
\* by a proof that is under way.
FailedIsFinal ==
    [][\A t \in Tasks : task[t].proving_status = "Failed"
                          => task'[t].proving_status \in {"Failed", "Verified"}]_vars

\* Requests between the compare-and-swap and the row that stands for it.
InAssign(t) == {h \in Handlers : pc[h] \in {"insert", "recover"} /\ loc[h].task = t}
OpenRows(t) == RowsOf(t) \cap AssignedRows

\* Attempts that nothing will ever give back.
Leaked(t) == task[t].active_attempts - Cardinality(OpenRows(t)) - Cardinality(InAssign(t))

\* As long as no server died, an attempt of an unproved chunk that belongs
\* neither to an open prover task nor to a request has cost two failing
\* statements, the insert of its prover task and the recovery, whose error
\* Assign only logs.  An attempt of a batch has cost one, for its recovery
\* goes to the chunk table.  No race, timeout or rejected proof leaks one.
AttemptsAccounted ==
    crashes = 0 => \A t \in Tasks : task[t].proof = 0 =>
        IF t \in Chunks THEN 2 * Leaked(t) <= faults ELSE Leaked(t) <= faults

\* Every open prover task is closed, by its prover or by the timeout loop,
\* whatever else happens to its task.
ProverTaskCloses ==
    \A u \in 1..MaxRows : u \in AssignedRows ~> u \in Rows \ AssignedRows

\* A proposed batch whose chunks stay verified becomes ready: the cron loop
\* makes up for chunks proved before the batch existed and for submit
\* handlers that failed or died before their update.
BatchBecomesReady ==
    \A b \in Batches :
        <>[](chunkProofs[b] # "absent" /\ CheckIfBatchChunkProofsAreReady(b))
        => <>(chunkProofs[b] = "Ready")

\* proof_receiver.go:332: "if the block batch has proof verified, so the
\* failed status not update block batch proving status".
VerifiedIsFinal ==
    \A t \in Tasks : task[t].proof # 0 => task[t].proving_status = "Verified"

=============================================================================
