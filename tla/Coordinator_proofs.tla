------------------------- MODULE Coordinator_proofs -------------------------
(***************************************************************************)
(* Proofs about Coordinator, for any number of tasks, provers and request  *)
(* goroutines and any configuration.                                       *)
(***************************************************************************)
EXTENDS Coordinator, TLAPS

\* What a request goroutine knows at its control point.
HandlerInv(h) ==
    LET l == loc[h] IN
    /\ pc[h] \in {"idle", "getAssigned", "getUnassigned"} => l.task = NoTask
    /\ pc[h] \notin {"idle", "getAssigned", "getUnassigned"} => l.task \in Tasks
    /\ pc[h] = "updateAttempts" => l.total < SessionAttempts /\ l.active < ProversPerSession
    /\ pc[h] \in submitPc => l.row \in RowsOf(l.task)
    /\ pc[h] \in {"readyCheck", "setReady"} => l.task \in Chunks
    /\ pc[h] \in txPc /\ l.dec => DecreaseMatches(task[l.task])
    /\ pc[h] = "txCommit" /\ l.seen => task[l.task].proof # 0

\* At most one open transaction holds the lock of a task row.
LockInv ==
    \A g, h \in Handlers :
        /\ pc[g] \in txPc /\ loc[g].dec
        /\ pc[h] \in txPc /\ loc[h].dec
        /\ loc[g].task = loc[h].task
        => g = h

\* Whoever is about to mark a batch ready, and every trace a batch leaves
\* once it is ready.
ReadyInv ==
    /\ \A b \in Batches : chunkProofs[b] = "Ready" => HasChunkProofs(b)
    /\ \A b \in Batches : task[b].total_attempts > 0 => chunkProofs[b] = "Ready"
    /\ \A h \in Handlers : loc[h].task \in Batches => chunkProofs[loc[h].task] = "Ready"
    /\ \A u \in Rows : proverTask[u].task_id \in Batches
                        => chunkProofs[proverTask[u].task_id] = "Ready"
    /\ \A h \in Handlers : pc[h] = "setReady" => HasChunkProofs(BatchOf[loc[h].task])
                                              /\ chunkProofs[BatchOf[loc[h].task]] # "absent"
    /\ readyQ # NoBatch => HasChunkProofs(readyQ) /\ chunkProofs[readyQ] # "absent"

\* The inductive invariant.
IInv ==
    /\ TypeOK
    /\ \A h \in Handlers : HandlerInv(h)
    /\ LockInv
    /\ AttemptsBounded
    /\ FailedIsExhausted
    /\ VerifiedHasProof
    /\ ReadyInv


-----------------------------------------------------------------------------
(* What the updates of the orm packages do to a row. *)

\* The invariants of one chunk or batch row.
RowInv(r) ==
    /\ r.total_attempts <= SessionAttempts
    /\ r.active_attempts <= ProversPerSession
    /\ r.active_attempts <= r.total_attempts
    /\ r.proving_status = "Failed" => r.total_attempts = SessionAttempts
    /\ r.proving_status = "Verified" => r.proof # 0

\* What a step may do to a row.
RowStep(r, q) ==
    /\ q \in TaskRow
    /\ RowInv(q)
    /\ r.proof # 0 => q.proof # 0
    /\ r.proving_status = "Failed" => q.proving_status \in {"Failed", "Verified"}

\* Losing no attempt to another request, an Assign keeps both limits.
LEMMA TakeAttemptRow ==
    ASSUME NEW r \in TaskRow, RowInv(r),
           r.total_attempts < SessionAttempts, r.active_attempts < ProversPerSession
    PROVE  RowStep(r, TakeAttempt(r)) /\ TakeAttempt(r).proof = r.proof
<1> DEFINE q == TakeAttempt(r)
<1>1. q \in TaskRow
  <2>1. r.total_attempts + 1 \in Nat /\ r.active_attempts + 1 \in Nat
    BY DEF TaskRow
  <2>2. "Assigned" \in ProvingStatus
    BY DEF ProvingStatus
  <2> QED
    BY <2>1, <2>2, Zenon DEF TakeAttempt, TaskRow
<1>2. /\ q.proving_status = "Assigned"
      /\ q.total_attempts = r.total_attempts + 1
      /\ q.active_attempts = r.active_attempts + 1
      /\ q.proof = r.proof
  BY DEF TakeAttempt, TaskRow
<1>3. r.proving_status # "Failed"
  BY ConfigAssumption DEF RowInv, TaskRow
<1> HIDE DEF q
<1>4. RowStep(r, q)
  BY <1>1, <1>2, <1>3, ConfigAssumption DEF RowInv, RowStep, TaskRow
<1> QED
  BY <1>2, <1>4 DEF q

\* Giving back an attempt keeps the row's invariant and its proof.
LEMMA DecreaseRow ==
    ASSUME NEW r \in TaskRow, RowInv(r)
    PROVE  /\ RowStep(r, DecreaseActiveAttempts(r))
           /\ DecreaseActiveAttempts(r).proof = r.proof
           /\ DecreaseActiveAttempts(r).total_attempts = r.total_attempts
  BY ConfigAssumption DEF TaskRow, ProvingStatus, RowInv, RowStep, DecreaseActiveAttempts, DecreaseMatches

\* Giving a task up keeps the row's invariant: only an exhausted task is.
LEMMA FailedRow ==
    ASSUME NEW r \in TaskRow, RowInv(r)
    PROVE  /\ RowStep(r, UpdateProvingStatusFailed(r))
           /\ UpdateProvingStatusFailed(r).proof = r.proof
           /\ UpdateProvingStatusFailed(r).total_attempts = r.total_attempts
  BY ConfigAssumption DEF TaskRow, ProvingStatus, RowInv, RowStep, UpdateProvingStatusFailed

\* What Collector.check writes for the task of a timed out prover task.
LEMMA TimeoutRow ==
    ASSUME NEW r \in TaskRow, RowInv(r)
    PROVE  /\ RowStep(r, TimeoutTask(r))
           /\ TimeoutTask(r).proof = r.proof
           /\ TimeoutTask(r).total_attempts = r.total_attempts
<1> DEFINE d == DecreaseActiveAttempts(r)
<1>1. d \in TaskRow /\ RowInv(d) /\ RowStep(r, d) /\ d.proof = r.proof
      /\ d.total_attempts = r.total_attempts
  BY DecreaseRow DEF RowStep
<1>2. d.proving_status = r.proving_status
  BY DEF DecreaseActiveAttempts, TaskRow
<1> HIDE DEF d
<1>3. RowStep(d, UpdateProvingStatusFailed(d)) /\ UpdateProvingStatusFailed(d).proof = d.proof
      /\ UpdateProvingStatusFailed(d).total_attempts = d.total_attempts
  BY <1>1, FailedRow
<1> QED
  BY <1>1, <1>2, <1>3 DEF RowStep, TimeoutTask, d

\* What updateProofStatus leaves in the task row when it commits.
LEMMA CommitRow ==
    ASSUME NEW r \in TaskRow, RowInv(r), NEW l \in Locals, l.row # 0,
           l.dec => DecreaseMatches(r)
    PROVE  /\ RowStep(r, CommitTask(r, l))
           /\ CommitTask(r, l).proof \in {r.proof, l.row}
           /\ CommitTask(r, l).total_attempts = r.total_attempts
           /\ StoresProof(l) => CommitTask(r, l).proof # 0
<1> DEFINE d == IF l.dec THEN [r EXCEPT !.active_attempts = @ - 1] ELSE r
<1>1. /\ d \in TaskRow /\ RowInv(d) /\ d.proof = r.proof
      /\ d.total_attempts = r.total_attempts /\ d.proving_status = r.proving_status
  BY ConfigAssumption DEF TaskRow, ProvingStatus, RowInv, DecreaseMatches
<1>2. CommitTask(r, l) = IF StoresProof(l) THEN UpdateProofAndProvingStatus(d, l.row) ELSE d
  BY DEF CommitTask
<1> HIDE DEF d
<1>3. l.row \in Nat
  BY DEF Locals
<1> QED
  BY <1>1, <1>2, <1>3 DEF TaskRow, ProvingStatus, RowInv, RowStep, UpdateProofAndProvingStatus

(* The locals the actions write are of their type. *)
LEMMA LocalsType ==
    /\ NoLocals \in Locals
    /\ \A l \in Locals, k \in Kinds : [l EXCEPT !.kind = k] \in Locals
    /\ \A l \in Locals : Retry(l) \in Locals
    /\ \A l \in Locals, t \in Tasks : task[t] \in TaskRow => Selected(l, t) \in Locals
    /\ \A l \in Locals, s \in ProverProveStatus, f \in FailureType : Closing(l, s, f) \in Locals
    /\ \A l \in Locals, d \in BOOLEAN : [l EXCEPT !.dec = d] \in Locals
    /\ \A l \in Locals, d \in BOOLEAN : [l EXCEPT !.seen = d] \in Locals
    /\ \A t \in Tasks, u \in Nat : [NoLocals EXCEPT !.task = t, !.row = u] \in Locals
<1>1. NoLocals \in Locals
  BY DEF NoLocals, Locals, Kinds, ProverProveStatus, FailureType, NoTask
<1>2. \A l \in Locals : Retry(l) \in Locals
  <2> SUFFICES ASSUME NEW l \in Locals PROVE Retry(l) \in Locals
    OBVIOUS
  <2>1. l.kind \in Kinds /\ l.try + 1 \in Nat
    BY DEF Locals
  <2> QED
    BY <1>1, <2>1, Zenon DEF Locals, Retry
<1>3. \A l \in Locals, t \in Tasks : task[t] \in TaskRow => Selected(l, t) \in Locals
  BY DEF Locals, TaskRow, Selected
<1>4. \A l \in Locals, s \in ProverProveStatus, f \in FailureType : Closing(l, s, f) \in Locals
  BY DEF Locals, Closing
<1>5. \A t \in Tasks, u \in Nat : [NoLocals EXCEPT !.task = t, !.row = u] \in Locals
  BY <1>1 DEF Locals
<1>6. \A l \in Locals, k \in Kinds : [l EXCEPT !.kind = k] \in Locals
  BY DEF Locals
<1>7. \A l \in Locals, d \in BOOLEAN : [l EXCEPT !.dec = d] \in Locals
  BY DEF Locals
<1>8. \A l \in Locals, d \in BOOLEAN : [l EXCEPT !.seen = d] \in Locals
  BY DEF Locals
<1> QED
  BY <1>1, <1>2, <1>3, <1>4, <1>5, <1>6, <1>7, <1>8

-----------------------------------------------------------------------------
(* Type correctness. *)

\* The parts of the type invariant a step can disturb.
LEMMA TypeFromParts ==
    ASSUME TypeOK,
           task' \in [Tasks -> TaskRow], chunkProofs' \in [Batches -> ChunkProofsStatus],
           proverTask' \in Seq(ProverTaskRow), Len(proverTask') >= Len(proverTask),
           pc' \in [Handlers -> PC], loc' \in [Handlers -> Locals],
           timeoutQ' \in [Kinds -> SUBSET Rows], readyQ' \in Batches \cup {NoBatch},
           faults' \in 0..MaxFaults, crashes' \in 0..MaxCrashes
    PROVE  TypeOK'
<1>1. Rows \subseteq Rows'
  BY DEF Rows, TypeOK
<1> QED
  BY <1>1 DEF TypeOK

\* A handler that moves keeps the types of pc and loc.
LEMMA MoveType ==
    ASSUME TypeOK, NEW h \in Handlers, NEW l \in PC
    PROVE  /\ Goto(h, l) => pc' \in [Handlers -> PC]
           /\ Return(h) => pc' \in [Handlers -> PC] /\ loc' \in [Handlers -> Locals]
           /\ \A m \in Locals : loc' = [loc EXCEPT ![h] = m] => loc' \in [Handlers -> Locals]
  BY LocalsType DEF TypeOK, Goto, Return, PC

\* Type correctness of a step that only moves a handler.
LEMMA HandlerType ==
    ASSUME TypeOK, UNCHANGED <<task, chunkProofs, proverTask, timeoutQ, readyQ>>,
           pc' \in [Handlers -> PC], loc' \in [Handlers -> Locals],
           faults' \in 0..MaxFaults, crashes' \in 0..MaxCrashes
    PROVE  TypeOK'
  BY DEF TypeOK, Rows

\* A failing call stays within the bound on failing calls.
LEMMA FaultType ==
    ASSUME TypeOK
    PROVE  /\ UNCHANGED faults \/ Fault => faults' \in 0..MaxFaults
           /\ UNCHANGED crashes \/ Crash => crashes' \in 0..MaxCrashes
  BY ConfigAssumption DEF TypeOK, Fault, Crash

\* The steps of Assign keep the types.
LEMMA AssignType ==
    ASSUME TypeOK, NEW h \in Handlers, HandlerInv(h), Assign(h), \A t \in Tasks : RowInv(task[t])
    PROVE  TypeOK'
<1> USE TaskAssumption
<1>1. ASSUME NEW k \in Kinds, CheckParameter(h, k) PROVE TypeOK'
  BY <1>1, MoveType, LocalsType, HandlerType, FaultType
     DEF CheckParameter, dbVars, cronVars, PC, assignPc, TypeOK
<1>2. ASSUME NEW s \in ProvingStatus, SelectTask(h, s)
      PROVE  pc' \in [Handlers -> PC] /\ loc' \in [Handlers -> Locals]
  <2>1. PICK t \in Candidates(ProverOf[h], loc[h].kind, s) :
              /\ Goto(h, "updateAttempts")
              /\ loc' = [loc EXCEPT ![h] = Selected(loc[h], t)]
    BY <1>2 DEF SelectTask, TypeOK
  <2>2. t \in Tasks
    BY DEF Candidates, OfKind, Tasks
  <2>3. Selected(loc[h], t) \in Locals
    BY <2>2, LocalsType DEF TypeOK
  <2> QED
    BY <2>1, <2>3, MoveType DEF PC, assignPc
<1>3. CASE GetAssigned(h)
  <2>1. pc' \in [Handlers -> PC] /\ loc' \in [Handlers -> Locals]
    BY <1>2, <1>3, MoveType DEF GetAssigned, PC, assignPc, TypeOK, ProvingStatus
  <2> QED
    BY <1>3, <2>1, HandlerType, FaultType DEF GetAssigned, dbVars, cronVars
<1>4. CASE GetUnassigned(h)
  <2>1. pc' \in [Handlers -> PC] /\ loc' \in [Handlers -> Locals]
    BY <1>2, <1>4, MoveType DEF GetUnassigned, PC, assignPc, TypeOK, ProvingStatus
  <2> QED
    BY <1>4, <2>1, HandlerType, FaultType DEF GetUnassigned, dbVars, cronVars
<1>5. CASE UpdateAttempts(h)
  <2> DEFINE t == loc[h].task
  <2>1. t \in Tasks /\ task[t] \in TaskRow /\ RowInv(task[t])
    BY <1>5 DEF UpdateAttempts, HandlerInv, TypeOK
  <2>2. CASE AttemptsMatch(task[t], loc[h].active, loc[h].total)
    <3>1. TakeAttempt(task[t]) \in TaskRow
      BY <1>5, <2>1, <2>2, TakeAttemptRow DEF RowStep, AttemptsMatch, UpdateAttempts, HandlerInv
    <3>2. task' \in [Tasks -> TaskRow]
      BY <1>5, <2>1, <2>2, <3>1 DEF UpdateAttempts, TypeOK
    <3>3. pc' \in [Handlers -> PC] /\ UNCHANGED loc
      BY <1>5, <2>2, MoveType DEF UpdateAttempts, PC, assignPc
    <3> QED
      BY <1>5, <3>2, <3>3 DEF UpdateAttempts, TypeOK, Rows, cronVars
  <2>3. CASE ~AttemptsMatch(task[t], loc[h].active, loc[h].total)
    <3>1. pc' \in [Handlers -> PC] /\ loc' \in [Handlers -> Locals]
      BY <1>5, <2>3, MoveType, LocalsType DEF UpdateAttempts, PC, assignPc, TypeOK
    <3> QED
      BY <1>5, <2>3, <3>1, HandlerType, FaultType DEF UpdateAttempts, cronVars
  <2> QED
    BY <2>2, <2>3
<1>6. CASE AssignQueryFails(h) \/ FormatProverTask(h) \/ AssignFails(h)
  <2>1. pc' \in [Handlers -> PC] /\ loc' \in [Handlers -> Locals]
    BY <1>6, MoveType DEF AssignQueryFails, FormatProverTask, AssignFails, PC, assignPc, TypeOK
  <2> QED
    BY <1>6, <2>1, HandlerType, FaultType
       DEF AssignQueryFails, FormatProverTask, AssignFails, dbVars, cronVars
<1>7. CASE InsertProverTask(h)
  <2> DEFINE r == [task_id |-> loc[h].task, prover |-> ProverOf[h],
                   proving_status |-> "Assigned", failure_type |-> "Undefined"]
  <2>1. r \in ProverTaskRow
    BY <1>7, ProverAssumption
       DEF InsertProverTask, HandlerInv, ProverTaskRow, ProverProveStatus, FailureType
  <2>2. proverTask' = Append(proverTask, r)
    BY <1>7 DEF InsertProverTask
  <2> HIDE DEF r
  <2>3. proverTask' \in Seq(ProverTaskRow) /\ Len(proverTask') >= Len(proverTask)
    BY <2>1, <2>2 DEF TypeOK
  <2>4. pc' \in [Handlers -> PC]
    BY <1>7, MoveType DEF InsertProverTask, PC, assignPc
  <2> QED
    BY <1>7, <2>3, <2>4, TypeFromParts DEF InsertProverTask, TypeOK, cronVars
<1>8. CASE RecoverActiveAttempts(h)
  <2>1. task' \in [Tasks -> TaskRow]
    BY <1>8, DecreaseRow DEF RecoverActiveAttempts, TypeOK, HandlerInv, RowStep
  <2>2. pc' \in [Handlers -> PC] /\ loc' \in [Handlers -> Locals]
    BY <1>8, MoveType DEF RecoverActiveAttempts, PC
  <2>3. faults' \in 0..MaxFaults
    BY <1>8, FaultType DEF RecoverActiveAttempts
  <2> QED
    BY <1>8, <2>1, <2>2, <2>3 DEF RecoverActiveAttempts, TypeOK, Rows, cronVars
<1> QED
  BY <1>1, <1>3, <1>4, <1>5, <1>6, <1>7, <1>8 DEF Assign

\* Every prover task belongs to a task.
LEMMA RowType ==
    ASSUME TypeOK, NEW u \in Rows
    PROVE  proverTask[u] \in ProverTaskRow /\ proverTask[u].task_id \in Tasks /\ u \in Nat \ {0}
<1>1. u \in 1..Len(proverTask) /\ Len(proverTask) \in Nat
  BY DEF Rows, TypeOK
<1>2. proverTask[u] \in ProverTaskRow
  BY <1>1 DEF TypeOK
<1> QED
  BY <1>1, <1>2 DEF ProverTaskRow

\* Writing a status into a prover task keeps the table and its task ids.
LEMMA UpdateRowType ==
    ASSUME TypeOK, NEW u \in Rows, NEW st \in ProverProveStatus, NEW f \in FailureType,
           proverTask' = [proverTask EXCEPT ![u] = UpdateProverTask(@, st, f)]
    PROVE  /\ proverTask' \in Seq(ProverTaskRow)
           /\ Len(proverTask') = Len(proverTask)
           /\ \A v \in Rows : proverTask'[v].task_id = proverTask[v].task_id
           /\ \A v \in Rows : proverTask'[v].proving_status
                               = IF v = u THEN st ELSE proverTask[v].proving_status
<1>1. \A v \in Rows : proverTask[v] \in ProverTaskRow
  BY DEF TypeOK, Rows
<1>2. UpdateProverTask(proverTask[u], st, f) \in ProverTaskRow
  BY <1>1 DEF UpdateProverTask, ProverTaskRow
<1>3. /\ UpdateProverTask(proverTask[u], st, f).task_id = proverTask[u].task_id
      /\ UpdateProverTask(proverTask[u], st, f).proving_status = st
  BY <1>1 DEF UpdateProverTask, ProverTaskRow
<1>4. \A v \in Rows : proverTask'[v] = IF v = u THEN UpdateProverTask(proverTask[u], st, f)
                                                ELSE proverTask[v]
  BY DEF TypeOK, Rows
<1>5. proverTask' \in Seq(ProverTaskRow) /\ Len(proverTask') = Len(proverTask)
  BY <1>2 DEF TypeOK, Rows
<1> QED
  BY <1>3, <1>4, <1>5

\* The steps of HandleZkProof keep the types.
LEMMA SubmitType ==
    ASSUME TypeOK, NEW h \in Handlers, HandlerInv(h), SubmitProof(h),
           \A t \in Tasks : RowInv(task[t])
    PROVE  TypeOK'
<1> USE TaskAssumption
<1>0. loc[h] \in Locals /\ loc \in [Handlers -> Locals] /\ pc \in [Handlers -> PC]
  BY DEF TypeOK
<1>a. ASSUME NEW st \in {"Valid", "Invalid"}, NEW f \in FailureType, CloseWith(h, st, f)
      PROVE  pc' \in [Handlers -> PC] /\ loc' \in [Handlers -> Locals]
  <2>1. Closing(loc[h], st, f) \in Locals
    BY <1>0, LocalsType DEF ProverProveStatus
  <2> QED
    BY <1>0, <1>a, <2>1, MoveType DEF CloseWith, PC, submitPc
<1>1. ASSUME NEW u \in Rows, HandleZkProof(h, u) PROVE TypeOK'
  <2> DEFINE l == [NoLocals EXCEPT !.task = proverTask[u].task_id, !.row = u]
  <2>1. proverTask[u].task_id \in Tasks /\ u \in Nat
    BY RowType
  <2>2. l \in Locals
    BY <2>1, LocalsType
  <2>3. Closing(l, "Invalid", "SubmitStatusNotOk") \in Locals
    BY <2>2, LocalsType DEF ProverProveStatus, FailureType
  <2>4. loc' = [loc EXCEPT ![h] = l]
        \/ loc' = [loc EXCEPT ![h] = Closing(l, "Invalid", "SubmitStatusNotOk")]
    BY <1>1 DEF HandleZkProof
  <2> HIDE DEF l
  <2>5. pc' \in [Handlers -> PC] /\ loc' \in [Handlers -> Locals]
    BY <1>0, <1>1, <2>2, <2>3, <2>4, MoveType DEF HandleZkProof, PC, submitPc
  <2> QED
    BY <1>1, <2>5, HandlerType, FaultType DEF HandleZkProof, dbVars, cronVars
<1>2. CASE VerifyProof(h)
  <2>1. pc' \in [Handlers -> PC] /\ loc' \in [Handlers -> Locals]
    BY <1>2, <1>a, MoveType DEF VerifyProof, PC, FailureType
  <2>2. faults' \in 0..MaxFaults
    BY <1>2, FaultType DEF VerifyProof, CheckIsTaskSuccess
  <2> QED
    BY <1>2, <2>1, <2>2, HandlerType, FaultType DEF VerifyProof, dbVars, cronVars
<1>3. CASE TxBegin(h)
  <2>1. DecreaseMatches(task[loc[h].task]) \in BOOLEAN
    BY DEF DecreaseMatches
  <2>2. loc' \in [Handlers -> Locals]
    BY <1>0, <1>3, <2>1, LocalsType DEF TxBegin
  <2>3. pc' \in [Handlers -> PC]
    BY <1>3, MoveType DEF TxBegin, PC, submitPc, txPc
  <2> QED
    BY <1>3, <2>2, <2>3, HandlerType, FaultType DEF TxBegin, dbVars, cronVars
<1>4. CASE TxCheck(h)
  <2>1. loc' \in [Handlers -> Locals]
    <3>1. PICK seen \in BOOLEAN : loc' = [loc EXCEPT ![h] = [loc[h] EXCEPT !.seen = seen]]
      BY <1>4 DEF TxCheck
    <3>2. [loc[h] EXCEPT !.seen = seen] \in Locals
      BY <1>0, LocalsType
    <3> QED
      BY <1>0, <3>1, <3>2
  <2>2. pc' \in [Handlers -> PC]
    BY <1>4, MoveType DEF TxCheck, PC, submitPc, txPc
  <2>3. faults' \in 0..MaxFaults
    BY <1>4, FaultType DEF TxCheck, CheckIsTaskSuccess
  <2> QED
    BY <1>4, <2>1, <2>2, <2>3, HandlerType, FaultType DEF TxCheck, dbVars, cronVars
<1>5. CASE TxCommit(h)
  <2> DEFINE l == loc[h]
  <2>1. /\ l.task \in Tasks /\ task[l.task] \in TaskRow /\ RowInv(task[l.task])
        /\ l.row \in Rows
        /\ l.row # 0
        /\ l.dec => DecreaseMatches(task[l.task])
    BY <1>5 DEF TxCommit, HandlerInv, TypeOK, submitPc, txPc, RowsOf, Rows
  <2>2. CommitTask(task[l.task], l) \in TaskRow
    BY <1>0, <2>1, CommitRow DEF RowStep
  <2>3. task' \in [Tasks -> TaskRow]
    BY <1>5, <2>1, <2>2 DEF TxCommit, TypeOK
  <2>4. proverTask' \in Seq(ProverTaskRow) /\ Len(proverTask') >= Len(proverTask)
    <3>1. l.status \in ProverProveStatus /\ l.failure \in FailureType
      BY <1>0 DEF Locals
    <3>2. Len(proverTask) \in Nat
      BY DEF TypeOK
    <3>3. proverTask' = [proverTask EXCEPT ![l.row] = UpdateProverTask(@, l.status, l.failure)]
      BY <1>5 DEF TxCommit
    <3>4. proverTask' \in Seq(ProverTaskRow) /\ Len(proverTask') = Len(proverTask)
      <4> HIDE DEF l
      <4> QED
        BY <2>1, <3>1, <3>3, UpdateRowType
    <3> QED
      BY <3>2, <3>4
  <2>5. pc' \in [Handlers -> PC] /\ loc' \in [Handlers -> Locals]
    BY <1>0, <1>5, MoveType DEF TxCommit, PC, submitPc
  <2> QED
    BY <1>5, <2>3, <2>4, <2>5, TypeFromParts DEF TxCommit, TypeOK, cronVars
<1>6. CASE CloseFails(h)
  <2>1. pc' \in [Handlers -> PC] /\ loc' \in [Handlers -> Locals]
    BY <1>6, <1>a, MoveType DEF CloseFails, PC, FailureType
  <2> QED
    BY <1>6, <2>1, HandlerType, FaultType DEF CloseFails, dbVars, cronVars
<1>7. CASE ReadyCheck(h)
  <2>1. pc' \in [Handlers -> PC] /\ loc' \in [Handlers -> Locals]
    BY <1>0, <1>7, MoveType DEF ReadyCheck, PC, submitPc
  <2> QED
    BY <1>7, <2>1, HandlerType, FaultType DEF ReadyCheck, dbVars, cronVars
<1>8. CASE SetReady(h)
  <2>1. pc' \in [Handlers -> PC] /\ loc' \in [Handlers -> Locals]
    BY <1>8, MoveType DEF SetReady, PC
  <2>2. chunkProofs' \in [Batches -> ChunkProofsStatus]
    BY <1>8 DEF SetReady, TypeOK, ChunkProofsStatus
  <2> QED
    BY <1>8, <2>1, <2>2 DEF SetReady, TypeOK, Rows, cronVars
<1> QED
  BY <1>1, <1>2, <1>3, <1>4, <1>5, <1>6, <1>7, <1>8 DEF SubmitProof

\* Every step keeps the types.
LEMMA TypeStep ==
    ASSUME TypeOK, \A h \in Handlers : HandlerInv(h), \A t \in Tasks : RowInv(task[t]),
           [Next]_vars
    PROVE  TypeOK'
<1> USE TaskAssumption
<1>1. CASE UNCHANGED vars
  BY <1>1 DEF vars, TypeOK, Rows
<1>2. ASSUME NEW h \in Handlers, Assign(h) \/ SubmitProof(h) PROVE TypeOK'
  BY <1>2, AssignType, SubmitType
<1>3. ASSUME NEW k \in Kinds, TimeoutScan(k) PROVE TypeOK'
  <2>1. timeoutQ' \in [Kinds -> SUBSET Rows]
    BY <1>3 DEF TimeoutScan, TypeOK, AssignedRows
  <2> QED
    BY <1>3, <2>1 DEF TimeoutScan, TypeOK, Rows, dbVars
<1>4. ASSUME NEW k \in Kinds, NEW u \in timeoutQ[k], TimeoutCheck(k, u) PROVE TypeOK'
  <2>1. u \in Rows /\ proverTask[u].task_id \in Tasks
    <3>1. u \in Rows
      BY DEF TypeOK
    <3> QED
      BY <3>1, RowType
  <2>2. proverTask' \in Seq(ProverTaskRow) /\ Len(proverTask') = Len(proverTask)
    BY <1>4, <2>1, UpdateRowType DEF TimeoutCheck, ProverProveStatus, FailureType
  <2>3. task' \in [Tasks -> TaskRow]
    BY <1>4, <2>1, TimeoutRow DEF TimeoutCheck, TypeOK, RowStep
  <2>4. timeoutQ' \in [Kinds -> SUBSET Rows]
    BY <1>4 DEF TimeoutCheck, TypeOK
  <2>5. Len(proverTask') >= Len(proverTask)
    BY <2>2 DEF TypeOK
  <2> QED
    BY <1>4, <2>2, <2>3, <2>4, <2>5, TypeFromParts DEF TimeoutCheck, TypeOK
<1>5. ASSUME NEW k \in Kinds, NEW u \in timeoutQ[k], TimeoutCheckFails(k, u) PROVE TypeOK'
  <2>1. timeoutQ' \in [Kinds -> SUBSET Rows]
    BY <1>5 DEF TimeoutCheckFails, TypeOK
  <2> QED
    BY <1>5, <2>1, FaultType DEF TimeoutCheckFails, TypeOK, Rows, dbVars
<1>6. ASSUME NEW b \in Batches, BatchReadyScan(b) PROVE TypeOK'
  BY <1>6 DEF BatchReadyScan, TypeOK, Rows, dbVars
<1>7. CASE BatchReadyUpdate
  <2>1. chunkProofs' \in [Batches -> ChunkProofsStatus] /\ faults' \in 0..MaxFaults
    BY <1>7, FaultType DEF BatchReadyUpdate, TypeOK, ChunkProofsStatus
  <2> QED
    BY <1>7, <2>1 DEF BatchReadyUpdate, TypeOK, Rows
<1>8. ASSUME NEW b \in Batches, ProposeBatch(b) PROVE TypeOK'
  <2>1. chunkProofs' \in [Batches -> ChunkProofsStatus]
    BY <1>8 DEF ProposeBatch, TypeOK, ChunkProofsStatus
  <2> QED
    BY <1>8, <2>1 DEF ProposeBatch, TypeOK, Rows, cronVars
<1>9. CASE CrashApi
  BY <1>9, LocalsType, HandlerType, FaultType DEF CrashApi, PC, dbVars, cronVars
<1>10. CASE CrashCron
  <2>1. timeoutQ' \in [Kinds -> SUBSET Rows]
    BY <1>10 DEF CrashCron
  <2> QED
    BY <1>10, <2>1, FaultType DEF CrashCron, TypeOK, Rows, dbVars
<1> QED
  BY <1>1, <1>2, <1>3, <1>4, <1>5, <1>6, <1>7, <1>8, <1>9, <1>10 DEF Next, Cron

-----------------------------------------------------------------------------
(* What a step does to the tables. *)

\* A step changes a task row in the ways RowStep allows, stores only proofs
\* of the task's own prover tasks, counts attempts only for a request that
\* selected the task, and leaves a row alone while another transaction
\* holds it.
TaskChange(t) ==
    /\ RowStep(task[t], task'[t])
    /\ task'[t].proof \in {task[t].proof} \cup RowsOf(t)
    /\ task'[t].total_attempts = task[t].total_attempts \/ \E h \in Handlers : loc[h].task = t
    /\ \A g \in Handlers : /\ pc[g] \in txPc /\ loc[g].dec /\ loc[g].task = t
                           /\ pc'[g] \in txPc
                           => task'[t] = task[t]

\* A step that leaves the task table alone.
LEMMA NoTaskChange ==
    ASSUME TypeOK, \A t \in Tasks : RowInv(task[t]), UNCHANGED task, NEW t \in Tasks
    PROVE  TaskChange(t)
  BY DEF TypeOK, TaskChange, RowStep

\* A step that writes one row and respects its lock.
LEMMA OneTaskChange ==
    ASSUME TypeOK, \A t \in Tasks : RowInv(task[t]), NEW s \in Tasks, NEW q,
           task' = [task EXCEPT ![s] = q], RowStep(task[s], q),
           q.proof \in {task[s].proof} \cup RowsOf(s),
           q.total_attempts = task[s].total_attempts \/ \E h \in Handlers : loc[h].task = s,
           \A g \in Handlers : /\ pc[g] \in txPc /\ loc[g].dec /\ loc[g].task = s
                               /\ pc'[g] \in txPc
                               => q = task[s],
           NEW t \in Tasks
    PROVE  TaskChange(t)
<1>1. CASE t = s
  <2>1. task'[t] = q
    BY <1>1 DEF TypeOK
  <2> QED
    BY <1>1, <2>1 DEF TaskChange
<1>2. CASE t # s
  <2>1. task'[t] = task[t] /\ task[t] \in TaskRow
    BY <1>2 DEF TypeOK
  <2> QED
    BY <2>1 DEF TaskChange, RowStep
<1> QED
  BY <1>1, <1>2

\* What a request knows of its task and its prover task when its transaction
\* commits.
LEMMA CommitFacts ==
    ASSUME TypeOK, \A h \in Handlers : HandlerInv(h), \A t \in Tasks : RowInv(task[t]),
           NEW h \in Handlers, TxCommit(h)
    PROVE  /\ loc[h].task \in Tasks
           /\ task[loc[h].task] \in TaskRow /\ RowInv(task[loc[h].task])
           /\ loc[h] \in Locals
           /\ loc[h].row \in RowsOf(loc[h].task) /\ loc[h].row # 0
           /\ loc[h].dec => DecreaseMatches(task[loc[h].task])
           /\ loc[h].seen => task[loc[h].task].proof # 0
<1>1. pc[h] = "txCommit"
  BY DEF TxCommit
<1>2. HandlerInv(h) /\ loc[h] \in Locals
  BY DEF TypeOK
<1>3. /\ loc[h].task \in Tasks
      /\ loc[h].row \in RowsOf(loc[h].task)
      /\ loc[h].dec => DecreaseMatches(task[loc[h].task])
      /\ loc[h].seen => task[loc[h].task].proof # 0
  BY <1>1, <1>2 DEF HandlerInv, submitPc, txPc
<1>4. task[loc[h].task] \in TaskRow /\ RowInv(task[loc[h].task])
  BY <1>3 DEF TypeOK
<1>5. loc[h].row # 0
  BY <1>3 DEF RowsOf, Rows
<1> QED
  BY <1>2, <1>3, <1>4, <1>5

\* Every step changes a task row only in the ways TaskChange allows.
LEMMA TaskStep ==
    ASSUME TypeOK, \A h \in Handlers : HandlerInv(h), LockInv,
           \A t \in Tasks : RowInv(task[t]), [Next]_vars
    PROVE  \A t \in Tasks : TaskChange(t)
<1> USE TaskAssumption
<1> SUFFICES ASSUME NEW t \in Tasks PROVE TaskChange(t)
  OBVIOUS
<1>1. ASSUME NEW h \in Handlers, UpdateAttempts(h) PROVE TaskChange(t)
  <2> DEFINE s == loc[h].task
  <2>1. s \in Tasks /\ task[s] \in TaskRow /\ RowInv(task[s])
    BY <1>1 DEF UpdateAttempts, HandlerInv, TypeOK
  <2>2. CASE AttemptsMatch(task[s], loc[h].active, loc[h].total)
    <3>1. RowStep(task[s], TakeAttempt(task[s])) /\ TakeAttempt(task[s]).proof = task[s].proof
      BY <1>1, <2>1, <2>2, TakeAttemptRow DEF AttemptsMatch, UpdateAttempts, HandlerInv
    <3>2. task' = [task EXCEPT ![s] = TakeAttempt(task[s])] /\ ~TaskLocked(s)
      BY <1>1, <2>2 DEF UpdateAttempts
    <3> QED
      BY <2>1, <3>1, <3>2, OneTaskChange DEF TaskLocked
  <2>3. CASE ~AttemptsMatch(task[s], loc[h].active, loc[h].total)
    BY <1>1, <2>3, NoTaskChange DEF UpdateAttempts
  <2> QED
    BY <2>2, <2>3
<1>2. ASSUME NEW h \in Handlers, RecoverActiveAttempts(h) PROVE TaskChange(t)
  <2> DEFINE s == loc[h].task
             q == DecreaseActiveAttempts(task[s])
  <2>1. s \in Tasks /\ task[s] \in TaskRow /\ RowInv(task[s])
    BY <1>2 DEF RecoverActiveAttempts, HandlerInv, TypeOK
  <2>2. /\ RowStep(task[s], q) /\ q.proof = task[s].proof
        /\ q.total_attempts = task[s].total_attempts
    BY <2>1, DecreaseRow
  <2>3. DecreaseMatches(task[s]) \/ q = task[s]
    BY DEF DecreaseActiveAttempts
  <2>4. \/ UNCHANGED task
        \/ /\ task' = [task EXCEPT ![s] = q]
           /\ DecreaseMatches(task[s]) => ~TaskLocked(s)
    BY <1>2 DEF RecoverActiveAttempts
  <2> HIDE DEF q
  <2> QED
    BY <2>1, <2>2, <2>3, <2>4, OneTaskChange, NoTaskChange DEF TaskLocked
<1>3. ASSUME NEW h \in Handlers, TxCommit(h) PROVE TaskChange(t)
  <2> DEFINE l == loc[h]
             s == l.task
             q == CommitTask(task[s], l)
  <2>1. /\ s \in Tasks /\ task[s] \in TaskRow /\ RowInv(task[s])
        /\ l \in Locals
        /\ l.row \in RowsOf(s)
        /\ l.row # 0
        /\ l.dec => DecreaseMatches(task[s])
    BY <1>3, CommitFacts
  <2>2. /\ RowStep(task[s], q) /\ q.proof \in {task[s].proof, l.row}
        /\ q.total_attempts = task[s].total_attempts
    BY <2>1, CommitRow
  <2>3. task' = [task EXCEPT ![s] = q]
    BY <1>3 DEF TxCommit
  <2>4. ASSUME NEW g \in Handlers, pc[g] \in txPc, loc[g].dec, loc[g].task = s, pc'[g] \in txPc
        PROVE  q = task[s]
    <3>1. g # h
      BY <1>3, <2>4 DEF TxCommit, Goto, Return, TypeOK, txPc
    <3>2. ~l.dec
      BY <1>3, <2>4, <3>1 DEF LockInv, TxCommit, txPc
    <3>3. ~StoresProof(l)
      BY <1>3, <2>4, <3>2 DEF TxCommit, TaskLocked
    <3> QED
      BY <3>2, <3>3 DEF CommitTask
  <2>5. q.proof \in {task[s].proof} \cup RowsOf(s)
    BY <2>1, <2>2
  <2>6. \A g \in Handlers : pc[g] \in txPc /\ loc[g].dec /\ loc[g].task = s /\ pc'[g] \in txPc
                               => q = task[s]
    BY <2>4
  <2>7. s \in Tasks
    BY <2>1
  <2> HIDE DEF q, s, l
  <2> QED
    BY <2>2, <2>3, <2>5, <2>6, <2>7, OneTaskChange
<1>4. ASSUME NEW k \in Kinds, NEW u \in timeoutQ[k], TimeoutCheck(k, u) PROVE TaskChange(t)
  <2> DEFINE s == proverTask[u].task_id
             q == TimeoutTask(task[s])
  <2>1. s \in Tasks /\ task[s] \in TaskRow /\ RowInv(task[s])
    <3>1. u \in Rows
      BY DEF TypeOK
    <3> QED
      BY <3>1, RowType DEF TypeOK
  <2>2. /\ RowStep(task[s], q) /\ q.proof = task[s].proof
        /\ q.total_attempts = task[s].total_attempts
    BY <2>1, TimeoutRow
  <2>3. task' = [task EXCEPT ![s] = q] /\ (q # task[s] => ~TaskLocked(s))
    BY <1>4 DEF TimeoutCheck
  <2>4. \A g \in Handlers : pc[g] \in txPc /\ loc[g].dec /\ loc[g].task = s => q = task[s]
    BY <2>3 DEF TaskLocked
  <2>5. q.proof \in {task[s].proof} \cup RowsOf(s)
    BY <2>2
  <2> HIDE DEF q, s
  <2> QED
    BY <2>1, <2>2, <2>3, <2>4, <2>5, OneTaskChange
<1>5. ASSUME NEW h \in Handlers, Assign(h), ~UpdateAttempts(h), ~RecoverActiveAttempts(h)
      PROVE  UNCHANGED task
  BY <1>5 DEF Assign, CheckParameter, GetAssigned, GetUnassigned, AssignQueryFails,
              InsertProverTask, FormatProverTask, AssignFails, dbVars
<1>6. ASSUME NEW h \in Handlers, SubmitProof(h), ~TxCommit(h) PROVE UNCHANGED task
  BY <1>6 DEF SubmitProof, HandleZkProof, VerifyProof, TxBegin, TxCheck, CloseFails,
              ReadyCheck, SetReady, dbVars
<1>7. ASSUME Cron, \A k \in Kinds : \A u \in timeoutQ[k] : ~TimeoutCheck(k, u)
      PROVE  UNCHANGED task
  BY <1>7 DEF Cron, TimeoutScan, TimeoutCheckFails, BatchReadyScan, BatchReadyUpdate, dbVars
<1>8. CASE UNCHANGED vars \/ (\E b \in Batches : ProposeBatch(b)) \/ CrashApi \/ CrashCron
  BY <1>8, NoTaskChange DEF vars, ProposeBatch, CrashApi, CrashCron, dbVars
<1> QED
  BY <1>1, <1>2, <1>3, <1>4, <1>5, <1>6, <1>7, <1>8, NoTaskChange DEF Next

\* A step keeps every prover task and adds only one for a request that
\* selected its task.
RowsChange ==
    /\ \A u \in Rows : u \in Rows' /\ proverTask'[u].task_id = proverTask[u].task_id
    /\ \A u \in Rows' : \/ u \in Rows
                        \/ /\ proverTask'[u].proving_status = "Assigned"
                           /\ \E h \in Handlers : loc[h].task = proverTask'[u].task_id

\* Every step keeps the prover tasks there are; a new one is open.
LEMMA RowsStep ==
    ASSUME TypeOK, \A h \in Handlers : HandlerInv(h), [Next]_vars
    PROVE  RowsChange
<1> USE TaskAssumption
<1>0. ASSUME UNCHANGED proverTask PROVE RowsChange
  BY <1>0 DEF RowsChange, Rows
<1>a. ASSUME Len(proverTask') = Len(proverTask),
             \A v \in Rows : proverTask'[v].task_id = proverTask[v].task_id
      PROVE  RowsChange
  BY <1>a DEF RowsChange, Rows
<1>1. ASSUME NEW h \in Handlers, InsertProverTask(h) PROVE RowsChange
  <2> DEFINE r == [task_id |-> loc[h].task, prover |-> ProverOf[h],
                   proving_status |-> "Assigned", failure_type |-> "Undefined"]
  <2>1. proverTask' = Append(proverTask, r) /\ proverTask \in Seq(ProverTaskRow)
    BY <1>1 DEF InsertProverTask, TypeOK
  <2>2. r.task_id = loc[h].task /\ r.proving_status = "Assigned"
    OBVIOUS
  <2> HIDE DEF r
  <2>3. /\ Len(proverTask) \in Nat /\ Len(proverTask') = Len(proverTask) + 1
        /\ proverTask'[Len(proverTask) + 1] = r
        /\ \A u \in 1..Len(proverTask) : proverTask'[u] = proverTask[u]
    BY <2>1
  <2> QED
    BY <2>2, <2>3 DEF RowsChange, Rows
<1>2. ASSUME NEW h \in Handlers, TxCommit(h) PROVE RowsChange
  <2> DEFINE l == loc[h]
  <2>1. l.row \in Rows /\ l.status \in ProverProveStatus /\ l.failure \in FailureType
    BY <1>2 DEF TxCommit, HandlerInv, TypeOK, submitPc, txPc, RowsOf, Locals
  <2>2. proverTask' = [proverTask EXCEPT ![l.row] = UpdateProverTask(@, l.status, l.failure)]
    BY <1>2 DEF TxCommit
  <2> HIDE DEF l
  <2> QED
    BY <1>a, <2>1, <2>2, UpdateRowType
<1>3. ASSUME NEW k \in Kinds, NEW u \in timeoutQ[k], TimeoutCheck(k, u) PROVE RowsChange
  <2>1. u \in Rows
    BY DEF TypeOK
  <2>2. proverTask' = [proverTask EXCEPT ![u] = UpdateProverTask(@, "Invalid", "Timeout")]
    BY <1>3 DEF TimeoutCheck
  <2> QED
    BY <1>a, <2>1, <2>2, UpdateRowType DEF ProverProveStatus, FailureType
<1>4. ASSUME NEW h \in Handlers, Assign(h), ~InsertProverTask(h) PROVE UNCHANGED proverTask
  BY <1>4 DEF Assign, CheckParameter, GetAssigned, GetUnassigned, AssignQueryFails,
              UpdateAttempts, FormatProverTask, AssignFails, RecoverActiveAttempts, dbVars
<1>5. ASSUME NEW h \in Handlers, SubmitProof(h), ~TxCommit(h) PROVE UNCHANGED proverTask
  BY <1>5 DEF SubmitProof, HandleZkProof, VerifyProof, TxBegin, TxCheck, CloseFails,
              ReadyCheck, SetReady, dbVars
<1>6. ASSUME Cron, \A k \in Kinds : \A u \in timeoutQ[k] : ~TimeoutCheck(k, u)
      PROVE  UNCHANGED proverTask
  BY <1>6 DEF Cron, TimeoutScan, TimeoutCheckFails, BatchReadyScan, BatchReadyUpdate, dbVars
<1>7. CASE UNCHANGED vars \/ (\E b \in Batches : ProposeBatch(b)) \/ CrashApi \/ CrashCron
  BY <1>0, <1>7 DEF vars, ProposeBatch, CrashApi, CrashCron, dbVars
<1> QED
  BY <1>0, <1>1, <1>2, <1>3, <1>4, <1>5, <1>6, <1>7 DEF Next

-----------------------------------------------------------------------------
(* The request goroutines. *)

\* The prover tasks of a task are never lost.
LEMMA RowsKept ==
    ASSUME RowsChange, NEW t \in Tasks PROVE RowsOf(t) \subseteq RowsOf(t)'
  BY DEF RowsChange, RowsOf

\* A handler that does not move keeps what it knows.
LEMMA Untouched ==
    ASSUME TypeOK, NEW g \in Handlers, HandlerInv(g), pc'[g] = pc[g], loc'[g] = loc[g],
           RowsChange, \A t \in Tasks : TaskChange(t)
    PROVE  HandlerInv(g)'
<1> DEFINE t == loc[g].task
<1>1. pc[g] \in submitPc => loc[g].row \in RowsOf(t)'
  BY DEF HandlerInv, RowsOf, RowsChange
<1>2. pc[g] \in txPc /\ loc[g].dec => DecreaseMatches(task'[t])
  <2> SUFFICES ASSUME pc[g] \in txPc, loc[g].dec PROVE DecreaseMatches(task'[t])
    OBVIOUS
  <2>1. t \in Tasks /\ DecreaseMatches(task[t])
    BY DEF HandlerInv, txPc
  <2>2. task'[t] = task[t]
    BY <2>1 DEF TaskChange
  <2> QED
    BY <2>1, <2>2
<1>3. pc[g] = "txCommit" /\ loc[g].seen => task'[t].proof # 0
  BY DEF HandlerInv, TaskChange, RowStep
<1> QED
  BY <1>1, <1>2, <1>3 DEF HandlerInv, DecreaseMatches

\* The handler that moves in a step.
LEMMA OthersUntouched ==
    ASSUME TypeOK, [Next]_vars, NEW g \in Handlers, ~Assign(g), ~SubmitProof(g), ~CrashApi
    PROVE  pc'[g] = pc[g] /\ loc'[g] = loc[g]
<1>1. ASSUME NEW h \in Handlers, h # g, Assign(h) PROVE pc'[g] = pc[g] /\ loc'[g] = loc[g]
  BY <1>1 DEF TypeOK, Assign, CheckParameter, GetAssigned, GetUnassigned, SelectTask, AssignQueryFails,
              UpdateAttempts, InsertProverTask, FormatProverTask, AssignFails,
              RecoverActiveAttempts, Goto, Return
<1>2. ASSUME NEW h \in Handlers, h # g, SubmitProof(h) PROVE pc'[g] = pc[g] /\ loc'[g] = loc[g]
  BY <1>2 DEF TypeOK, SubmitProof, HandleZkProof, VerifyProof, TxBegin, TxCheck, TxCommit, CloseFails,
              CloseWith, ReadyCheck, SetReady, Goto, Return
<1>3. CASE Cron
  BY <1>3 DEF Cron, TimeoutScan, TimeoutCheck, TimeoutCheckFails, BatchReadyScan, BatchReadyUpdate
<1>4. CASE UNCHANGED vars \/ (\E b \in Batches : ProposeBatch(b)) \/ CrashCron
  BY <1>4 DEF vars, ProposeBatch, CrashCron
<1> QED
  BY <1>1, <1>2, <1>3, <1>4 DEF Next

\* The handler returns: it knows nothing any more.
LEMMA ReturnInv ==
    ASSUME TypeOK, NEW h \in Handlers, Return(h) PROVE HandlerInv(h)'
<1>1. pc'[h] = "idle" /\ loc'[h] = NoLocals
  BY DEF TypeOK, Return, Goto
<1> QED
  BY <1>1 DEF HandlerInv, NoLocals, submitPc, txPc

\* The steps of Assign keep what their handler knows.
LEMMA AssignHandler ==
    ASSUME TypeOK, NEW h \in Handlers, HandlerInv(h), Assign(h),
           RowsChange, \A t \in Tasks : TaskChange(t)
    PROVE  HandlerInv(h)'
<1> USE TaskAssumption
<1>0. loc[h] \in Locals
  BY DEF TypeOK
<1>1. ASSUME NEW k \in Kinds, CheckParameter(h, k) PROVE HandlerInv(h)'
  <2>1. pc'[h] = "getAssigned" /\ loc'[h] = [loc[h] EXCEPT !.kind = k]
    BY <1>1 DEF TypeOK, CheckParameter, Goto
  <2>2. loc'[h].task = NoTask
    BY <1>0, <1>1, <2>1 DEF CheckParameter, HandlerInv, Locals
  <2> QED
    BY <2>1, <2>2 DEF HandlerInv, submitPc, txPc
<1>2. ASSUME NEW st, SelectTask(h, st) PROVE HandlerInv(h)'
  <2>1. PICK t \in Candidates(ProverOf[h], loc[h].kind, st) :
              pc'[h] = "updateAttempts" /\ loc'[h] = Selected(loc[h], t)
    BY <1>2 DEF TypeOK, SelectTask, Goto
  <2>2. /\ t \in Tasks
        /\ task[t].total_attempts < SessionAttempts
        /\ task[t].active_attempts < ProversPerSession
    BY DEF Candidates, OfKind, Tasks
  <2>3. /\ loc'[h].task = t
        /\ loc'[h].total = task[t].total_attempts
        /\ loc'[h].active = task[t].active_attempts
    BY <1>0, <2>1 DEF Selected, Locals
  <2> QED
    BY <2>1, <2>2, <2>3 DEF HandlerInv, submitPc, txPc
<1>3. CASE GetAssigned(h) \/ GetUnassigned(h)
  <2>1. CASE \E st \in {"Assigned", "Unassigned"} : SelectTask(h, st)
    BY <1>2, <2>1
  <2>2. CASE Return(h)
    BY <2>2, ReturnInv
  <2>3. CASE pc[h] = "getAssigned" /\ Goto(h, "getUnassigned") /\ UNCHANGED loc
    BY <2>3 DEF HandlerInv, TypeOK, Goto, submitPc, txPc
  <2> QED
    BY <1>3, <2>1, <2>2, <2>3 DEF GetAssigned, GetUnassigned
<1>4. CASE UpdateAttempts(h)
  <2>1. CASE Goto(h, "insert") /\ UNCHANGED loc
    BY <1>4, <2>1 DEF UpdateAttempts, HandlerInv, TypeOK, Goto, submitPc, txPc
  <2>2. CASE Goto(h, "getAssigned") /\ loc' = [loc EXCEPT ![h] = Retry(@)]
    <3>1. pc'[h] = "getAssigned" /\ loc'[h] = Retry(loc[h])
      BY <2>2 DEF TypeOK, Goto
    <3>2. Retry(loc[h]).task = NoTask
      BY DEF Retry, NoLocals
    <3> QED
      BY <3>1, <3>2 DEF HandlerInv, submitPc, txPc
  <2> QED
    BY <1>4, <2>1, <2>2, ReturnInv DEF UpdateAttempts
<1>5. CASE AssignQueryFails(h) \/ FormatProverTask(h) \/ RecoverActiveAttempts(h)
  BY <1>5, ReturnInv DEF AssignQueryFails, FormatProverTask, RecoverActiveAttempts
<1>6. CASE InsertProverTask(h)
  BY <1>6 DEF InsertProverTask, HandlerInv, TypeOK, Goto, submitPc, txPc
<1>7. CASE AssignFails(h)
  BY <1>7 DEF AssignFails, HandlerInv, TypeOK, Goto, submitPc, txPc
<1> QED
  BY <1>1, <1>3, <1>4, <1>5, <1>6, <1>7 DEF Assign

\* The steps of HandleZkProof keep what their handler knows.
LEMMA SubmitHandler ==
    ASSUME TypeOK, NEW h \in Handlers, HandlerInv(h), SubmitProof(h),
           \A t \in Tasks : RowInv(task[t]), RowsChange, \A t \in Tasks : TaskChange(t)
    PROVE  HandlerInv(h)'
<1> USE TaskAssumption
<1>0. loc[h] \in Locals
  BY DEF TypeOK
<1>a. ASSUME pc[h] \in submitPc, NEW st \in {"Valid", "Invalid"}, NEW f \in FailureType,
             CloseWith(h, st, f)
      PROVE  HandlerInv(h)'
  <2>1. pc'[h] = "txBegin" /\ loc'[h] = Closing(loc[h], st, f)
    BY <1>a DEF TypeOK, CloseWith, Goto
  <2>2. loc'[h].task = loc[h].task /\ loc'[h].row = loc[h].row
    BY <1>0, <2>1 DEF Closing, Locals
  <2>3. loc[h].task \in Tasks /\ loc[h].row \in RowsOf(loc[h].task)
    BY <1>a DEF HandlerInv, submitPc, txPc
  <2>4. (loc[h].row \in RowsOf(loc[h].task))'
    BY <2>2, <2>3, RowsKept
  <2> QED
    BY <2>1, <2>2, <2>3, <2>4 DEF HandlerInv, submitPc, txPc
<1>1. ASSUME NEW u \in Rows, HandleZkProof(h, u) PROVE HandlerInv(h)'
  <2> DEFINE l == [NoLocals EXCEPT !.task = proverTask[u].task_id, !.row = u]
             m == Closing(l, "Invalid", "SubmitStatusNotOk")
  <2>1. \/ pc'[h] = "checkSuccess" /\ loc'[h] = l
        \/ pc'[h] = "txBegin" /\ loc'[h] = m
    BY <1>1 DEF TypeOK, HandleZkProof, Goto
  <2>2. l.task = proverTask[u].task_id /\ l.row = u /\ m.task = l.task /\ m.row = l.row
    BY DEF NoLocals, Closing
  <2>3. l.task \in Tasks
    BY <2>2, RowType
  <2>4. u \in RowsOf(l.task)
    BY <2>2 DEF RowsOf
  <2>5. loc'[h].task = l.task /\ loc'[h].row = u
    BY <2>1, <2>2
  <2>6. (loc[h].row \in RowsOf(loc[h].task))' /\ loc'[h].task \in Tasks
    BY <2>3, <2>4, <2>5, RowsKept
  <2> HIDE DEF l, m
  <2> QED
    BY <2>1, <2>6 DEF HandlerInv, submitPc, txPc
<1>2. CASE VerifyProof(h)
  <2>1. pc[h] \in submitPc
    BY <1>2 DEF VerifyProof, submitPc
  <2> QED
    BY <1>2, <2>1, <1>a, ReturnInv DEF VerifyProof, FailureType
<1>3. CASE TxBegin(h)
  <2> DEFINE t == loc[h].task
  <2>1. /\ pc'[h] = "txCheck" /\ loc'[h] = [loc[h] EXCEPT !.dec = DecreaseMatches(task[t])]
        /\ UNCHANGED <<task, proverTask>> /\ pc[h] \in submitPc
    BY <1>3 DEF TypeOK, TxBegin, Goto, dbVars, submitPc
  <2>2. /\ loc'[h].task = t /\ loc'[h].row = loc[h].row
        /\ loc'[h].dec = DecreaseMatches(task[t])
    BY <1>0, <2>1 DEF Locals
  <2>3. t \in Tasks /\ loc[h].row \in RowsOf(t)'
    BY <2>1 DEF HandlerInv, submitPc, txPc, RowsOf, RowsChange
  <2> QED
    BY <2>1, <2>2, <2>3 DEF HandlerInv, submitPc, txPc, DecreaseMatches
<1>4. CASE TxCheck(h)
  <2> DEFINE t == loc[h].task
  <2>1. PICK seen \in BOOLEAN :
           /\ CheckIsTaskSuccess(t, seen)
           /\ pc'[h] = "txCommit" /\ loc'[h] = [loc[h] EXCEPT !.seen = seen]
    BY <1>4 DEF TypeOK, TxCheck, Goto
  <2>2. UNCHANGED <<task, proverTask>> /\ pc[h] = "txCheck" /\ pc[h] \in submitPc
    BY <1>4 DEF TxCheck, dbVars, submitPc, txPc
  <2>3. /\ loc'[h].task = t /\ loc'[h].row = loc[h].row
        /\ loc'[h].dec = loc[h].dec /\ loc'[h].seen = seen
    BY <1>0, <2>1 DEF Locals
  <2>4. t \in Tasks /\ loc[h].row \in RowsOf(t)
    BY <2>2 DEF HandlerInv, submitPc, txPc
  <2>5. seen => task[t].proof # 0
    BY <2>1, <2>4 DEF CheckIsTaskSuccess, RowInv
  <2>6. loc[h].dec => DecreaseMatches(task[t])
    BY <2>2 DEF HandlerInv, txPc
  <2>7. (loc[h].row \in RowsOf(loc[h].task))'
    BY <2>3, <2>4, RowsKept
  <2> QED
    BY <2>1, <2>2, <2>3, <2>4, <2>5, <2>6, <2>7 DEF HandlerInv, submitPc, txPc, DecreaseMatches
<1>5. CASE TxCommit(h)
  <2>1. CASE loc[h].task \in Chunks /\ Goto(h, "readyCheck") /\ UNCHANGED loc
    <3>1. pc'[h] = "readyCheck" /\ loc'[h] = loc[h] /\ pc[h] \in submitPc
      BY <1>5, <2>1 DEF TypeOK, Goto, TxCommit, submitPc, txPc
    <3>2. loc[h].task \in Tasks /\ loc[h].row \in RowsOf(loc[h].task)'
      BY <3>1 DEF HandlerInv, submitPc, txPc, RowsOf, RowsChange
    <3> QED
      BY <2>1, <3>1, <3>2 DEF HandlerInv, submitPc, txPc
  <2> QED
    BY <1>5, <2>1, ReturnInv DEF TxCommit
<1>6. CASE CloseFails(h)
  <2>1. pc[h] \in submitPc
    BY <1>6 DEF CloseFails, submitPc
  <2> QED
    BY <1>6, <2>1, <1>a, ReturnInv DEF CloseFails, FailureType
<1>7. CASE ReadyCheck(h)
  <2>1. CASE Goto(h, "setReady") /\ UNCHANGED loc
    <3>1. pc'[h] = "setReady" /\ loc'[h] = loc[h] /\ pc[h] = "readyCheck" /\ pc[h] \in submitPc
      BY <1>7, <2>1 DEF TypeOK, Goto, ReadyCheck, submitPc, txPc
    <3>2. /\ loc[h].task \in Tasks /\ loc[h].row \in RowsOf(loc[h].task)'
          /\ loc[h].task \in Chunks
      BY <3>1 DEF HandlerInv, submitPc, txPc, RowsOf, RowsChange
    <3> QED
      BY <3>1, <3>2 DEF HandlerInv, submitPc, txPc
  <2> QED
    BY <1>7, <2>1, ReturnInv DEF ReadyCheck
<1>8. CASE SetReady(h)
  BY <1>8, ReturnInv DEF SetReady
<1> QED
  BY <1>1, <1>2, <1>3, <1>4, <1>5, <1>6, <1>7, <1>8 DEF SubmitProof

\* Every step keeps what every handler knows of the tables.
LEMMA HandlerStep ==
    ASSUME TypeOK, \A h \in Handlers : HandlerInv(h), \A t \in Tasks : RowInv(task[t]),
           RowsChange, \A t \in Tasks : TaskChange(t), [Next]_vars
    PROVE  \A h \in Handlers : HandlerInv(h)'
<1> SUFFICES ASSUME NEW h \in Handlers PROVE HandlerInv(h)'
  OBVIOUS
<1>1. CASE Assign(h)
  BY <1>1, AssignHandler
<1>2. CASE SubmitProof(h)
  BY <1>2, SubmitHandler
<1>3. CASE CrashApi
  BY <1>3 DEF CrashApi, HandlerInv, NoLocals, submitPc, txPc
<1>4. CASE ~Assign(h) /\ ~SubmitProof(h) /\ ~CrashApi
  BY <1>4, OthersUntouched, Untouched
<1> QED
  BY <1>1, <1>2, <1>3, <1>4

\* Two transactions never hold the same row.
LEMMA LockStep ==
    ASSUME TypeOK, LockInv, [Next]_vars
    PROVE  LockInv'
<1>1. ASSUME NEW g \in Handlers, pc'[g] \in txPc, loc'[g].dec
      PROVE  /\ loc'[g].task = loc[g].task
             /\ \/ pc[g] \in txPc /\ loc[g].dec
                \/ TxBegin(g) /\ ~TaskLocked(loc[g].task)
  <2>0. loc[g] \in Locals
    BY DEF TypeOK
  <2>1. ~Return(g) /\ ~Assign(g) /\ ~CrashApi
    BY <1>1 DEF TypeOK, Return, Assign, CheckParameter, GetAssigned, GetUnassigned, SelectTask,
                AssignQueryFails, UpdateAttempts, InsertProverTask, FormatProverTask, AssignFails,
                RecoverActiveAttempts, CrashApi, Goto, NoLocals, txPc
  <2>2. ~SubmitProof(g) => pc'[g] = pc[g] /\ loc'[g] = loc[g]
    BY <2>1, OthersUntouched
  <2>3. CASE TxBegin(g)
    <3>1. /\ loc'[g] = [loc[g] EXCEPT !.dec = DecreaseMatches(task[loc[g].task])]
          /\ DecreaseMatches(task[loc[g].task]) => ~TaskLocked(loc[g].task)
      BY <2>3 DEF TypeOK, TxBegin
    <3>2. loc'[g].task = loc[g].task /\ loc'[g].dec = DecreaseMatches(task[loc[g].task])
      BY <2>0, <3>1 DEF Locals
    <3> QED
      BY <1>1, <2>3, <3>1, <3>2
  <2>4. CASE TxCheck(g)
    <3>1. PICK seen \in BOOLEAN : loc'[g] = [loc[g] EXCEPT !.seen = seen]
      BY <2>4 DEF TypeOK, TxCheck
    <3>2. loc'[g].task = loc[g].task /\ loc'[g].dec = loc[g].dec
      BY <2>0, <3>1 DEF Locals
    <3> QED
      BY <1>1, <2>4, <3>2 DEF TxCheck, txPc
  <2>5. SubmitProof(g) => TxBegin(g) \/ TxCheck(g)
    BY <1>1, <2>1 DEF TypeOK, SubmitProof, HandleZkProof, VerifyProof, TxCommit, CloseFails,
                      CloseWith, ReadyCheck, SetReady, Goto, Return, txPc
  <2> QED
    BY <1>1, <2>2, <2>3, <2>4, <2>5
<1> SUFFICES ASSUME NEW g \in Handlers, NEW h \in Handlers, g # h,
                    pc'[g] \in txPc, loc'[g].dec, pc'[h] \in txPc, loc'[h].dec,
                    loc'[g].task = loc'[h].task
             PROVE  FALSE
  BY DEF LockInv
<1>2. ~(TxBegin(g) /\ TxBegin(h))
  BY DEF TypeOK, TxBegin, Goto
<1> QED
  BY <1>1, <1>2 DEF LockInv, TaskLocked

-----------------------------------------------------------------------------
(* Proofs, and the batches that wait for them. *)

\* Every step keeps the proofs behind verified tasks and valid prover tasks.
LEMMA VerifiedStep ==
    ASSUME TypeOK, \A h \in Handlers : HandlerInv(h), \A t \in Tasks : RowInv(task[t]),
           VerifiedHasProof, RowsChange, \A t \in Tasks : TaskChange(t), TypeOK', [Next]_vars
    PROVE  VerifiedHasProof'
<1> USE TaskAssumption
<1>1. ASSUME NEW t \in Tasks
      PROVE  /\ task'[t].proving_status = "Verified" => task'[t].proof # 0
             /\ task'[t].proof # 0 => task'[t].proof \in RowsOf(t)'
  BY RowsKept DEF TaskChange, RowStep, RowInv, VerifiedHasProof
<1>2. ASSUME NEW u \in Rows', proverTask'[u].proving_status = "Valid"
      PROVE  task'[proverTask'[u].task_id].proof # 0
  <2>1. u \in Rows /\ proverTask'[u].task_id = proverTask[u].task_id
    BY <1>2 DEF RowsChange
  <2>2. proverTask[u].task_id \in Tasks
    BY <2>1, RowType
  <2>3. CASE proverTask[u].proving_status = "Valid"
    BY <2>1, <2>2, <2>3 DEF VerifiedHasProof, TaskChange, RowStep
  <2>4. CASE proverTask[u].proving_status # "Valid"
    <3>1. ASSUME NEW h \in Handlers, TxCommit(h), loc[h].row = u, loc[h].status = "Valid"
          PROVE  task'[proverTask[u].task_id].proof # 0
      <4> DEFINE l == loc[h]
                 t == l.task
      <4>1. /\ t \in Tasks /\ task[t] \in TaskRow /\ RowInv(task[t])
            /\ l \in Locals
            /\ l.row \in RowsOf(t)
            /\ l.row # 0
            /\ l.dec => DecreaseMatches(task[t])
            /\ l.seen => task[t].proof # 0
        BY <3>1, CommitFacts
      <4>2. t = proverTask[u].task_id
        BY <3>1, <4>1 DEF RowsOf
      <4>3. CASE l.seen
        <5>1. TaskChange(t) /\ task[t].proof # 0
          BY <4>1, <4>3
        <5>2. task'[t].proof # 0
          BY <5>1 DEF TaskChange, RowStep
        <5> QED
          BY <4>2, <5>2
      <4>4. CASE ~l.seen
        <5>1. task'[t] = CommitTask(task[t], l)
          BY <3>1, <4>1 DEF TxCommit, TypeOK
        <5>2. CommitTask(task[t], l).proof # 0
          BY <3>1, <4>1, <4>4, CommitRow DEF StoresProof
        <5> QED
          BY <4>2, <5>1, <5>2
      <4> QED
        BY <4>3, <4>4
    <3>2. ASSUME NEW h \in Handlers, TxCommit(h) PROVE loc[h].row = u /\ loc[h].status = "Valid"
      <4> DEFINE l == loc[h]
      <4>1. l.row \in Rows /\ l.status \in ProverProveStatus /\ l.failure \in FailureType
        BY <3>2 DEF TxCommit, HandlerInv, TypeOK, submitPc, txPc, RowsOf, Locals
      <4>2. proverTask' = [proverTask EXCEPT ![l.row] = UpdateProverTask(@, l.status, l.failure)]
        BY <3>2 DEF TxCommit
      <4>a. PICK w, st, f : w = l.row /\ st = l.status /\ f = l.failure
        OBVIOUS
      <4> HIDE DEF l
      <4>b. /\ w \in Rows /\ st \in ProverProveStatus /\ f \in FailureType
            /\ proverTask' = [proverTask EXCEPT ![w] = UpdateProverTask(@, st, f)]
        BY <4>1, <4>2, <4>a
      <4>c. \A v \in Rows : proverTask'[v].proving_status
                             = IF v = w THEN st ELSE proverTask[v].proving_status
        BY <4>b, UpdateRowType
      <4>3. proverTask'[u].proving_status = IF u = l.row THEN l.status ELSE proverTask[u].proving_status
        BY <2>1, <4>a, <4>c
      <4>4. u = l.row /\ l.status = "Valid"
        BY <1>2, <2>4, <4>3
      <4> QED
        BY <4>4 DEF l
    <3>3. ASSUME NEW k \in Kinds, NEW v \in timeoutQ[k], TimeoutCheck(k, v) PROVE FALSE
      <4>1. v \in Rows
        BY DEF TypeOK
      <4>2. proverTask' = [proverTask EXCEPT ![v] = UpdateProverTask(@, "Invalid", "Timeout")]
        BY <3>3 DEF TimeoutCheck
      <4>3. proverTask'[u].proving_status = IF u = v THEN "Invalid" ELSE proverTask[u].proving_status
        BY <2>1, <4>1, <4>2, UpdateRowType DEF ProverProveStatus, FailureType
      <4> QED
        BY <1>2, <2>4, <4>3
    <3>4. ASSUME NEW h \in Handlers, InsertProverTask(h) PROVE FALSE
      <4>1. PICK r : proverTask' = Append(proverTask, r)
        BY <3>4 DEF InsertProverTask
      <4>2. proverTask'[u] = proverTask[u]
        <5>1. proverTask \in Seq(ProverTaskRow) /\ u \in 1..Len(proverTask)
          BY <2>1 DEF TypeOK, Rows
        <5> QED
          BY <4>1, <5>1
      <4> QED
        BY <1>2, <2>4, <4>2
    <3>5. ASSUME UNCHANGED proverTask PROVE FALSE
      BY <1>2, <2>4, <3>5
    <3>6. ASSUME NEW h \in Handlers, Assign(h), ~InsertProverTask(h) PROVE UNCHANGED proverTask
      BY <3>6 DEF Assign, CheckParameter, GetAssigned, GetUnassigned, AssignQueryFails,
                  UpdateAttempts, FormatProverTask, AssignFails, RecoverActiveAttempts, dbVars
    <3>7. ASSUME NEW h \in Handlers, SubmitProof(h), ~TxCommit(h) PROVE UNCHANGED proverTask
      BY <3>7 DEF SubmitProof, HandleZkProof, VerifyProof, TxBegin, TxCheck, CloseFails,
                  ReadyCheck, SetReady, dbVars
    <3>8. ASSUME Cron, \A k \in Kinds : \A v \in timeoutQ[k] : ~TimeoutCheck(k, v)
          PROVE  UNCHANGED proverTask
      BY <3>8 DEF Cron, TimeoutScan, TimeoutCheckFails, BatchReadyScan, BatchReadyUpdate, dbVars
    <3>9. CASE UNCHANGED vars \/ (\E b \in Batches : ProposeBatch(b)) \/ CrashApi \/ CrashCron
      BY <3>5, <3>9 DEF vars, ProposeBatch, CrashApi, CrashCron, dbVars
    <3> QED
      BY <2>1, <3>1, <3>2, <3>3, <3>4, <3>5, <3>6, <3>7, <3>8, <3>9 DEF Next
  <2> QED
    BY <2>3, <2>4
<1> QED
  BY <1>1, <1>2 DEF VerifiedHasProof

\* A batch row is never removed and never loses the status ready, and it gets
\* it only from a goroutine that has found every chunk proved.
BatchChange(b) ==
    /\ chunkProofs[b] = "Ready" => chunkProofs'[b] = "Ready"
    /\ chunkProofs[b] # "absent" => chunkProofs'[b] # "absent"
    /\ chunkProofs'[b] = "Ready" => chunkProofs[b] # "absent" /\ HasChunkProofs(b)

\* Every step changes chunk_proofs_status only in the ways BatchChange allows.
LEMMA BatchStep ==
    ASSUME TypeOK, \A h \in Handlers : HandlerInv(h), ReadyInv, [Next]_vars
    PROVE  \A b \in Batches : BatchChange(b)
<1> USE TaskAssumption
<1> SUFFICES ASSUME NEW b \in Batches PROVE BatchChange(b)
  OBVIOUS
<1>0. ASSUME UNCHANGED chunkProofs PROVE BatchChange(b)
  BY <1>0 DEF BatchChange, ReadyInv
<1>1. ASSUME NEW h \in Handlers, SetReady(h) PROVE BatchChange(b)
  <2>1. /\ chunkProofs' = [chunkProofs EXCEPT ![BatchOf[loc[h].task]] = "Ready"]
        /\ chunkProofs[BatchOf[loc[h].task]] # "absent" /\ HasChunkProofs(BatchOf[loc[h].task])
    BY <1>1 DEF SetReady, ReadyInv
  <2> QED
    BY <2>1 DEF BatchChange, TypeOK, ReadyInv
<1>2. CASE BatchReadyUpdate
  <2>1. /\ UNCHANGED chunkProofs \/ chunkProofs' = [chunkProofs EXCEPT ![readyQ] = "Ready"]
        /\ chunkProofs[readyQ] # "absent" /\ HasChunkProofs(readyQ)
    BY <1>2 DEF BatchReadyUpdate, ReadyInv
  <2> QED
    BY <1>0, <2>1 DEF BatchChange, TypeOK, ReadyInv
<1>3. ASSUME NEW a \in Batches, ProposeBatch(a) PROVE BatchChange(b)
  BY <1>3 DEF ProposeBatch, BatchChange, TypeOK, ReadyInv
<1>4. ASSUME NEW h \in Handlers, Assign(h) PROVE UNCHANGED chunkProofs
  BY <1>4 DEF Assign, CheckParameter, GetAssigned, GetUnassigned, AssignQueryFails, InsertProverTask,
              UpdateAttempts, FormatProverTask, AssignFails, RecoverActiveAttempts, dbVars
<1>5. ASSUME NEW h \in Handlers, SubmitProof(h), ~SetReady(h) PROVE UNCHANGED chunkProofs
  BY <1>5 DEF SubmitProof, HandleZkProof, VerifyProof, TxBegin, TxCheck, TxCommit, CloseFails,
              ReadyCheck, dbVars
<1>6. ASSUME Cron, ~BatchReadyUpdate PROVE UNCHANGED chunkProofs
  BY <1>6 DEF Cron, TimeoutScan, TimeoutCheck, TimeoutCheckFails, BatchReadyScan, dbVars
<1>7. CASE UNCHANGED vars \/ CrashApi \/ CrashCron
  BY <1>0, <1>7 DEF vars, CrashApi, CrashCron, dbVars
<1> QED
  BY <1>0, <1>1, <1>2, <1>3, <1>4, <1>5, <1>6, <1>7 DEF Next

\* A batch in the database keeps its chunks, and these keep their proofs.
LEMMA ProofsKept ==
    ASSUME NEW b \in Batches, BatchChange(b), \A t \in Tasks : TaskChange(t),
           chunkProofs[b] # "absent", HasChunkProofs(b)
    PROVE  HasChunkProofs(b)'
  BY TaskAssumption DEF HasChunkProofs, ChunksOf, BatchChange, TaskChange, RowStep, Tasks

\* Where the task of a request comes from.
LEMMA TaskOrigin ==
    ASSUME TypeOK, ReadyInv, [Next]_vars, NEW h \in Handlers, loc'[h].task \in Batches
    PROVE  chunkProofs[loc'[h].task] = "Ready"
<1> USE TaskAssumption
<1>0. loc[h] \in Locals
  BY DEF TypeOK
<1>1. NoTask \notin Batches
  BY DEF NoTask
<1>2. loc'[h] # NoLocals
  BY <1>1 DEF NoLocals
<1>3. ASSUME loc'[h].task = loc[h].task PROVE chunkProofs[loc'[h].task] = "Ready"
  BY <1>3 DEF ReadyInv
<1>4. CASE Assign(h)
  <2>1. ASSUME NEW st, SelectTask(h, st) PROVE chunkProofs[loc'[h].task] = "Ready"
    <3>1. PICK t \in Candidates(ProverOf[h], loc[h].kind, st) : loc'[h] = Selected(loc[h], t)
      BY <2>1 DEF TypeOK, SelectTask
    <3>2. loc'[h].task = t
      BY <1>0, <3>1 DEF Selected, Locals
    <3> QED
      BY <3>2 DEF Candidates
  <2>2. ASSUME NEW k \in Kinds, CheckParameter(h, k) PROVE loc'[h].task = loc[h].task
    <3>1. loc'[h] = [loc[h] EXCEPT !.kind = k]
      BY <2>2 DEF CheckParameter, TypeOK
    <3> QED
      BY <1>0, <3>1 DEF Locals
  <2>3. CASE UpdateAttempts(h)
    <3>1. Retry(loc[h]).task = NoTask
      BY DEF Retry, NoLocals
    <3>2. UNCHANGED loc
      BY <1>1, <1>2, <2>3, <3>1 DEF UpdateAttempts, TypeOK, Return
    <3> QED
      BY <1>3, <3>2
  <2>4. CASE GetAssigned(h) \/ GetUnassigned(h)
    BY <1>2, <1>3, <2>1, <2>4 DEF GetAssigned, GetUnassigned, Return, TypeOK
  <2>5. CASE InsertProverTask(h) \/ AssignFails(h)
    BY <1>3, <2>5 DEF InsertProverTask, AssignFails
  <2>6. CASE AssignQueryFails(h) \/ FormatProverTask(h) \/ RecoverActiveAttempts(h)
    BY <1>2, <2>6 DEF AssignQueryFails, FormatProverTask, RecoverActiveAttempts, Return, TypeOK
  <2> QED
    BY <1>3, <1>4, <2>2, <2>3, <2>4, <2>5, <2>6 DEF Assign
<1>5. CASE SubmitProof(h)
  <2>1. ASSUME NEW st, NEW f, CloseWith(h, st, f) PROVE loc'[h].task = loc[h].task
    <3>1. loc'[h] = Closing(loc[h], st, f)
      BY <2>1 DEF CloseWith, TypeOK
    <3> QED
      BY <1>0, <3>1 DEF Closing, Locals
  <2>2. ASSUME NEW u \in Rows, HandleZkProof(h, u) PROVE loc'[h].task = proverTask[u].task_id
    <3> DEFINE l == [NoLocals EXCEPT !.task = proverTask[u].task_id, !.row = u]
    <3>1. loc'[h] = l \/ loc'[h] = Closing(l, "Invalid", "SubmitStatusNotOk")
      BY <2>2 DEF HandleZkProof, TypeOK
    <3> QED
      BY <3>1 DEF Closing, NoLocals
  <2>3. CASE VerifyProof(h)
    BY <1>2, <1>3, <2>1, <2>3 DEF VerifyProof, Return, TypeOK
  <2>4. CASE TxBegin(h)
    <3>1. loc'[h] = [loc[h] EXCEPT !.dec = DecreaseMatches(task[loc[h].task])]
      BY <2>4 DEF TxBegin, TypeOK
    <3> QED
      BY <1>0, <1>3, <3>1 DEF Locals
  <2>5. CASE TxCheck(h)
    <3>1. PICK seen \in BOOLEAN : loc'[h] = [loc[h] EXCEPT !.seen = seen]
      BY <2>5 DEF TxCheck, TypeOK
    <3> QED
      BY <1>0, <1>3, <3>1 DEF Locals
  <2>6. CASE CloseFails(h)
    BY <1>2, <1>3, <2>1, <2>6 DEF CloseFails, Return, TypeOK
  <2>7. CASE TxCommit(h) \/ ReadyCheck(h) \/ SetReady(h)
    BY <1>2, <1>3, <2>7 DEF TxCommit, ReadyCheck, SetReady, Return, TypeOK
  <2> QED
    BY <1>5, <2>2, <2>3, <2>4, <2>5, <2>6, <2>7 DEF SubmitProof, ReadyInv
<1>6. CASE CrashApi
  BY <1>2, <1>6 DEF CrashApi
<1> QED
  BY <1>3, <1>4, <1>5, <1>6, OthersUntouched

\* Every step keeps the proofs a ready batch rests on.
LEMMA ReadyStep ==
    ASSUME TypeOK, \A h \in Handlers : HandlerInv(h), \A t \in Tasks : RowInv(task[t]),
           ReadyInv, RowsChange, \A t \in Tasks : TaskChange(t),
           \A b \in Batches : BatchChange(b), TypeOK', [Next]_vars
    PROVE  ReadyInv'
<1> USE TaskAssumption
<1>1. \A b \in Batches : chunkProofs'[b] = "Ready" => HasChunkProofs(b)'
  BY ProofsKept DEF BatchChange
<1>2. \A b \in Batches : task'[b].total_attempts > 0 => chunkProofs'[b] = "Ready"
  <2> SUFFICES ASSUME NEW b \in Batches, task'[b].total_attempts > 0
               PROVE  chunkProofs'[b] = "Ready"
    OBVIOUS
  <2>1. task'[b].total_attempts = task[b].total_attempts \/ \E h \in Handlers : loc[h].task = b
    BY DEF TaskChange, Tasks
  <2>2. chunkProofs[b] = "Ready"
    BY <2>1 DEF ReadyInv
  <2> QED
    BY <2>2 DEF BatchChange
<1>3. \A h \in Handlers : loc'[h].task \in Batches => chunkProofs'[loc'[h].task] = "Ready"
  BY TaskOrigin DEF BatchChange
<1>4. \A u \in Rows' : proverTask'[u].task_id \in Batches
                        => chunkProofs'[proverTask'[u].task_id] = "Ready"
  <2> SUFFICES ASSUME NEW u \in Rows', proverTask'[u].task_id \in Batches
               PROVE  chunkProofs'[proverTask'[u].task_id] = "Ready"
    OBVIOUS
  <2>1. chunkProofs[proverTask'[u].task_id] = "Ready"
    <3>1. CASE u \in Rows
      BY <3>1 DEF RowsChange, ReadyInv
    <3>2. CASE u \notin Rows
      <4>1. PICK h \in Handlers : loc[h].task = proverTask'[u].task_id
        BY <3>2 DEF RowsChange
      <4> QED
        BY <4>1 DEF ReadyInv
    <3> QED
      BY <3>1, <3>2
  <2> QED
    BY <2>1 DEF BatchChange
<1>5. ASSUME NEW b \in Batches, CheckIfBatchChunkProofsAreReady(b) PROVE HasChunkProofs(b)
  BY <1>5 DEF CheckIfBatchChunkProofsAreReady, HasChunkProofs, ChunksOf, RowInv, Tasks
<1>6. ASSUME NEW h \in Handlers, pc'[h] = "setReady"
      PROVE  HasChunkProofs(BatchOf[loc[h].task])' /\ chunkProofs'[BatchOf[loc'[h].task]] # "absent"
  <2>1. ~Return(h) /\ ~Assign(h) /\ ~CrashApi
    BY <1>6 DEF TypeOK, Return, Assign, CheckParameter, GetAssigned, GetUnassigned, SelectTask,
                AssignQueryFails, UpdateAttempts, InsertProverTask, FormatProverTask, AssignFails,
                RecoverActiveAttempts, CrashApi, Goto
  <2>2. SubmitProof(h) => ReadyCheck(h)
    BY <1>6, <2>1 DEF TypeOK, SubmitProof, HandleZkProof, VerifyProof, TxBegin, TxCheck, TxCommit,
                      CloseFails, CloseWith, SetReady, Goto
  <2>3. /\ loc'[h] = loc[h] /\ loc[h].task \in Chunks
        /\ chunkProofs[BatchOf[loc[h].task]] # "absent" /\ HasChunkProofs(BatchOf[loc[h].task])
    <3>1. CASE ReadyCheck(h)
      <4>1. loc[h].task \in Chunks
        BY <3>1 DEF ReadyCheck, HandlerInv
      <4> QED
        BY <1>5, <2>1, <3>1, <4>1 DEF ReadyCheck
    <3>2. CASE ~SubmitProof(h)
      <4>1. pc'[h] = pc[h] /\ loc'[h] = loc[h]
        BY <2>1, <3>2, OthersUntouched
      <4> QED
        BY <1>6, <4>1 DEF ReadyInv, HandlerInv
    <3> QED
      BY <2>2, <3>1, <3>2
  <2>4. PICK b \in Batches : b = BatchOf[loc[h].task] /\ b = BatchOf[loc'[h].task]
    BY <2>3
  <2> QED
    BY <2>3, <2>4, ProofsKept DEF BatchChange
<1>7. readyQ' # NoBatch => HasChunkProofs(readyQ)' /\ chunkProofs'[readyQ'] # "absent"
  <2>1. ASSUME NEW b \in Batches, readyQ' = b, chunkProofs[b] # "absent", HasChunkProofs(b)
        PROVE  HasChunkProofs(readyQ)' /\ chunkProofs'[readyQ'] # "absent"
    BY <2>1, ProofsKept DEF BatchChange
  <2>2. ASSUME NEW b \in Batches, BatchReadyScan(b)
        PROVE  HasChunkProofs(readyQ)' /\ chunkProofs'[readyQ'] # "absent"
    BY <1>5, <2>1, <2>2 DEF BatchReadyScan
  <2>3. CASE readyQ' = readyQ
    BY <2>1, <2>3 DEF ReadyInv, TypeOK
  <2>4. ASSUME NEW h \in Handlers, Assign(h) \/ SubmitProof(h) PROVE readyQ' = readyQ
    BY <2>4 DEF Assign, CheckParameter, GetAssigned, GetUnassigned, UpdateAttempts, AssignQueryFails,
                InsertProverTask, FormatProverTask, AssignFails, RecoverActiveAttempts,
                SubmitProof, HandleZkProof, VerifyProof, TxBegin, TxCheck, TxCommit, CloseFails,
                ReadyCheck, SetReady, cronVars
  <2>5. CASE Cron
    BY <2>2, <2>3, <2>5 DEF Cron, TimeoutScan, TimeoutCheck, TimeoutCheckFails, BatchReadyUpdate
  <2>6. CASE UNCHANGED vars \/ (\E b \in Batches : ProposeBatch(b)) \/ CrashApi \/ CrashCron
    BY <2>3, <2>6 DEF vars, ProposeBatch, CrashApi, CrashCron, cronVars
  <2> QED
    BY <2>3, <2>4, <2>5, <2>6 DEF Next
<1> QED
  BY <1>1, <1>2, <1>3, <1>4, <1>6, <1>7 DEF ReadyInv

-----------------------------------------------------------------------------
(* The theorems. *)

\* The invariant of one task row is the invariants of the module, row by row.
LEMMA RowInvariants ==
    ASSUME TypeOK
    PROVE  /\ AttemptsBounded /\ FailedIsExhausted /\ VerifiedHasProof
              => \A t \in Tasks : RowInv(task[t])
           /\ (\A t \in Tasks : RowInv(task[t])) => AttemptsBounded /\ FailedIsExhausted
  BY DEF AttemptsBounded, FailedIsExhausted, VerifiedHasProof, RowInv

\* The inductive invariant holds of the empty tables.
LEMMA InitIInv == Init => IInv
<1> SUFFICES ASSUME Init PROVE IInv
  OBVIOUS
<1> USE TaskAssumption, ConfigAssumption
<1>0. Rows = {} /\ \A t \in Tasks : RowsOf(t) = {}
  BY DEF Init, Rows, RowsOf
<1>1. TypeOK
  <2>1. task \in [Tasks -> TaskRow]
    BY DEF Init, TaskRow, ProvingStatus
  <2>2. proverTask \in Seq(ProverTaskRow)
    BY DEF Init
  <2>3. pc \in [Handlers -> PC]
    BY DEF Init, PC
  <2>4. loc \in [Handlers -> Locals]
    BY LocalsType DEF Init
  <2>5. timeoutQ \in [Kinds -> SUBSET Rows]
    BY DEF Init
  <2>6. chunkProofs \in [Batches -> ChunkProofsStatus] /\ readyQ \in Batches \cup {NoBatch}
    BY DEF Init, ChunkProofsStatus
  <2>7. faults \in 0..MaxFaults /\ crashes \in 0..MaxCrashes
    BY DEF Init
  <2> QED
    BY <2>1, <2>2, <2>3, <2>4, <2>5, <2>6, <2>7 DEF TypeOK
<1>2. \A h \in Handlers : HandlerInv(h)
  BY DEF Init, HandlerInv, NoLocals, submitPc, txPc
<1>3. LockInv
  BY DEF Init, LockInv, txPc
<1>4. AttemptsBounded /\ FailedIsExhausted
  BY DEF Init, AttemptsBounded, FailedIsExhausted
<1>5. VerifiedHasProof
  BY <1>0 DEF Init, VerifiedHasProof
<1>6. ReadyInv
  <2>1. \A b \in Batches : chunkProofs[b] = "absent" /\ task[b].total_attempts = 0
    BY DEF Init, Tasks
  <2>2. \A h \in Handlers : loc[h].task \notin Batches /\ pc[h] # "setReady"
    BY DEF Init, NoLocals, NoTask
  <2>3. readyQ = NoBatch
    BY DEF Init
  <2> QED
    BY <1>0, <2>1, <2>2, <2>3 DEF ReadyInv
<1> QED
  BY <1>1, <1>2, <1>3, <1>4, <1>5, <1>6 DEF IInv

\* Every step keeps the inductive invariant.
LEMMA IInvStep == IInv /\ [Next]_vars => IInv' /\ \A t \in Tasks : TaskChange(t)
<1> SUFFICES ASSUME IInv, [Next]_vars PROVE IInv' /\ \A t \in Tasks : TaskChange(t)
  OBVIOUS
<1>1. /\ TypeOK /\ LockInv /\ VerifiedHasProof /\ ReadyInv
      /\ \A h \in Handlers : HandlerInv(h)
      /\ \A t \in Tasks : RowInv(task[t])
  BY RowInvariants DEF IInv
<1>2. TypeOK'
  BY <1>1, TypeStep
<1>3. \A t \in Tasks : TaskChange(t)
  BY <1>1, TaskStep
<1>4. RowsChange
  BY <1>1, RowsStep
<1>5. \A h \in Handlers : HandlerInv(h)'
  BY <1>1, <1>3, <1>4, HandlerStep
<1>6. LockInv'
  BY <1>1, LockStep
<1>7. (AttemptsBounded /\ FailedIsExhausted)'
  BY <1>3 DEF TaskChange, RowStep, RowInv, AttemptsBounded, FailedIsExhausted
<1>8. VerifiedHasProof'
  BY <1>1, <1>2, <1>3, <1>4, VerifiedStep
<1>9. ReadyInv'
  <2>1. \A b \in Batches : BatchChange(b)
    BY <1>1, BatchStep
  <2> QED
    BY <1>1, <1>2, <1>3, <1>4, <2>1, ReadyStep
<1> QED
  BY <1>2, <1>3, <1>5, <1>6, <1>7, <1>8, <1>9 DEF IInv

\* The inductive invariant holds of every reachable state.
THEOREM IInvHolds == Spec => []IInv
  BY InitIInv, IInvStep, PTL DEF Spec

\* The tables, goroutines and cron loops keep their types.
THEOREM TypeCorrect == Spec => []TypeOK
  BY IInvHolds, PTL DEF IInv

\* However many handlers, timeouts and recoveries interleave, the attempt
\* counters stay within the configured limits.
THEOREM AttemptsAreBounded == Spec => []AttemptsBounded
  BY IInvHolds, PTL DEF IInv

\* Verified tasks and valid prover tasks have a proof of their own task.
THEOREM VerifiedTasksHaveProofs == Spec => []VerifiedHasProof
  BY IInvHolds, PTL DEF IInv

\* Only exhausted tasks are given up.
THEOREM FailedTasksAreExhausted == Spec => []FailedIsExhausted
  BY IInvHolds, PTL DEF IInv

\* A batch is handed out only with the proofs of all its chunks stored.
THEOREM BatchesWaitForChunks == Spec => []BatchWaitsForChunks
<1>1. IInv => BatchWaitsForChunks
  BY DEF IInv, ReadyInv, BatchWaitsForChunks
<1> QED
  BY <1>1, IInvHolds, PTL

\* A task given up is never handed out again.
THEOREM FailedTasksStayFailed == Spec => FailedIsFinal
<1>1. IInv /\ [Next]_vars
      => [\A t \in Tasks : task[t].proving_status = "Failed"
                            => task'[t].proving_status \in {"Failed", "Verified"}]_vars
  BY IInvStep DEF TaskChange, RowStep
<1> QED
  BY <1>1, IInvHolds, PTL DEF Spec, FailedIsFinal

=============================================================================
