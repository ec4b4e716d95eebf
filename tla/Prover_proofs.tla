---------------------------- MODULE Prover_proofs ---------------------------
(***************************************************************************)
(* What holds of the prover client for every set of tasks and any number   *)
(* of rows, repetitions and faults.                                        *)
(***************************************************************************)
EXTENDS Prover, TLAPS

\* the time the SMT solver has for a step, in seconds
USE SMTT(20)

-----------------------------------------------------------------------------
(* The inductive invariant *)

\* the rows handed out are there, and the client and late requests name them
RowsExist ==
    /\ \A u \in Rows : u <= issued => rows[u] # None
    /\ \A t \in OnStack : stack[t].uuid <= issued /\ rows[stack[t].uuid].task = t
    /\ \A r \in late : r.call = "submit_proof" => r.uuid \in Rows /\ r.uuid <= issued

\* where the loop may be, and what is on the stack there
Positions ==
    /\ relogin # "no" => pc \in {"start", "get_task", "submit_proof"}
    /\ pc = "start" => relogin # "no"
    /\ pc \in {"get_task", "push"} => OnStack = {}
    /\ pc = "push" => /\ task # None /\ task.uuid <= issued /\ runs[task.uuid] = 0
                      /\ rows[task.uuid].task = task.id
    /\ pc \notin {"down", "start"} => token # "none"
    /\ pc = "submit_proof" => report \in Report

\* the attempts on disk are never fewer than the proving runs, and while a
\* run is about to begin there is one more
RunsCounted ==
    /\ \A u \in Rows : u > issued => runs[u] = 0
    /\ \A t \in OnStack : runs[stack[t].uuid] <= stack[t].times
    /\ pc = "prove" => runs[task.uuid] < task.times

IInv == TypeOK /\ WorksOnItsTask /\ RowsExist /\ Positions /\ RunsCounted /\ ProvenAtMostThrice

-----------------------------------------------------------------------------
(* The coordinator's side *)

\* the part of the invariant that is the coordinator's
ServerOK ==
    /\ rows \in [Rows -> Row \cup {None}]
    /\ issued \in 0 .. MaxRows
    /\ challengeUsed \in BOOLEAN
    /\ verified \subseteq Tasks
    /\ dbDown \in BOOLEAN
    /\ \A u \in Rows : u <= issued => rows[u] # None

\* a row keeps its task
TasksKept ==
    /\ issued <= issued'
    /\ \A u \in Rows : u <= issued => rows'[u].task = rows[u].task

\* Rows that do not change keep their tasks.
LEMMA RowsUnchanged == ASSUME ServerOK, UNCHANGED <<rows, issued>> PROVE TasksKept
  BY DEF ServerOK, TasksKept

\* Closing a row that exists changes no other row.
LEMMA CloseRowOK ==
    ASSUME ServerOK, NEW u \in Rows, u <= issued, NEW status \in {"valid", "invalid"},
           CloseRow(u, status)
    PROVE  /\ rows' \in [Rows -> Row \cup {None}]
           /\ \A v \in Rows : v <= issued => rows'[v] # None
           /\ \A v \in Rows : v <= issued => rows'[v].task = rows[v].task
  <1>1. rows[u] \in Row
    BY DEF ServerOK
  <1>2. [rows[u] EXCEPT !.status = status] \in Row
    BY <1>1 DEF Row
  <1>3. rows' = [rows EXCEPT ![u] = [rows[u] EXCEPT !.status = status]]
    BY DEF CloseRow, ServerOK
  <1>. QED  BY <1>2, <1>3, NoneAssumption DEF ServerOK

\* submit_proof changes the row it names and hands out none.
LEMMA SubmitProofOK ==
    ASSUME ServerOK, NEW u \in Rows, u <= issued, NEW auth, NEW what, NEW answer,
           SubmitProof(auth, u, what, answer)
    PROVE  ServerOK' /\ TasksKept /\ issued' = issued
  <1>0. rows[u] \in Row
    BY DEF ServerOK
  <1>1. CASE UNCHANGED server
    BY <1>1, RowsUnchanged DEF ServerOK, server
  <1>2. CASE HandleZkProof(u, what, answer)
    <2>1. CASE UNCHANGED <<rows, verified>>
      BY <1>2, <2>1, RowsUnchanged DEF HandleZkProof, ServerOK
    <2>2. CASE CloseRow(u, "invalid") /\ UNCHANGED verified
      BY <1>2, <2>2, CloseRowOK DEF HandleZkProof, ServerOK, TasksKept
    <2>3. ASSUME NEW status \in {"valid", "invalid"}, StoreProof(u, status)
          PROVE  ServerOK' /\ TasksKept /\ issued' = issued
      <3>1. rows[u].task \in Tasks
        BY <1>0 DEF Row
      <3>. QED  BY <1>2, <2>3, <3>1, CloseRowOK DEF StoreProof, HandleZkProof, ServerOK, TasksKept
    <2>. QED  BY <1>2, <2>1, <2>2, <2>3 DEF HandleZkProof
  <1>. QED  BY <1>1, <1>2 DEF SubmitProof

\* get_task hands out one row, with its task, or none.
LEMMA GetTasksOK ==
    ASSUME ServerOK, NEW auth, NEW answer, GetTasks(auth, answer)
    PROVE  /\ ServerOK' /\ TasksKept
           /\ \/ issued' = issued /\ answer # "success"
              \/ issued' = issued + 1 /\ issued' \in Rows /\ rows'[issued'].task \in Tasks
  <1>1. CASE UNCHANGED server /\ answer # "success"
    BY <1>1, RowsUnchanged DEF ServerOK, server
  <1>2. CASE Assign(answer)
    <2>1. PICK t \in Tasks : rows' = [rows EXCEPT ![issued + 1] = [task |-> t, status |-> "assigned"]]
      BY <1>2, Zenon DEF Assign
    <2>2. [task |-> t, status |-> "assigned"] \in Row
      BY DEF Row
    <2>3. issued + 1 \in Rows /\ issued' = issued + 1
      BY <1>2, ProverAssumption DEF Assign, ServerOK, Rows
    <2>4. rows' \in [Rows -> Row \cup {None}] /\ rows'[issued + 1] = [task |-> t, status |-> "assigned"]
      BY <2>1, <2>2, <2>3 DEF ServerOK
    <2>5. \A u \in Rows : u <= issued' => rows'[u] # None
      BY <2>1, <2>2, <2>3, <2>4, NoneAssumption DEF ServerOK, Rows
    <2>. QED  BY <1>2, <2>2, <2>3, <2>4, <2>5, ProverAssumption DEF Assign, ServerOK, Rows, TasksKept
  <1>. QED  BY <1>1, <1>2 DEF GetTasks, Unauthorized

\* Neither the challenge nor the login touches the rows.
LEMMA LoginOK ==
    ASSUME ServerOK, NEW answer, LoginResponse(answer) \/ Login(answer)
    PROVE  ServerOK' /\ TasksKept /\ issued' = issued
  BY RowsUnchanged, Zenon DEF ServerOK, LoginResponse, Login, InsertChallenge

-----------------------------------------------------------------------------
(* The client's side *)

\* the types of what a request may change besides the position of the loop
SessionOK ==
    /\ tries \in 0 .. RetryCount
    /\ token \in {"none", "challenge", "login", "expired"}
    /\ late \subseteq Request
    /\ \A r \in late : r.call = "submit_proof" => r.uuid \in Rows /\ r.uuid <= issued
    /\ faults \in 0 .. MaxFaults

\* The invariant gives the parts the lemmas are about.
LEMMA Parts == IInv => ServerOK /\ SessionOK
  BY DEF IInv, TypeOK, RowsExist, ServerOK, SessionOK

\* Rows are handed out and never taken back.
LEMMA LateStays ==
    ASSUME SessionOK, ServerOK, ServerOK', TasksKept, late' = late
    PROVE  /\ late' \subseteq Request
           /\ \A r \in late' : r.call = "submit_proof" => r.uuid \in Rows /\ r.uuid <= issued'
  BY DEF SessionOK, ServerOK, Rows, TasksKept

\* The key UpdateTimes writes to is the key of the only task.
LEMMA LastIsOnly ==
    ASSUME WorksOnItsTask, NEW t \in OnStack
    PROVE  Last(OnStack) = t
  <1>1. t \in Int /\ OnStack = {t}
    BY ProverAssumption DEF WorksOnItsTask, OnStack
  <1>2. \A other \in OnStack : other <= t
    BY <1>1
  <1>. QED  BY <1>1, <1>2 DEF Last

\* While the loop works on a task, the task is on the stack.
LEMMA TaskOnStack ==
    ASSUME IInv, pc \in {"update", "prove", "submit_proof"}
    PROVE  /\ task \in ProvingTask /\ task.id \in OnStack
           /\ stack[task.id] = task /\ OnStack = {task.id}
           /\ task.id \in Tasks /\ task.uuid \in Rows /\ task.uuid <= issued
  <1>1. PICK t \in OnStack : task = stack[t]
    BY DEF IInv, WorksOnItsTask
  <1>2. task \in ProvingTask /\ stack[t].id = t /\ t \in Tasks /\ stack[t].uuid <= issued
    BY <1>1 DEF IInv, TypeOK, OnStack, WorksOnItsTask, RowsExist
  <1>3. OnStack = {t}
    BY DEF IInv, WorksOnItsTask
  <1>. QED  BY <1>1, <1>2, <1>3 DEF ProvingTask

\* The loop starts over, or the process ends: whatever was deleted, the
\* invariant holds.
LEMMA Resting ==
    ASSUME IInv, ServerOK', SessionOK', TasksKept,
           pc' \in {"peek", "down"}, relogin' = "no",
           task' \in ProvingTask \cup {None}, report' \in Report \cup {"none"},
           proofType' = proofType, runs' = runs,
           pc' = "peek" => token' # "none",
           stack' = stack \/ \E id \in Tasks : Delete(id)
    PROVE  IInv'
  <1>1. stack' \in [Tasks -> ProvingTask \cup {None}]
    BY DEF IInv, TypeOK, Delete
  <1>2. OnStack' \subseteq OnStack /\ \A t \in OnStack' : stack'[t] = stack[t]
    BY <1>1 DEF IInv, TypeOK, Delete, OnStack
  <1>3. TypeOK'
    BY <1>1 DEF IInv, TypeOK, ServerOK, SessionOK
  <1>4. WorksOnItsTask'
    BY <1>2 DEF IInv, WorksOnItsTask
  <1>5. \A t \in OnStack : stack[t].uuid \in Rows
    BY DEF IInv, TypeOK, OnStack, ProvingTask
  <1>6. RowsExist'
    <2>1. \A t \in OnStack : stack[t].uuid <= issued' /\ rows'[stack[t].uuid].task = t
      BY <1>5 DEF IInv, RowsExist, TypeOK, ServerOK, TasksKept, Rows
    <2>. QED  BY <1>2, <2>1 DEF RowsExist, ServerOK, SessionOK
  <1>7. Positions'
    BY DEF Positions
  <1>8. RunsCounted' /\ ProvenAtMostThrice'
    BY <1>2 DEF IInv, TypeOK, RunsCounted, ProvenAtMostThrice, ServerOK, Rows, TasksKept
  <1>. QED  BY <1>3, <1>4, <1>6, <1>7, <1>8 DEF IInv

\* The loop stays where it is while a request, a late request or the session
\* moves on.
LEMMA Staying ==
    ASSUME IInv, ServerOK', SessionOK', TasksKept,
           UNCHANGED <<proofType, pc, task, report, stack, runs>>,
           relogin' \in {"no", "challenge", "login"},
           relogin' # "no" => pc \in {"start", "get_task", "submit_proof"},
           pc = "start" => relogin' # "no",
           pc \notin {"down", "start"} => token' # "none"
    PROVE  IInv'
  <1>1. OnStack' = OnStack
    BY DEF OnStack
  <1>2. TypeOK'
    BY DEF IInv, TypeOK, ServerOK, SessionOK
  <1>3. WorksOnItsTask'
    BY <1>1 DEF IInv, WorksOnItsTask
  <1>4. \A t \in OnStack : stack[t].uuid \in Rows
    BY DEF IInv, TypeOK, OnStack, ProvingTask
  <1>5. RowsExist'
    <2>1. \A t \in OnStack : stack[t].uuid <= issued' /\ rows'[stack[t].uuid].task = t
      <3>1. issued \in Int /\ issued' \in Int /\ issued <= issued'
        BY DEF IInv, TypeOK, ServerOK, TasksKept
      <3>. TAKE t \in OnStack
      <3>2. stack[t].uuid \in Rows /\ stack[t].uuid <= issued /\ rows[stack[t].uuid].task = t
        BY <1>4, Zenon DEF IInv, RowsExist
      <3>3. rows'[stack[t].uuid].task = t
        BY <3>2, Zenon DEF TasksKept
      <3>4. stack[t].uuid \in Int
        BY <3>2 DEF Rows
      <3>. QED  BY <3>1, <3>2, <3>3, <3>4
    <2>. QED  BY <1>1, <2>1 DEF RowsExist, ServerOK, SessionOK
  <1>6. Positions'
    <2>1. CASE pc = "push"
      <3>1. task.uuid \in Rows
        BY <2>1 DEF IInv, TypeOK, Positions, ProvingTask
      <3>. QED  BY <1>1, <2>1, <3>1 DEF IInv, TypeOK, Positions, ServerOK, Rows, TasksKept
    <2>2. CASE pc # "push"
      BY <1>1, <2>2 DEF IInv, Positions
    <2>. QED  BY <2>1, <2>2
  <1>7. RunsCounted' /\ ProvenAtMostThrice'
    BY <1>1 DEF IInv, TypeOK, RunsCounted, ProvenAtMostThrice, ServerOK, Rows, TasksKept
  <1>. QED  BY <1>2, <1>3, <1>5, <1>6, <1>7 DEF IInv

-----------------------------------------------------------------------------
(* The steps *)

\* The initial state has an empty stack and no rows.
LEMMA InitIInv == Init => IInv
  <1>. SUFFICES ASSUME Init PROVE IInv
    OBVIOUS
  <1>1. OnStack = {}
    BY DEF Init, OnStack
  <1>2. TypeOK
    <2>1. challengeUsed \in BOOLEAN /\ dbDown \in BOOLEAN
      BY Zenon DEF Init
    <2>2. tries \in 0 .. RetryCount /\ issued \in 0 .. MaxRows /\ faults \in 0 .. MaxFaults /\ runs \in [Rows -> Nat]
      BY ProverAssumption DEF Init
    <2>3. /\ stack \in [Tasks -> ProvingTask \cup {None}]
          /\ rows \in [Rows -> Row \cup {None}]
          /\ verified \subseteq Tasks /\ late \subseteq Request
      BY DEF Init
    <2>4. /\ proofType \in {"chunk", "batch"} /\ pc = "down" /\ relogin = "no" /\ token = "none"
          /\ task \in ProvingTask \cup {None} /\ report \in Report \cup {"none"}
      BY DEF Init
    <2>. QED  BY <2>1, <2>2, <2>3, <2>4 DEF TypeOK
  <1>3. WorksOnItsTask
    BY <1>1 DEF Init, WorksOnItsTask
  <1>4. RowsExist /\ Positions /\ RunsCounted /\ ProvenAtMostThrice
    BY <1>1 DEF Init, RowsExist, Positions, RunsCounted, ProvenAtMostThrice, Rows
  <1>. QED  BY <1>2, <1>3, <1>4 DEF IInv

\* There are at most MaxFaults faults.
LEMMA FaultsOK == ASSUME IInv, NEW n \in Nat, Faults(n) PROVE faults' \in 0 .. MaxFaults
  BY ProverAssumption DEF IInv, TypeOK, Faults

\* One fault is such a number.
LEMMA FaultOK == IInv /\ Fault => faults' \in 0 .. MaxFaults
  BY FaultsOK DEF Fault

\* A task is deleted, or stays for a fault.
LEMMA RemovedOK ==
    ASSUME IInv, NEW n \in Nat, Removed(n), task.id \in Tasks
    PROVE  faults' \in 0 .. MaxFaults /\ (stack' = stack \/ \E id \in Tasks : Delete(id))
  <1>1. n + 1 \in Nat
    OBVIOUS
  <1>. QED  BY <1>1, FaultsOK, Zenon DEF Removed

\* A step that leaves the coordinator and the late requests alone.
LEMMA LocalStep ==
    ASSUME IInv, UNCHANGED <<server, late>>, tries' \in 0 .. RetryCount,
           token' \in {"none", "challenge", "login", "expired"}, faults' \in 0 .. MaxFaults
    PROVE  ServerOK' /\ SessionOK' /\ TasksKept
  <1>1. ServerOK' /\ TasksKept
    BY Parts, RowsUnchanged DEF server, ServerOK
  <1>. QED  BY <1>1, Parts, LateStays DEF SessionOK

\* Starting the process keeps the invariant.
LEMMA NewProverStep == IInv /\ NewProver => IInv'
  <1>. SUFFICES ASSUME IInv, NewProver PROVE IInv'
    OBVIOUS
  <1>1. ServerOK' /\ SessionOK' /\ TasksKept
    BY LocalStep DEF NewProver, IInv, TypeOK
  <1>2. OnStack' = OnStack
    BY DEF NewProver, OnStack
  <1>3. TypeOK'
    BY DEF NewProver, IInv, TypeOK, server
  <1>4. WorksOnItsTask' /\ RowsExist'
    BY <1>2 DEF NewProver, server, IInv, WorksOnItsTask, RowsExist
  <1>5. Positions' /\ RunsCounted' /\ ProvenAtMostThrice'
    BY <1>2 DEF NewProver, server, IInv, Positions, RunsCounted, ProvenAtMostThrice
  <1>. QED  BY <1>3, <1>4, <1>5 DEF IInv

\* Peeking takes the only task, or asks for one when there is none.
LEMMA PeekTaskStep == IInv /\ PeekTask => IInv'
  <1>. SUFFICES ASSUME IInv, PeekTask PROVE IInv'
    OBVIOUS
  <1>0. relogin = "no" /\ pc = "peek"
    BY DEF PeekTask, IInv, Positions
  <1>1. CASE Loop /\ UNCHANGED stack /\ Fault
    <2>1. ServerOK' /\ SessionOK' /\ TasksKept
      BY <1>1, LocalStep, FaultOK, ProverAssumption DEF PeekTask, Loop, IInv, TypeOK
    <2>. QED  BY <1>1, <2>1, Resting DEF PeekTask, Loop, IInv, Positions
  <1>2. CASE OnStack = {} /\ pc' = "get_task" /\ UNCHANGED <<relogin, tries, task, report, faults>>
    <2>1. OnStack' = {}
      BY <1>2 DEF PeekTask, OnStack
    <2>2. TypeOK'
      BY <1>2 DEF PeekTask, IInv, TypeOK, server
    <2>. QED  BY <1>0, <1>2, <2>1, <2>2 DEF PeekTask, server, IInv, WorksOnItsTask, RowsExist, Positions,
                                   RunsCounted, ProvenAtMostThrice
  <1>3. CASE /\ OnStack # {} /\ task' = Peek /\ pc' = "update"
             /\ UNCHANGED <<relogin, tries, report, faults>>
    <2>1. PICK t \in OnStack : TRUE
      BY <1>3
    <2>2. task' = stack[t]
      BY <1>3, LastIsOnly DEF Peek, IInv
    <2>3. OnStack' = OnStack /\ stack[t] \in ProvingTask
      BY DEF PeekTask, OnStack, IInv, TypeOK
    <2>4. TypeOK'
      BY <1>3, <2>2, <2>3 DEF PeekTask, IInv, TypeOK, server
    <2>. QED  BY <1>0, <1>3, <2>2, <2>3, <2>4 DEF PeekTask, server, IInv, WorksOnItsTask, RowsExist, Positions,
                                   RunsCounted, ProvenAtMostThrice
  <1>. QED  BY <1>1, <1>2, <1>3 DEF PeekTask, FetchTaskFromCoordinator, GetLatestConfirmedBlockNumber

\* The task pushed onto the empty stack has never been proved.
LEMMA PushTaskStep == IInv /\ PushTask => IInv'
  <1>. SUFFICES ASSUME IInv, PushTask PROVE IInv'
    OBVIOUS
  <1>1. CASE Loop /\ UNCHANGED stack /\ Fault
    <2>1. ServerOK' /\ SessionOK' /\ TasksKept
      BY <1>1, LocalStep, FaultOK, ProverAssumption DEF PushTask, Loop, IInv, TypeOK
    <2>. QED  BY <1>1, <2>1, Resting DEF PushTask, Loop, IInv, Positions
  <1>2. CASE Push(task) /\ pc' = "update" /\ UNCHANGED <<relogin, tries, task, report, faults>>
    <2>1. /\ OnStack = {} /\ task \in ProvingTask /\ task # None
          /\ task.uuid <= issued /\ runs[task.uuid] = 0 /\ relogin = "no"
      BY Zenon DEF PushTask, IInv, TypeOK, Positions
    <2>2. task.id \in Tasks /\ task.uuid \in Rows /\ task.times \in Nat
      BY <2>1 DEF ProvingTask, Times
    <2>3. OnStack' = {task.id} /\ stack'[task.id] = task
      BY <1>2, <2>1, <2>2 DEF Push, OnStack, IInv, TypeOK
    <2>4. TypeOK'
      BY <1>2, <2>1, <2>2 DEF PushTask, Push, IInv, TypeOK, server
    <2>5. WorksOnItsTask' /\ Positions' /\ ProvenAtMostThrice'
      BY <1>2, <2>1, <2>3, Zenon DEF PushTask, IInv, WorksOnItsTask, Positions, ProvenAtMostThrice
    <2>6. RowsExist' /\ RunsCounted'
      <3>1. rows[task.uuid].task = task.id
        BY DEF PushTask, IInv, Positions
      <3>2. UNCHANGED <<rows, issued, late, runs>>
        BY <1>2, Zenon DEF PushTask, server
      <3>3. runs[task.uuid] <= task.times
        BY <2>1, <2>2
      <3>4. RowsExist'
        BY <2>1, <2>3, <3>1, <3>2, Zenon DEF IInv, RowsExist
      <3>5. pc' # "prove"
        BY <1>2
      <3>6. RunsCounted'
        BY <2>3, <3>2, <3>3, <3>5, Zenon DEF IInv, RunsCounted
      <3>. QED  BY <3>4, <3>6
    <2>. QED  BY <2>4, <2>5, <2>6 DEF IInv
  <1>. QED  BY <1>1, <1>2 DEF PushTask

\* The attempt goes to the key of the task, and is one more than the runs.
LEMMA UpdateTaskStep == IInv /\ UpdateTask => IInv'
  <1>. SUFFICES ASSUME IInv, UpdateTask PROVE IInv'
    OBVIOUS
  <1>1. CASE Loop /\ UNCHANGED stack /\ Fault
    <2>1. ServerOK' /\ SessionOK' /\ TasksKept
      BY <1>1, LocalStep, FaultOK, ProverAssumption DEF UpdateTask, Loop, IInv, TypeOK
    <2>. QED  BY <1>1, <2>1, Resting DEF UpdateTask, Loop, IInv, Positions
  <1>2. CASE /\ task' = [task EXCEPT !.times = @ + 1] /\ UpdateTimes(task')
             /\ pc' = "prove" /\ UNCHANGED <<relogin, tries, report, faults>>
    <2>1. /\ task \in ProvingTask /\ task.id \in OnStack
          /\ stack[task.id] = task /\ OnStack = {task.id}
          /\ task.id \in Tasks /\ task.uuid \in Rows /\ task.uuid <= issued
      BY TaskOnStack DEF UpdateTask
    <2>2. task.times \in 0 .. 2
      BY <2>1 DEF UpdateTask, ProvingTask, Times
    <2>3. /\ task' \in ProvingTask /\ task' # None /\ task'.id = task.id /\ task'.uuid = task.uuid
          /\ task'.times = task.times + 1
      BY <1>2, <2>1, <2>2, NoneAssumption DEF ProvingTask, Times
    <2>4. stack' = [stack EXCEPT ![task.id] = task']
      BY <1>2, <2>1, LastIsOnly, Zenon DEF UpdateTimes, IInv
    <2>5. OnStack' = {task.id} /\ stack'[task.id] = task' /\ stack' \in [Tasks -> ProvingTask \cup {None}]
      BY <2>1, <2>3, <2>4 DEF OnStack, IInv, TypeOK
    <2>6. TypeOK'
      BY <1>2, <2>3, <2>5 DEF UpdateTask, IInv, TypeOK, server
    <2>7. WorksOnItsTask' /\ ProvenAtMostThrice'
      BY <1>2, <2>3, <2>5, Zenon DEF UpdateTask, IInv, WorksOnItsTask, ProvenAtMostThrice
    <2>8. Positions'
      BY <1>2 DEF UpdateTask, IInv, Positions
    <2>9. runs[task.uuid] \in Nat /\ runs[task.uuid] <= task.times
      BY <2>1 DEF IInv, TypeOK, RunsCounted
    <2>10. RowsExist'
      <3>1. rows[task.uuid].task = task.id
        BY <2>1 DEF IInv, RowsExist
      <3>. QED  BY <1>2, <2>1, <2>3, <2>5, <3>1, Zenon DEF UpdateTask, server, IInv, RowsExist
    <2>11. runs[task.uuid] <= task'.times /\ runs[task.uuid] < task'.times
      BY <2>2, <2>3, <2>9
    <2>12. RunsCounted'
      BY <1>2, <2>3, <2>5, <2>11, Zenon DEF UpdateTask, server, IInv, RunsCounted
    <2>. QED  BY <2>6, <2>7, <2>8, <2>10, <2>12 DEF IInv
  <1>. QED  BY <1>1, <1>2 DEF UpdateTask

\* Giving a task up changes nothing but the report.
LEMMA ReportPanicStep == IInv /\ ReportPanic => IInv'
  <1>. SUFFICES ASSUME IInv, ReportPanic PROVE IInv'
    OBVIOUS
  <1>1. OnStack' = OnStack
    BY DEF ReportPanic, OnStack
  <1>2. TypeOK'
    BY DEF ReportPanic, IInv, TypeOK, server, Report
  <1>. QED  BY <1>1, <1>2 DEF ReportPanic, server, IInv, WorksOnItsTask, RowsExist, Positions,
                             RunsCounted, ProvenAtMostThrice, Report

\* A proving run was counted on disk before it began.
LEMMA ProveStep == IInv /\ Prove => IInv'
  <1>. SUFFICES ASSUME IInv, Prove PROVE IInv'
    OBVIOUS
  <1>1. /\ task \in ProvingTask /\ task.id \in OnStack
        /\ stack[task.id] = task /\ OnStack = {task.id}
        /\ task.id \in Tasks /\ task.uuid \in Rows /\ task.uuid <= issued
    BY TaskOnStack DEF Prove
  <1>2. runs[task.uuid] \in Nat /\ runs[task.uuid] < task.times /\ task.times \in 0 .. 3
    BY <1>1 DEF Prove, IInv, TypeOK, RunsCounted, ProvingTask, Times
  <1>3. runs' \in [Rows -> Nat] /\ runs'[task.uuid] = runs[task.uuid] + 1
        /\ \A u \in Rows : u # task.uuid => runs'[u] = runs[u]
    BY <1>1, <1>2 DEF Prove, IInv, TypeOK
  <1>4. OnStack' = OnStack
    BY DEF Prove, OnStack
  <1>5. ProvenAtMostThrice' /\ RunsCounted'
    <2>1. \A u \in Rows : u > issued' => runs'[u] = 0
      BY <1>1, <1>3 DEF Prove, server, IInv, TypeOK, RunsCounted, Rows
    <2>2. \A t \in OnStack' : runs'[stack'[t].uuid] <= stack'[t].times
      BY <1>1, <1>2, <1>3, <1>4 DEF Prove
    <2>3. pc' # "prove"
      BY DEF Prove
    <2>. QED  BY <1>2, <1>3, <2>1, <2>2, <2>3 DEF IInv, RunsCounted, ProvenAtMostThrice
  <1>6. PICK outcome \in {"proof", "error", "panic"} :
          \/ /\ outcome # "panic"
             /\ pc' = "submit_proof" /\ report' = outcome /\ UNCHANGED <<relogin, tries, token, task>>
          \/ /\ outcome = "panic"
             /\ pc' = "down" /\ token' = "none" /\ task' = None /\ UNCHANGED <<relogin, tries, report>>
    BY DEF Prove, ProveChunk, ProveBatch, GenProof
  <1>7. TypeOK'
    BY <1>3, <1>6 DEF Prove, IInv, TypeOK, server, Report
  <1>8. WorksOnItsTask' /\ RowsExist' /\ Positions'
    BY <1>1, <1>4, <1>6, Zenon DEF Prove, server, IInv, WorksOnItsTask, RowsExist, Positions, Report
  <1>. QED  BY <1>5, <1>7, <1>8 DEF IInv

\* A handler leaves the coordinator's part in order; only get_task hands out
\* a row, and its answer says so.
LEMMA HandleOK ==
    ASSUME IInv, Calling, NEW answer, Handle(answer)
    PROVE  /\ ServerOK' /\ TasksKept
           /\ (relogin = "no" /\ pc = "get_task" /\ answer = "success")
              => issued' = issued + 1 /\ issued' \in Rows /\ rows'[issued'].task \in Tasks
  <1>0. ServerOK /\ issued \in Nat /\ relogin \in {"no", "challenge", "login"}
    BY Parts DEF ServerOK, IInv, TypeOK
  <1>1. CASE relogin # "no"
    <2>1. LoginResponse(answer) \/ Login(answer)
      BY <1>0, <1>1 DEF Handle
    <2>. QED  BY <1>0, <1>1, <2>1, LoginOK
  <1>2. CASE relogin = "no" /\ pc = "get_task"
    <2>1. GetTasks(token, answer)
      BY <1>2 DEF Handle
    <2>. QED  BY <1>0, <2>1, GetTasksOK
  <1>3. CASE relogin = "no" /\ pc = "submit_proof"
    <2>1. SubmitProof(token, task.uuid, report, answer)
      BY <1>3 DEF Handle
    <2>2. task.uuid \in Rows /\ task.uuid <= issued
      BY <1>3, TaskOnStack
    <2>. QED  BY <1>0, <1>3, <2>1, <2>2, SubmitProofOK
  <1>. QED  BY <1>1, <1>2, <1>3 DEF Calling

\* A call that fails ends in a restart of the loop or of the process.
LEMMA CallFailsStep ==
    ASSUME IInv, Calling, ServerOK', SessionOK', TasksKept, NEW n \in Nat, CallFails(n),
           proofType' = proofType, runs' = runs, token' = token
    PROVE  IInv'
  <1>1. pc \in {"start", "get_task", "submit_proof"}
    BY DEF Calling, IInv, Positions
  <1>2. CASE pc # "submit_proof"
    <2>1. /\ pc' \in {"peek", "down"} /\ relogin' = "no" /\ stack' = stack
          /\ task' \in {task, None} /\ report' \in {report, "none"}
      BY <1>1, <1>2, Zenon DEF CallFails, Loop
    <2>2. task' \in ProvingTask \cup {None} /\ report' \in Report \cup {"none"}
      BY <2>1 DEF IInv, TypeOK
    <2>3. pc' = "peek" => token' # "none"
      BY <1>1, <1>2, Zenon DEF CallFails, IInv, Positions
    <2>. QED  BY <2>1, <2>2, <2>3, Resting
  <1>3. CASE pc = "submit_proof"
    <2>1. SubmissionFails(n)
      BY <1>3 DEF CallFails
    <2>2. task.id \in Tasks
      BY <1>3, TaskOnStack
    <2>3. stack' = stack \/ \E id \in Tasks : Delete(id)
      BY <2>1, <2>2, RemovedOK, Zenon DEF SubmissionFails
    <2>4. token' # "none"
      BY <1>3 DEF IInv, Positions
    <2>. QED  BY <2>1, <2>3, <2>4, Resting DEF SubmissionFails, Loop
  <1>. QED  BY <1>1, <1>2, <1>3

\* It ends the call, with no more faults than there may be.
LEMMA CallFailsEnds ==
    ASSUME IInv, Calling, NEW n \in Nat, CallFails(n)
    PROVE  tries' = 0 /\ faults' \in 0 .. MaxFaults
  <1>1. pc \in {"start", "get_task", "submit_proof"}
    BY DEF Calling, IInv, Positions
  <1>2. CASE pc # "submit_proof"
    BY <1>1, <1>2, FaultsOK, Zenon DEF CallFails, Loop
  <1>3. CASE pc = "submit_proof"
    <2>1. SubmissionFails(n) /\ task.id \in Tasks
      BY <1>3, TaskOnStack DEF CallFails
    <2>. QED  BY <2>1, FaultsOK, RemovedOK, Zenon DEF SubmissionFails, Loop
  <1>. QED  BY <1>1, <1>2, <1>3

\* A request and its answer.
LEMMA ExchangeStep == IInv /\ Exchange => IInv'
  <1>. SUFFICES ASSUME IInv, Exchange PROVE IInv'
    OBVIOUS
  <1>1. PICK answer \in Answers :
          /\ Handle(answer)
          /\ ReceiveChallenge(answer) \/ ReceiveLogin(answer) \/ ReceiveTask(answer) \/ ReceiveVerdict(answer)
    BY DEF Exchange
  <1>2. /\ Calling /\ late' = late /\ proofType' = proofType /\ runs' = runs
        /\ ServerOK' /\ TasksKept /\ ServerOK /\ SessionOK
    BY <1>1, HandleOK, Parts DEF Exchange
  <1>3. pc \in {"start", "get_task", "submit_proof"}
    BY <1>2 DEF Calling, IInv, Positions
  <1>4. ASSUME tries' \in 0 .. RetryCount, token' \in {"none", "challenge", "login", "expired"},
               faults' \in 0 .. MaxFaults
        PROVE  SessionOK'
    BY <1>2, <1>4, LateStays DEF SessionOK
  <1>5. tries \in 0 .. RetryCount /\ 0 \in 0 .. RetryCount /\ faults \in 0 .. MaxFaults
    BY <1>2, ProverAssumption DEF SessionOK
  <1>6. CASE ReceiveChallenge(answer) \/ (relogin = "no" /\ pc # "start" /\ Relogin)
    <2>1. SessionOK'
      BY <1>2, <1>4, <1>5, <1>6 DEF ReceiveChallenge, Relogin, SessionOK
    <2>2. pc # "start" => token' # "none"
      BY <1>3, <1>6 DEF ReceiveChallenge, Relogin, IInv, Positions
    <2>. QED  BY <1>2, <1>3, <1>6, <2>1, <2>2, Staying DEF ReceiveChallenge, Relogin
  <1>7. CASE ReceiveLogin(answer)
    <2>1. CASE answer = "failure" /\ CallFails(0) /\ UNCHANGED token
      <3>1. tries' = 0 /\ faults' \in 0 .. MaxFaults
        BY <1>2, <2>1, CallFailsEnds
      <3>2. SessionOK'
        BY <1>2, <1>4, <1>5, <1>7, <2>1, <3>1 DEF ReceiveLogin, SessionOK
      <3>. QED  BY <1>2, <2>1, <3>2, CallFailsStep
    <2>2. CASE /\ token' = "login" /\ relogin' = "no" /\ tries' = 0
               /\ pc' = (IF pc = "start" THEN "peek" ELSE pc)
               /\ UNCHANGED <<task, report, stack, faults>>
      <3>1. SessionOK'
        BY <1>2, <1>4, <1>5, <1>7, <2>2 DEF ReceiveLogin
      <3>2. CASE pc = "start"
        BY <1>2, <2>2, <3>1, <3>2, Resting DEF IInv, TypeOK
      <3>3. CASE pc # "start"
        BY <1>2, <2>2, <3>1, <3>3, Staying
      <3>. QED  BY <3>2, <3>3
    <2>. QED  BY <1>7, <2>1, <2>2 DEF ReceiveLogin
  <1>8. CASE ReceiveTask(answer) /\ answer = "failure"
    <2>1. SessionOK'
      BY <1>2, <1>4, <1>5, <1>8 DEF ReceiveTask, Loop, SessionOK
    <2>. QED  BY <1>2, <1>8, <2>1, Resting, Zenon DEF ReceiveTask, Loop, IInv, Positions
  <1>9. CASE ReceiveTask(answer) /\ answer = "success"
    <2>1. /\ issued' = issued + 1 /\ issued' \in Rows /\ rows'[issued'].task \in Tasks
          /\ relogin = "no" /\ pc = "get_task"
      BY <1>1, <1>2, <1>9, HandleOK DEF ReceiveTask
    <2>2. /\ task' = [id |-> rows'[issued'].task, uuid |-> issued', times |-> 0]
          /\ pc' = "push" /\ tries' = 0 /\ UNCHANGED <<relogin, token, report, stack, faults>>
      BY <1>9 DEF ReceiveTask
    <2>3. task' \in ProvingTask /\ task' # None /\ task'.uuid = issued'
      BY <2>1, <2>2, NoneAssumption DEF ProvingTask, Times
    <2>4. SessionOK'
      BY <1>2, <1>4, <1>5, <2>2 DEF SessionOK
    <2>5. OnStack = {} /\ OnStack' = {}
      BY <2>1, <2>2 DEF IInv, Positions, OnStack
    <2>6. TypeOK'
      BY <1>2, <2>2, <2>3, <2>4, Zenon DEF IInv, TypeOK, ServerOK, SessionOK
    <2>7. issued' > issued /\ issued \in Nat /\ runs[issued'] = 0
      BY <1>2, <2>1 DEF IInv, RunsCounted, ServerOK
    <2>8. WorksOnItsTask' /\ RowsExist'
      <3>1. WorksOnItsTask'
        BY <2>2, <2>5, Zenon DEF WorksOnItsTask
      <3>2. RowsExist'
        BY <1>2, <2>4, <2>5, Zenon DEF RowsExist, ServerOK, SessionOK
      <3>. QED  BY <3>1, <3>2
    <2>9. task'.uuid <= issued' /\ runs'[task'.uuid] = 0
      BY <1>2, <2>1, <2>3, <2>7
    <2>10. Positions'
      <3>1. rows'[task'.uuid].task = task'.id /\ token' # "none"
        BY <2>1, <2>2 DEF IInv, Positions
      <3>. QED  BY <2>1, <2>2, <2>3, <2>5, <2>9, <3>1 DEF Positions
    <2>11. RunsCounted' /\ ProvenAtMostThrice'
      BY <1>2, <2>2, <2>5, <2>7 DEF IInv, RunsCounted, ProvenAtMostThrice, Rows, ServerOK
    <2>. QED  BY <2>6, <2>8, <2>11, <2>10 DEF IInv
  <1>10. CASE ReceiveVerdict(answer) /\ Removed(0) /\ Loop /\ UNCHANGED token
    <2>1. task.id \in Tasks
      BY <1>10, TaskOnStack DEF ReceiveVerdict
    <2>2. faults' \in 0 .. MaxFaults /\ (stack' = stack \/ \E id \in Tasks : Delete(id))
      BY <1>10, <2>1, RemovedOK
    <2>3. SessionOK'
      BY <1>2, <1>4, <1>5, <1>10, <2>2 DEF Loop, SessionOK
    <2>4. token' # "none"
      BY <1>10 DEF ReceiveVerdict, IInv, Positions
    <2>. QED  BY <1>2, <1>10, <2>2, <2>3, <2>4, Resting DEF Loop
  <1>. QED  BY <1>1, <1>6, <1>7, <1>8, <1>9, <1>10 DEF ReceiveTask, ReceiveVerdict

\* A request that gets no answer is sent again or fails.
LEMMA UnansweredStep ==
    ASSUME IInv, Calling, Unanswered, ServerOK', TasksKept,
           late' \subseteq Request,
           \A r \in late' : r.call = "submit_proof" => r.uuid \in Rows /\ r.uuid <= issued',
           proofType' = proofType, runs' = runs
    PROVE  IInv'
  <1>0. /\ tries \in 0 .. RetryCount /\ token' \in {"none", "challenge", "login", "expired"}
        /\ pc \in {"start", "get_task", "submit_proof"}
    BY Zenon DEF Unanswered, IInv, TypeOK, Calling, Positions
  <1>1. CASE tries < RetryCount
    <2>1. SessionOK'
      <3>1. faults' \in 0 .. MaxFaults /\ tries' = tries + 1
        BY <1>1, FaultOK, Zenon DEF Unanswered
      <3>. QED  BY <1>0, <1>1, <3>1, ProverAssumption DEF SessionOK
    <2>. QED  BY <1>0, <1>1, <2>1, Staying, Zenon DEF Unanswered, IInv, TypeOK, Positions
  <1>2. CASE ~(tries < RetryCount)
    <2>1. CallFails(1) /\ tries' = 0 /\ faults' \in 0 .. MaxFaults
      <3>1. CallFails(1)
        BY <1>2, Zenon DEF Unanswered
      <3>. QED  BY <3>1, CallFailsEnds
    <2>2. SessionOK'
      BY <1>0, <2>1, ProverAssumption DEF SessionOK
    <2>. QED  BY <2>1, <2>2, CallFailsStep DEF Unanswered
  <1>. QED  BY <1>1, <1>2, Zenon

\* An answer is lost: the coordinator did its part.
LEMMA AnswerLostStep == IInv /\ AnswerLost => IInv'
  <1>. SUFFICES ASSUME IInv, AnswerLost PROVE IInv'
    OBVIOUS
  <1>1. ServerOK' /\ TasksKept /\ ServerOK /\ SessionOK
    BY HandleOK, Parts DEF AnswerLost
  <1>. QED  BY <1>1, LateStays, UnansweredStep DEF AnswerLost

\* What may arrive late names a row of the coordinator.
LEMMA OnWireOK ==
    ASSUME IInv, NEW r \in OnWire
    PROVE  r \in Request /\ (r.call = "submit_proof" => r.uuid \in Rows /\ r.uuid <= issued)
  <1>1. /\ pc \in {"get_task", "submit_proof"}
        /\ r = [call |-> pc, uuid |-> IF task = None THEN 0 ELSE task.uuid, report |-> report]
    BY Zenon DEF OnWire
  <1>2. pc = "submit_proof" => task # None /\ task.uuid \in Rows /\ task.uuid <= issued
    BY TaskOnStack, NoneAssumption
  <1>3. task # None => task.uuid \in Rows
    BY DEF IInv, TypeOK, ProvingTask
  <1>. QED  BY <1>1, <1>2, <1>3 DEF Request, IInv, TypeOK

\* A step without the coordinator keeps the late requests in order.
LEMMA LateWithWire ==
    ASSUME IInv, UNCHANGED server, late' \in {late, late \cup OnWire}
    PROVE  /\ ServerOK' /\ TasksKept /\ late' \subseteq Request
           /\ \A r \in late' : r.call = "submit_proof" => r.uuid \in Rows /\ r.uuid <= issued'
  <1>1. ServerOK' /\ TasksKept /\ issued' = issued
    BY Parts, RowsUnchanged DEF server, ServerOK
  <1>. QED  BY <1>1, Parts, OnWireOK DEF SessionOK

\* A request is lost, or delayed.
LEMMA RequestLostStep == IInv /\ RequestLost => IInv'
  BY LateWithWire, UnansweredStep DEF RequestLost

\* A late request finds the rows as they are now.
LEMMA ArrivesLateStep == ASSUME IInv, NEW r \in late, ArrivesLate(r) PROVE IInv'
  <1>1. ServerOK /\ SessionOK
    BY Parts
  <1>2. r \in Request /\ (r.call = "submit_proof" => r.uuid \in Rows /\ r.uuid <= issued)
    BY <1>1 DEF SessionOK
  <1>3. PICK answer \in Answers :
           IF r.call = "get_task" THEN GetTasks("login", answer) ELSE SubmitProof("login", r.uuid, r.report, answer)
    BY DEF ArrivesLate
  <1>4. ServerOK' /\ TasksKept
    <2>1. CASE r.call = "get_task"
      BY <1>1, <1>3, <2>1, GetTasksOK DEF ServerOK
    <2>2. CASE r.call # "get_task"
      <3>1. r.uuid \in Rows /\ r.uuid <= issued
        BY <1>2, <2>2 DEF Request
      <3>. QED  BY <1>1, <1>3, <2>2, <3>1, SubmitProofOK DEF ServerOK
    <2>. QED  BY <2>1, <2>2
  <1>5. SessionOK'
    BY <1>1, <1>4 DEF ArrivesLate, client, SessionOK, ServerOK, Rows, TasksKept
  <1>6. UNCHANGED <<proofType, pc, task, report, stack, runs, relogin, token>>
    BY Zenon DEF ArrivesLate, client
  <1>7. /\ relogin \in {"no", "challenge", "login"}
        /\ relogin # "no" => pc \in {"start", "get_task", "submit_proof"}
        /\ pc = "start" => relogin # "no"
        /\ pc \notin {"down", "start"} => token # "none"
    BY DEF IInv, TypeOK, Positions
  <1>. QED  BY <1>4, <1>5, <1>6, <1>7, Staying

\* A crash loses what is in memory.
LEMMA CrashStep == IInv /\ Crash => IInv'
  <1>. SUFFICES ASSUME IInv, Crash PROVE IInv'
    OBVIOUS
  <1>1. ServerOK' /\ TasksKept /\ SessionOK'
    <2>1. UNCHANGED server /\ late' \in {late, late \cup OnWire} /\ Fault
      BY Zenon DEF Crash
    <2>2. tries' \in 0 .. RetryCount /\ token' = "none"
      BY ProverAssumption DEF Crash
    <2>3. faults' \in 0 .. MaxFaults
      BY <2>1, FaultOK, Zenon
    <2>. QED  BY <2>1, <2>2, <2>3, LateWithWire, Zenon DEF SessionOK
  <1>. QED  BY <1>1, Resting DEF Crash

\* Neither a token that expires, nor a timeout, nor another prover moves the
\* client.
LEMMA TokenExpiresStep == IInv /\ TokenExpires => IInv'
  <1>. SUFFICES ASSUME IInv, TokenExpires PROVE IInv'
    OBVIOUS
  <1>0. faults' \in 0 .. MaxFaults
    BY FaultOK DEF TokenExpires, IInv, TypeOK
  <1>1. ServerOK' /\ SessionOK' /\ TasksKept
    BY <1>0, LocalStep DEF TokenExpires, IInv, TypeOK
  <1>2. UNCHANGED <<proofType, pc, relogin, task, report, stack, runs>> /\ token' = "expired"
    BY DEF TokenExpires
  <1>3. /\ relogin \in {"no", "challenge", "login"}
        /\ relogin # "no" => pc \in {"start", "get_task", "submit_proof"}
        /\ pc = "start" => relogin # "no"
    BY DEF IInv, TypeOK, Positions
  <1>. QED  BY <1>1, <1>2, <1>3, Staying

\* An outage begins or ends.
LEMMA DatabaseStep == IInv /\ (DatabaseFails \/ DatabaseRecovers) => IInv'
  <1>. SUFFICES ASSUME IInv, DatabaseFails \/ DatabaseRecovers PROVE IInv'
    OBVIOUS
  <1>1. UNCHANGED <<proofType, pc, relogin, tries, token, task, report, stack, runs, rows, issued, challengeUsed, verified, late>>
    BY Zenon DEF DatabaseFails, DatabaseRecovers, client
  <1>2. dbDown' \in BOOLEAN
    BY Zenon DEF DatabaseFails, DatabaseRecovers
  <1>3. faults' \in 0 .. MaxFaults
    BY FaultOK DEF DatabaseFails, DatabaseRecovers, IInv, TypeOK
  <1>4. ServerOK /\ SessionOK
    BY Parts
  <1>5. ServerOK' /\ TasksKept
    BY <1>1, <1>2, <1>4, RowsUnchanged, Zenon DEF ServerOK
  <1>6. SessionOK'
    BY <1>1, <1>3, <1>4, <1>5, LateStays DEF SessionOK
  <1>. QED  BY <1>1, <1>5, <1>6, Staying, Zenon DEF IInv, TypeOK, Positions

\* The rest of the coordinator closes rows and verifies tasks.
LEMMA CoordinatorStep ==
    ASSUME IInv, (\E u \in Rows : TimeoutRow(u)) \/ (\E t \in Tasks : OtherProverVerifies(t))
    PROVE  IInv'
  <1>1. ServerOK /\ SessionOK
    BY Parts
  <1>2. ServerOK' /\ TasksKept
    <2>1. ASSUME NEW u \in Rows, TimeoutRow(u) PROVE ServerOK' /\ TasksKept
      BY <1>1, <2>1, CloseRowOK DEF TimeoutRow, ServerOK, TasksKept
    <2>2. ASSUME NEW t \in Tasks, OtherProverVerifies(t) PROVE ServerOK' /\ TasksKept
      BY <1>1, <2>2, RowsUnchanged, Zenon DEF OtherProverVerifies, ServerOK
    <2>. QED  BY <2>1, <2>2
  <1>3. UNCHANGED <<proofType, pc, relogin, tries, token, task, report, stack, runs, late, faults>>
    BY Zenon DEF TimeoutRow, OtherProverVerifies, client
  <1>4. SessionOK'
    BY <1>1, <1>2, <1>3, LateStays DEF SessionOK
  <1>. QED  BY <1>2, <1>3, <1>4, Staying, Zenon DEF IInv, TypeOK, Positions

-----------------------------------------------------------------------------
(* The theorems *)

\* Every step keeps the invariant.
LEMMA NextStep == IInv /\ [Next]_vars => IInv'
  <1>. SUFFICES ASSUME IInv, [Next]_vars PROVE IInv'
    OBVIOUS
  <1>1. CASE UNCHANGED vars
    <2>1. OnStack' = OnStack
      BY <1>1 DEF vars, OnStack
    <2>2. TypeOK'
      BY <1>1 DEF vars, client, server, IInv, TypeOK
    <2>3. WorksOnItsTask' /\ RowsExist'
      BY <1>1, <2>1, Zenon DEF vars, client, server, IInv, WorksOnItsTask, RowsExist
    <2>4. Positions' /\ RunsCounted' /\ ProvenAtMostThrice'
      BY <1>1, <2>1 DEF vars, client, server, IInv, Positions, RunsCounted, ProvenAtMostThrice
    <2>. QED  BY <2>2, <2>3, <2>4 DEF IInv
  <1>2. CASE NewProver \/ ProveLoop
    BY <1>2, NewProverStep, PeekTaskStep, PushTaskStep, UpdateTaskStep, ReportPanicStep, ProveStep, ExchangeStep
       DEF ProveLoop
  <1>3. CASE AnswerLost \/ RequestLost \/ Crash \/ TokenExpires
    BY <1>3, AnswerLostStep, RequestLostStep, CrashStep, TokenExpiresStep
  <1>4. CASE \E r \in late : ArrivesLate(r)
    BY <1>4, ArrivesLateStep
  <1>5. CASE (\E u \in Rows : TimeoutRow(u)) \/ (\E t \in Tasks : OtherProverVerifies(t))
    BY <1>5, CoordinatorStep
  <1>6. CASE DatabaseFails \/ DatabaseRecovers
    BY <1>6, DatabaseStep
  <1>. QED  BY <1>1, <1>2, <1>3, <1>4, <1>5, <1>6 DEF Next

\* The inductive invariant holds in every reachable state of the client.
THEOREM IInvHolds == Spec => []IInv
  BY InitIInv, NextStep, PTL DEF Spec

\* Every variable of the client and of the rows has its type.
THEOREM TypeCorrect == Spec => []TypeOK
  <1>1. IInv => TypeOK
    BY DEF IInv
  <1>. QED  BY <1>1, IInvHolds, PTL

\* Whatever crashes, panics, is lost or is delivered late, proveAndSubmit
\* begins to prove a task it was handed at most three times.
THEOREM ThreeRunsPerTask == Spec => []ProvenAtMostThrice
  <1>1. IInv => ProvenAtMostThrice
    BY DEF IInv
  <1>. QED  BY <1>1, IInvHolds, PTL

\* The key UpdateTimes writes to is always the key of the task it writes.
THEOREM StackKeepsOneTask == Spec => []WorksOnItsTask
  <1>1. IInv => WorksOnItsTask
    BY DEF IInv
  <1>. QED  BY <1>1, IInvHolds, PTL

-----------------------------------------------------------------------------
(* What leaves the stack *)

\* A call that fails takes nothing but an error report off the stack.
LEMMA CallFailsKeeps ==
    ASSUME IInv, Calling, NEW n, CallFails(n), NEW t \in Tasks, stack[t] # None, stack'[t] = None
    PROVE  report # "proof"
  <1>1. pc \in {"start", "get_task", "submit_proof"}
    BY Zenon DEF Calling, IInv, Positions
  <1>. QED  BY <1>1, Zenon DEF CallFails, SubmissionFails, Loop

\* An answer to submit_proof takes the task off the stack when its row is
\* closed, or in one of the cases that are named.
LEMMA VerdictKeeps ==
    ASSUME IInv, NEW answer, Handle(answer), ReceiveVerdict(answer),
           NEW t \in Tasks, stack[t] # None, stack'[t] = None,
           rows'[stack[t].uuid].status = "assigned", report = "proof"
    PROVE  t \in verified \/ token = "challenge" \/ dbDown
  <1>1. pc = "submit_proof" /\ relogin = "no" /\ SubmitProof(token, task.uuid, report, answer)
    BY Zenon DEF ReceiveVerdict, Handle
  <1>2. /\ OnStack = {task.id} /\ stack[task.id] = task /\ task.uuid \in Rows /\ task.uuid <= issued
        /\ task.id \in Tasks
    BY <1>1, TaskOnStack, Zenon
  <1>3. t = task.id
    BY <1>2, Zenon DEF OnStack
  <1>4. rows[task.uuid].task = t /\ rows[task.uuid] \in Row /\ rows'[task.uuid].status = "assigned"
    BY <1>2, <1>3, Zenon DEF IInv, TypeOK, RowsExist
  <1>5. answer \in {"success", "failure"} /\ token # "none"
    BY <1>1, Zenon DEF ReceiveVerdict, Relogin, IInv, Positions
  <1>6. CASE Unauthorized(token, answer)
    BY <1>5, <1>6 DEF Unauthorized
  <1>7. CASE HandleZkProof(task.uuid, report, answer)
    <2>1. ASSUME NEW status \in {"valid", "invalid"}, CloseRow(task.uuid, status) PROVE FALSE
      <3>1. rows' = [rows EXCEPT ![task.uuid] = [rows[task.uuid] EXCEPT !.status = status]]
        BY <2>1 DEF CloseRow, IInv, TypeOK
      <3>2. rows'[task.uuid] = [rows[task.uuid] EXCEPT !.status = status]
        BY <1>2, <3>1 DEF IInv, TypeOK
      <3>3. rows'[task.uuid].status = status
        BY <1>4, <3>2 DEF Row
      <3>. QED  BY <1>4, <3>3
    <2>2. rows' = rows /\ (rows[task.uuid].status # "assigned" \/ rows[task.uuid].task \in verified \/ dbDown)
      BY <1>7, <2>1, Zenon DEF HandleZkProof, Refuses, StoreProof
    <2>. QED  BY <1>4, <2>2
  <1>. QED  BY <1>1, <1>6, <1>7, Zenon DEF SubmitProof

\* A task is taken off the stack by an answer or by a call that failed.
LEMMA NextKeeps ==
    ASSUME IInv, Next, NEW t \in Tasks, stack[t] # None, stack'[t] = None,
           rows'[stack[t].uuid].status = "assigned", report = "proof"
    PROVE  t \in verified \/ token = "challenge" \/ dbDown
  <1>1. t \in OnStack
    BY DEF OnStack
  <1>2. CASE Exchange
    <2>1. PICK answer \in Answers :
            /\ Handle(answer)
            /\ ReceiveChallenge(answer) \/ ReceiveLogin(answer) \/ ReceiveTask(answer) \/ ReceiveVerdict(answer)
      BY <1>2, Zenon DEF Exchange
    <2>2. CASE ReceiveChallenge(answer) \/ ReceiveTask(answer)
      BY <2>2, Zenon DEF ReceiveChallenge, ReceiveTask, Relogin
    <2>3. CASE ReceiveLogin(answer)
      BY <1>2, <2>3, CallFailsKeeps DEF ReceiveLogin, Exchange
    <2>4. CASE ReceiveVerdict(answer)
      BY <2>1, <2>4, VerdictKeeps, Zenon
    <2>. QED  BY <2>1, <2>2, <2>3, <2>4
  <1>3. CASE AnswerLost \/ RequestLost
    BY <1>3, CallFailsKeeps DEF AnswerLost, RequestLost, Unanswered
  <1>4. CASE PushTask
    BY <1>1, <1>4, Zenon DEF PushTask, IInv, Positions
  <1>5. CASE UpdateTask
    <2>1. OnStack = {task.id} /\ task \in ProvingTask /\ task.id \in Tasks
      BY <1>5, TaskOnStack DEF UpdateTask
    <2>2. CASE stack' = stack
      BY <2>2
    <2>3. CASE task' = [task EXCEPT !.times = @ + 1] /\ UpdateTimes(task')
      <3>1. stack' = [stack EXCEPT ![t] = task']
        BY <1>1, <2>3, LastIsOnly, Zenon DEF UpdateTimes, IInv
      <3>2. task.times \in 0 .. 2
        BY <1>5, <2>1 DEF UpdateTask, ProvingTask, Times
      <3>3. task' \in ProvingTask
        BY <2>1, <2>3, <3>2 DEF ProvingTask, Times
      <3>. QED  BY <3>1, <3>3, NoneAssumption DEF IInv, TypeOK
    <2>. QED  BY <1>5, <2>2, <2>3 DEF UpdateTask
  <1>6. CASE NewProver \/ PeekTask \/ ReportPanic \/ Prove \/ Crash \/ TokenExpires
    BY <1>6 DEF NewProver, PeekTask, ReportPanic, Prove, Crash, TokenExpires
  <1>7. CASE \/ \E r \in late : ArrivesLate(r)
             \/ \E u \in Rows : TimeoutRow(u)
             \/ \E s \in Tasks : OtherProverVerifies(s)
             \/ DatabaseFails \/ DatabaseRecovers
    BY <1>7, Zenon DEF ArrivesLate, TimeoutRow, OtherProverVerifies, DatabaseFails, DatabaseRecovers
  <1>. QED  BY <1>2, <1>3, <1>4, <1>5, <1>6, <1>7, Zenon DEF Next, ProveLoop

\* A proof is not thrown away while the coordinator still waits for it: a
\* task leaves the stack with its row closed, unless it was verified through
\* another prover, the client sends the token of a challenge, or statements
\* of the coordinator fail.
THEOREM OpenTasksAreKept == Spec => KeepsOpenTasks
  <1>1. IInv /\ [Next]_vars => [LeavesClosed]_vars
    BY NextKeeps DEF LeavesClosed
  <1>. QED  BY <1>1, IInvHolds, PTL DEF Spec, KeepsOpenTasks
=============================================================================
