------------------------------- MODULE Prover -------------------------------
(***************************************************************************)
(* The prover client: its loop, its task stack on disk, its session with   *)
(* the coordinator, and the three requests it sends.                       *)
(*                                                                         *)
(* The coordinator is reduced to what one prover sees of it: the rows of   *)
(* prover_task that name this prover, the tasks verified so far, whether   *)
(* the current challenge was used, and whether statements fail.  A handler *)
(* of the coordinator is one step here; module Coordinator has its         *)
(* interleavings.                                                          *)
(*                                                                         *)
(* Every request may be lost, its answer may be lost, and it may arrive    *)
(* after the client gave up on it.  resty repeats a request without an     *)
(* answer.  The process may die at any step; the stack survives.           *)
(***************************************************************************)
EXTENDS Integers, FiniteSets

CONSTANTS
    None,
    Tasks,          \* task identifiers, numbers: bbolt orders keys
    MaxRows,        \* bound: prover tasks the coordinator hands out
    RetryCount,     \* repetitions of a request by resty
    MaxFaults       \* bound: losses, crashes, expiries, disk errors and outages

ASSUME ProverAssumption ==
    /\ Tasks \subseteq Int
    /\ MaxRows \in Nat /\ RetryCount \in Nat /\ MaxFaults \in Nat

VARIABLES
    proofType,      \* cfg.Core.ProofType
    pc,             \* where the loop is
    relogin,        \* where Login is, when it is running
    tries,          \* repetitions of the request on the wire
    token,          \* the token resty sends
    task,           \* the task in memory
    report,         \* what submit_proof carries
    stack,          \* on disk: a task per key, or None
    runs,           \* history: how often proving a row's task began
    rows,           \* prover_task
    issued,         \* rows handed out so far
    challengeUsed,
    verified,       \* the tasks with a verified proof
    dbDown,         \* statements of the coordinator's handlers may fail
    late,           \* requests that may still arrive
    faults

client == <<pc, relogin, tries, token, task, report>>
server == <<rows, issued, challengeUsed, verified, dbDown>>
vars == <<proofType, client, stack, runs, server, late, faults>>

Rows == 1 .. MaxRows
Times == 0 .. 3
ProvingTask == [id : Tasks, uuid : Rows, times : Times]
Row == [task : Tasks, status : {"assigned", "valid", "invalid"}]
Report == {"proof", "error", "panic"}
Request == [call : {"get_task", "submit_proof"}, uuid : Rows \cup {0}, report : Report \cup {"none"}]

ASSUME NoneAssumption == None \notin ProvingTask \cup Row

TypeOK ==
    /\ proofType \in {"chunk", "batch"}
    /\ pc \in {"down", "start", "peek", "get_task", "push", "update", "prove", "submit_proof"}
    /\ relogin \in {"no", "challenge", "login"}
    /\ tries \in 0 .. RetryCount
    /\ token \in {"none", "challenge", "login", "expired"}
    /\ task \in ProvingTask \cup {None}
    /\ report \in Report \cup {"none"}
    /\ stack \in [Tasks -> ProvingTask \cup {None}]
    /\ runs \in [Rows -> Nat]
    /\ rows \in [Rows -> Row \cup {None}]
    /\ issued \in 0 .. MaxRows
    /\ challengeUsed \in BOOLEAN
    /\ verified \subseteq Tasks
    /\ dbDown \in BOOLEAN
    /\ late \subseteq Request
    /\ faults \in 0 .. MaxFaults

Init ==
    /\ proofType \in {"chunk", "batch"}
    /\ pc = "down" /\ relogin = "no" /\ tries = 0 /\ token = "none" /\ task = None
    /\ report = "none"
    /\ stack = [t \in Tasks |-> None]
    /\ runs = [u \in Rows |-> 0]
    /\ rows = [u \in Rows |-> None] /\ issued = 0 /\ challengeUsed = FALSE /\ verified = {}
    /\ dbDown = FALSE /\ late = {} /\ faults = 0

\* a step with n faults
Faults(n) == faults + n <= MaxFaults /\ faults' = faults + n
Fault == Faults(1)

-----------------------------------------------------------------------------
(* The stack *)

OnStack == {t \in Tasks : stack[t] # None}
Last(keys) == CHOOSE k \in keys : \A other \in keys : other <= k

Push(t) == stack' = [stack EXCEPT ![t.id] = t]
Peek == stack[Last(OnStack)]
Delete(id) == stack' = [stack EXCEPT ![id] = None]

\* under the last key, whichever task it belongs to
UpdateTimes(t) == stack' = [stack EXCEPT ![Last(OnStack)] = t]

-----------------------------------------------------------------------------
(* The coordinator's handlers.  Each relates a request to its answer. *)

LoginResponse(answer) ==
    /\ challengeUsed' = FALSE
    /\ answer = "token"
    /\ UNCHANGED <<rows, issued, verified, dbDown>>

\* a challenge logs in once
InsertChallenge(answer) ==
    \/ /\ IF challengeUsed THEN answer = "failure" ELSE answer = "token"
       /\ challengeUsed' = TRUE
    \/ dbDown /\ answer = "failure" /\ UNCHANGED challengeUsed

Login(answer) ==
    /\ IF token = "expired"
       THEN answer = "failure" /\ UNCHANGED challengeUsed
       ELSE InsertChallenge(answer)
    /\ UNCHANGED <<rows, issued, verified, dbDown>>

\* the middleware before get_task and submit_proof: the token of a challenge
\* is signed with the same secret, but names no prover
Unauthorized(auth, answer) ==
    \/ auth = "expired" /\ answer = "expired"
    \/ auth \in {"none", "challenge"} /\ answer = "failure"

IsProverAssigned == \E u \in 1 .. issued : rows[u].status = "assigned"

\* a row for a task that has no verified proof
Assign(answer) ==
    /\ ~IsProverAssigned
    /\ issued < MaxRows
    /\ \E t \in Tasks \ verified :
          rows' = [rows EXCEPT ![issued + 1] = [task |-> t, status |-> "assigned"]]
    /\ issued' = issued + 1
    /\ answer = "success"
    /\ UNCHANGED <<challengeUsed, verified, dbDown>>

GetTasks(auth, answer) ==
    \/ Unauthorized(auth, answer) /\ UNCHANGED server
    \/ auth = "login" /\ Assign(answer)
    \/ auth = "login" /\ answer = "failure" /\ UNCHANGED server

CloseRow(u, status) == rows' = [rows EXCEPT ![u].status = status]

\* validator refuses: the row is closed, or the task verified already
Refuses(u, what) == rows[u].status # "assigned" \/ (what = "proof" /\ rows[u].task \in verified)

\* updateProofStatus(valid): the proof is stored with the row
StoreProof(u, status) ==
    /\ CloseRow(u, status)
    /\ verified' = verified \cup {rows[u].task}

\* Every answer to an error report is a failure too.  When statements fail,
\* the row may stay open, for proofRecover only logs its error, a verified
\* task may be verified again, for checkIsTaskSuccess answers false, and the
\* proof of a chunk may be stored and the answer be a failure, for the ready
\* check comes after the commit; then proofRecover may close the row anew.
HandleZkProof(u, what, answer) ==
    /\ UNCHANGED <<issued, challengeUsed, dbDown>>
    /\ \/ /\ Refuses(u, what) \/ dbDown
          /\ answer = "failure"
          /\ UNCHANGED <<rows, verified>>
       \/ /\ rows[u].status = "assigned" /\ what # "proof"
          /\ answer = "failure"
          /\ CloseRow(u, "invalid") /\ UNCHANGED verified
       \/ /\ rows[u].status = "assigned" /\ what = "proof"
          /\ rows[u].task \notin verified \/ dbDown
          /\ \/ answer = "failure" /\ CloseRow(u, "invalid") /\ UNCHANGED verified
             \/ answer = "success" /\ StoreProof(u, "valid")
             \/ /\ dbDown /\ proofType = "chunk" /\ answer = "failure"
                /\ \E status \in {"valid", "invalid"} : StoreProof(u, status)

SubmitProof(auth, u, what, answer) ==
    \/ Unauthorized(auth, answer) /\ UNCHANGED server
    \/ auth = "login" /\ HandleZkProof(u, what, answer)

\* the request on the wire
Handle(answer) ==
    \/ relogin = "challenge" /\ LoginResponse(answer)
    \/ relogin = "login" /\ Login(answer)
    \/ relogin = "no" /\ pc = "get_task" /\ GetTasks(token, answer)
    \/ relogin = "no" /\ pc = "submit_proof" /\ SubmitProof(token, task.uuid, report, answer)

-----------------------------------------------------------------------------
(* The loop *)

\* a new process: no token, the stack as it was left
NewProver ==
    /\ pc = "down"
    /\ pc' = "start" /\ relogin' = "challenge" /\ token' = "none"
    /\ UNCHANGED <<proofType, tries, task, report, stack, runs, server, late, faults>>

Loop == pc' = "peek" /\ relogin' = "no" /\ tries' = 0 /\ task' = None /\ report' = "none"

\* a chunk prover asks its layer 2 node for a height before it asks for a task
GetLatestConfirmedBlockNumber(ok) ==
    \/ ok /\ UNCHANGED faults
    \/ ~ok /\ proofType = "chunk" /\ Fault

FetchTaskFromCoordinator ==
    \/ /\ GetLatestConfirmedBlockNumber(TRUE)
       /\ pc' = "get_task" /\ UNCHANGED <<relogin, tries, task, report>>
    \/ GetLatestConfirmedBlockNumber(FALSE) /\ Loop

\* variant: a task is fetched while another one is on the stack
PrefetchTask ==
    /\ pc = "peek"
    /\ \/ FetchTaskFromCoordinator
       \/ OnStack # {} /\ task' = Peek /\ pc' = "update" /\ UNCHANGED <<relogin, tries, report, faults>>
    /\ UNCHANGED <<proofType, token, stack, runs, server, late>>

PeekTask ==
    /\ pc = "peek"
    /\ IF OnStack = {} THEN FetchTaskFromCoordinator
       ELSE task' = Peek /\ pc' = "update" /\ UNCHANGED <<relogin, tries, report, faults>>
    /\ UNCHANGED <<proofType, token, stack, runs, server, late>>

PushTask ==
    /\ pc = "push"
    /\ \/ Push(task) /\ pc' = "update" /\ UNCHANGED <<relogin, tries, task, report, faults>>
       \/ Fault /\ Loop /\ UNCHANGED stack
    /\ UNCHANGED <<proofType, token, runs, server, late>>

\* variant: the attempt is written once it is over
UpdateTaskLater ==
    /\ pc = "update" /\ task.times <= 2
    /\ pc' = "prove"
    /\ UNCHANGED <<proofType, relogin, tries, token, task, report, stack, runs, server, late, faults>>

\* the attempt is on disk before proving begins
UpdateTask ==
    /\ pc = "update" /\ task.times <= 2
    /\ \/ /\ task' = [task EXCEPT !.times = @ + 1]
          /\ UpdateTimes(task')
          /\ pc' = "prove" /\ UNCHANGED <<relogin, tries, report, faults>>
       \/ Fault /\ Loop /\ UNCHANGED stack
    /\ UNCHANGED <<proofType, token, runs, server, late>>

\* after three attempts the loop gives the task up
ReportPanic ==
    /\ pc = "update" /\ task.times > 2
    /\ pc' = "submit_proof" /\ report' = "panic"
    /\ UNCHANGED <<proofType, relogin, tries, token, task, stack, runs, server, late, faults>>

\* what the circuit library does with its input
GenProof == {"proof", "error", "panic"}

\* traces may be missing in the node, or leave a gap
GetSortedTracesByHashes == {"traces", "error"}

ProveChunk == UNION {IF traces = "error" THEN {"error"} ELSE GenProof : traces \in GetSortedTracesByHashes}

CheckChunkProofs == {"match", "mismatch", "error"}

ProveBatch == UNION {IF check # "match" THEN {"error"} ELSE GenProof : check \in CheckChunkProofs}

\* a panic inside the library ends the process
Prove ==
    /\ pc = "prove"
    /\ runs' = [runs EXCEPT ![task.uuid] = @ + 1]
    /\ \E outcome \in IF proofType = "chunk" THEN ProveChunk ELSE ProveBatch :
          \/ /\ outcome # "panic"
             /\ pc' = "submit_proof" /\ report' = outcome
             /\ UNCHANGED <<relogin, tries, token, task>>
          \/ /\ outcome = "panic"
             /\ pc' = "down" /\ token' = "none" /\ task' = None
             /\ UNCHANGED <<relogin, tries, report>>
    /\ UNCHANGED <<proofType, stack, server, late, faults>>

-----------------------------------------------------------------------------
(* The requests *)

Calling == relogin # "no" \/ pc \in {"get_task", "submit_proof"}

\* in a step with n faults so far; the error of Delete is only logged
Removed(n) ==
    \/ Delete(task.id) /\ Faults(n)
    \/ Faults(n + 1) /\ UNCHANGED stack

\* variant: a proof that could not be sent is given up
SubmissionFailsHard(n) == Removed(n) /\ Loop

\* submitProof keeps the task when the coordinator is out of reach; submitErr
\* looks at the error it reports, not at the one it met, and never does
SubmissionFails(n) ==
    /\ Loop
    /\ IF report = "proof" THEN Faults(n) /\ UNCHANGED stack ELSE Removed(n)

\* a request without an answer, or a login without a token, after n faults
CallFails(n) ==
    CASE pc = "start"        -> /\ pc' = "down" /\ relogin' = "no" /\ tries' = 0
                                /\ Faults(n) /\ UNCHANGED <<task, report, stack>>
      [] pc = "get_task"     -> Loop /\ Faults(n) /\ UNCHANGED stack
      [] pc = "submit_proof" -> SubmissionFails(n)

ReceiveChallenge(answer) ==
    /\ relogin = "challenge"
    /\ token' = "challenge" /\ relogin' = "login" /\ tries' = 0
    /\ UNCHANGED <<pc, task, report, stack, faults>>

\* the token of the challenge stays in the client when the login fails
ReceiveLogin(answer) ==
    /\ relogin = "login"
    /\ \/ /\ answer = "token"
          /\ token' = "login" /\ relogin' = "no" /\ tries' = 0
          /\ pc' = (IF pc = "start" THEN "peek" ELSE pc)
          /\ UNCHANGED <<task, report, stack, faults>>
       \/ answer = "failure" /\ CallFails(0) /\ UNCHANGED token

Relogin ==
    /\ relogin' = "challenge" /\ tries' = 0
    /\ UNCHANGED <<pc, token, task, report, stack, faults>>

\* variant: only SubmitProof logs in again
ReceiveTaskOnly(answer) ==
    /\ relogin = "no" /\ pc = "get_task"
    /\ \/ answer \in {"expired", "failure"} /\ Loop /\ UNCHANGED <<token, stack, faults>>
       \/ /\ answer = "success"
          /\ task' = [id |-> rows'[issued'].task, uuid |-> issued', times |-> 0]
          /\ pc' = "push" /\ tries' = 0
          /\ UNCHANGED <<relogin, token, report, stack, faults>>

ReceiveTask(answer) ==
    /\ relogin = "no" /\ pc = "get_task"
    /\ \/ answer = "expired" /\ Relogin
       \/ answer = "failure" /\ Loop /\ UNCHANGED <<token, stack, faults>>
       \/ /\ answer = "success"
          /\ task' = [id |-> rows'[issued'].task, uuid |-> issued', times |-> 0]
          /\ pc' = "push" /\ tries' = 0
          /\ UNCHANGED <<relogin, token, report, stack, faults>>

\* variant: a task the coordinator refuses stays
ReceiveSuccess(answer) ==
    /\ relogin = "no" /\ pc = "submit_proof"
    /\ \/ answer = "expired" /\ Relogin
       \/ answer = "failure" /\ Loop /\ UNCHANGED <<token, stack, faults>>
       \/ answer = "success" /\ Removed(0) /\ Loop /\ UNCHANGED token

ReceiveVerdict(answer) ==
    /\ relogin = "no" /\ pc = "submit_proof"
    /\ \/ answer = "expired" /\ Relogin
       \/ answer \in {"success", "failure"} /\ Removed(0) /\ Loop /\ UNCHANGED token

Answers == {"token", "success", "failure", "expired"}

Exchange ==
    /\ Calling
    /\ \E answer \in Answers :
          /\ Handle(answer)
          /\ \/ ReceiveChallenge(answer) \/ ReceiveLogin(answer)
             \/ ReceiveTask(answer) \/ ReceiveVerdict(answer)
    /\ UNCHANGED <<proofType, runs, late>>

\* resty sends the request again, RetryCount times
Unanswered ==
    /\ IF tries < RetryCount
       THEN tries' = tries + 1 /\ Fault /\ UNCHANGED <<pc, relogin, task, report, stack>>
       ELSE CallFails(1)
    /\ UNCHANGED token

AnswerLost ==
    /\ Calling
    /\ \E answer \in Answers : Handle(answer)
    /\ Unanswered
    /\ UNCHANGED <<proofType, runs, late>>

\* the request on the wire, if it may still do something when it arrives late
OnWire ==
    IF relogin = "no" /\ token = "login" /\ pc \in {"get_task", "submit_proof"}
    THEN {[call |-> pc, uuid |-> IF task = None THEN 0 ELSE task.uuid, report |-> report]}
    ELSE {}

RequestLost ==
    /\ Calling
    /\ late' \in {late, late \cup OnWire}
    /\ Unanswered
    /\ UNCHANGED <<proofType, runs, server>>

ArrivesLate(r) ==
    /\ late' = late \ {r}
    /\ \E answer \in Answers :
          IF r.call = "get_task" THEN GetTasks("login", answer)
          ELSE SubmitProof("login", r.uuid, r.report, answer)
    /\ UNCHANGED <<proofType, client, stack, runs, faults>>

Crash ==
    /\ pc # "down" /\ Fault
    /\ pc' = "down" /\ relogin' = "no" /\ tries' = 0 /\ token' = "none" /\ task' = None
    /\ report' = "none"
    /\ late' \in {late, late \cup OnWire}
    /\ UNCHANGED <<proofType, stack, runs, server>>

\* a challenge left in the client runs out; a token runs out in mid-session
TokenExpires ==
    /\ \/ token = "challenge" /\ relogin = "no" /\ UNCHANGED faults
       \/ (token = "login" \/ (token = "challenge" /\ relogin = "login")) /\ Fault
    /\ token' = "expired"
    /\ UNCHANGED <<proofType, pc, relogin, tries, task, report, stack, runs, server, late>>

-----------------------------------------------------------------------------
(* The rest of the coordinator *)

\* collect_proof
TimeoutRow(u) ==
    /\ u <= issued /\ rows[u].status = "assigned"
    /\ CloseRow(u, "invalid")
    /\ UNCHANGED <<proofType, client, stack, runs, issued, challengeUsed, verified, dbDown, late, faults>>

\* another prover has the task too, or had it first
OtherProverVerifies(t) ==
    /\ t \notin verified /\ \E u \in 1 .. issued : rows[u].task = t
    /\ verified' = verified \cup {t}
    /\ UNCHANGED <<proofType, client, stack, runs, rows, issued, challengeUsed, dbDown, late, faults>>

\* an outage of the database, for one statement or several requests; it is
\* seen by requests only
DatabaseFails ==
    /\ ~dbDown /\ (Calling \/ late # {}) /\ Fault
    /\ dbDown' = TRUE
    /\ UNCHANGED <<proofType, client, stack, runs, rows, issued, challengeUsed, verified, late>>

DatabaseRecovers ==
    /\ dbDown
    /\ dbDown' = FALSE
    /\ UNCHANGED <<proofType, client, stack, runs, rows, issued, challengeUsed, verified, late, faults>>

-----------------------------------------------------------------------------

ProveLoop == PeekTask \/ PushTask \/ UpdateTask \/ ReportPanic \/ Prove \/ Exchange

Next ==
    \/ NewProver \/ ProveLoop
    \/ AnswerLost \/ RequestLost \/ Crash \/ TokenExpires
    \/ \E r \in late : ArrivesLate(r)
    \/ \E u \in Rows : TimeoutRow(u)
    \/ \E t \in Tasks : OtherProverVerifies(t)
    \/ DatabaseFails \/ DatabaseRecovers

\* the process is restarted, the loop and the coordinator run, outages end, time passes
Spec ==
    /\ Init /\ [][Next]_vars
    /\ WF_vars(NewProver) /\ WF_vars(ProveLoop) /\ WF_vars(DatabaseRecovers)
    /\ WF_vars(token = "challenge" /\ TokenExpires)

-----------------------------------------------------------------------------
(* Properties *)

\* Proving a task begins at most three times, whatever dies in between:
\* proveAndSubmit writes the attempt to the stack before it proves.
ProvenAtMostThrice == \A u \in Rows : runs[u] <= 3

\* The stack holds one task, the one in memory from the moment it is there
\* until it is deleted: UpdateTimes writes to the last key, not to the key of
\* its task, and relies on this.
WorksOnItsTask ==
    /\ \A s, t \in OnStack : s = t
    /\ \A t \in OnStack : stack[t].id = t
    /\ pc \in {"update", "prove", "submit_proof"} => task \in {stack[t] : t \in OnStack}

\* a task leaves the stack with its row closed, or by one of the exceptions
LeavesClosed ==
    \A t \in Tasks :
       (stack[t] # None /\ stack'[t] = None /\ rows'[stack[t].uuid].status = "assigned")
       => report # "proof" \/ t \in verified \/ token = "challenge" \/ dbDown

\* A task that leaves the stack is closed at the coordinator; a proof that
\* may not have arrived stays for another submission.  The code has four
\* exceptions: an error report, deleted even if it was not delivered; a task
\* verified through another prover; a client that holds the token of a
\* challenge since its login failed; and a coordinator whose statements fail,
\* since submitProof takes its answer for a verdict.
KeepsOpenTasks == [][LeavesClosed]_vars

\* A task leaves the stack: the loop proves it, or gives it up.
TaskLeavesStack ==
    \A u \in Rows : (\E t \in OnStack : stack[t].uuid = u) ~> ~(\E t \in OnStack : stack[t].uuid = u)

\* A client whose login failed is logged in again, once the challenge it
\* still sends has expired: Login leaves it there, and GetTask and SubmitProof
\* log in on nothing but an expired token.
LogsInAgain == (token = "challenge" /\ relogin = "no") ~> token = "login"
=============================================================================
