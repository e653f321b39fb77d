----------------------------- MODULE WorkerPool -----------------------------
(***************************************************************************)
(* The supervised decompiler pool: crates/lre-worker-client/src/lib.rs,    *)
(* with the process handling of crates/lre-worker/src/worker.rs.           *)
(*                                                                         *)
(* One WorkerPoolManager belongs to one Core handle and is behind a mutex  *)
(* that the API server and the desktop bridge hold for a whole request, so *)
(* at most one call runs; pc says where.  It shares its world with         *)
(*   - the watchdog thread run_worker starts for the command,              *)
(*   - the ghidra_opt children, which may reply, crash or wedge,           *)
(*   - other connections that commit to the project store meanwhile,       *)
(*   - time: the deadline of the running command passes at some point.     *)
(*                                                                         *)
(* A command sent to a child and its reply are one abstract exchange here. *)
(***************************************************************************)
EXTENDS Integers, Sequences, FiniteSets

CONSTANTS
  Configs,       \* PoolConfigs callers ask for (program, binary, base)
  ReadOrder,     \* the fact tables spawn reads, in the order it reads them
  MaxJobs,       \* rows of the job history (256 in the code)
  NoPool, NoChild,
  MaxCalls,      \* calls a pool serves: a bound of the instance
  MaxChildren,   \* children ever launched: a bound of the instance
  MaxRevision    \* the store's last revision: a bound of the instance

ASSUME PoolAssumption ==
  /\ MaxJobs \in Nat \ {0}
  /\ MaxCalls \in Nat \ {0}
  /\ MaxChildren \in Nat
  /\ MaxRevision \in Nat \ {0}
  /\ Len(ReadOrder) \in Nat \ {0}
  /\ NoPool \notin Configs
  /\ NoChild \notin 1 .. MaxChildren

VARIABLES
  revision,   \* the program's revision in the store
  changed,    \* changed[i]: revision of the last change of table ReadOrder[i]
  children,   \* the ghidra_opt processes: unborn, ready, working or dead
  config,     \* the PoolConfig of the current pool, or NoPool
  idle,       \* warm sessions of the pool
  jobs,       \* its JobRows
  nextJob,    \* its next_job_id
  busy, restarts, capHits,   \* its counters
  pc,         \* where the running call is, "none" between calls
  target,     \* the PoolConfig a pool is being replaced for
  session,    \* the session leased by it or being spawned
  result,     \* how its operation ended
  content,    \* the facts its document was made from
  answer,     \* what the last finished call returned
  done,       \* the flag run_worker shares with the watchdog
  dog,        \* the watchdog: off, armed, checking, killing or ended
  expired     \* whether the watchdog's deadline has passed

poolVars == <<config, idle, jobs, nextJob, busy, restarts, capHits>>
callVars == <<pc, target, session, result, content, answer>>
dogVars == <<done, dog, expired>>
vars == <<revision, changed, children, poolVars, callVars, dogVars>>

Children == 1 .. MaxChildren
Tables == DOMAIN ReadOrder
Facts == UNION {[1 .. n -> 1 .. MaxRevision] : n \in 0 .. Len(ReadOrder)}

\* A WorkerSession; failed is history: an operation on it returned an error.
Session == [child : Children \union {NoChild}, facts : Facts, failed : BOOLEAN]
NoSession == [child |-> NoChild, facts |-> <<>>, failed |-> FALSE]

\* WorkerError and PoolError, as far as callers tell them apart.
OpErrors == {"decompiler", "protocol", "process", "io", "setup", "memcap"}

Answer ==
       {[kind |-> "nothing"]}
  \union [kind : {"document"}, facts : Facts, revision : 1 .. MaxRevision]
  \union [kind : {"error"}, error : {"deadline"} \union OpErrors, expired : BOOLEAN]

Job == [id : 1 .. MaxCalls, state : {"running", "succeeded", "failed"}]

PCs == {"none", "switch", "lease", "facts", "register", "cap", "op",
        "returned", "join", "drop", "finish", "stamp"}

PoolTypeOK ==
  /\ revision \in 1 .. MaxRevision
  /\ changed \in [Tables -> 0 .. MaxRevision]
  /\ children \in [Children -> {"unborn", "ready", "working", "dead"}]
  /\ config \in Configs \union {NoPool}
  /\ idle \in Seq(Session)
  /\ jobs \in Seq(Job) /\ Len(jobs) <= MaxJobs
  /\ nextJob \in 1 .. MaxCalls + 1
  /\ busy \in 0 .. 1
  /\ restarts \in 0 .. MaxCalls /\ capHits \in 0 .. MaxCalls
  /\ pc \in PCs
  /\ target \in Configs \union {NoPool}
  /\ session \in Session
  /\ result \in {"none", "ok"} \union OpErrors
  /\ content \in Facts
  /\ answer \in Answer
  /\ done \in BOOLEAN /\ expired \in BOOLEAN
  /\ dog \in {"off", "armed", "checking", "killing", "ended"}

Init ==
  /\ revision = 1
  /\ changed = [i \in Tables |-> 0]
  /\ children = [c \in Children |-> "unborn"]
  /\ config = NoPool /\ idle = <<>> /\ jobs = <<>> /\ nextJob = 1
  /\ busy = 0 /\ restarts = 0 /\ capHits = 0
  /\ pc = "none" /\ target = NoPool /\ session = NoSession
  /\ result = "none" /\ content = <<>> /\ answer = [kind |-> "nothing"]
  /\ done = FALSE /\ dog = "off" /\ expired = FALSE

Alive(c) == c \in Children /\ children[c] \in {"ready", "working"}
Become(c, s) == children' = [children EXCEPT ![c] = s]

-----------------------------------------------------------------------------
(* The rest of the world. *)

\* Another connection commits: to a table the workers cache, or elsewhere.
Commit ==
  /\ revision < MaxRevision
  /\ revision' = revision + 1
  /\ \/ \E i \in Tables : changed' = [changed EXCEPT ![i] = revision + 1]
     \/ UNCHANGED changed
  /\ UNCHANGED <<children, poolVars, callVars, dogVars>>

\* A child crashes or is killed from outside (a fault, the OOM killer).
Crash ==
  /\ \E c \in Children : Alive(c) /\ Become(c, "dead")
  /\ UNCHANGED <<revision, changed, poolVars, callVars, dogVars>>

DeadlinePasses ==
  /\ dog \in {"armed", "checking"}
  /\ expired' = TRUE
  /\ UNCHANGED <<revision, changed, children, poolVars, callVars, done, dog>>

-----------------------------------------------------------------------------
(* Lease. *)

\* begin_job: a running row at the end, the oldest row gone beyond MaxJobs.
BeginJob(rows, id) ==
  LET all == Append(rows, [id |-> id, state |-> "running"])
  IN IF Len(all) > MaxJobs THEN Tail(all) ELSE all

\* decompile_doc -> ensure_pool -> with_worker_named, on a matching pool.
StartCall(cfg) ==
  /\ pc = "none"
  /\ config = cfg
  /\ nextJob <= MaxCalls
  /\ jobs' = BeginJob(jobs, nextJob)
  /\ nextJob' = nextJob + 1
  /\ busy' = busy + 1
  /\ pc' = "lease"
  /\ UNCHANGED <<revision, changed, children, config, idle, restarts, capHits,
                 target, session, result, content, answer, dogVars>>

\* ensure_pool: another configuration replaces the pool.
ReplacePool(cfg) ==
  /\ pc = "none"
  /\ config # cfg
  /\ pc' = "switch" /\ target' = cfg
  /\ UNCHANGED <<revision, changed, children, poolVars, session, result,
                 content, answer, dogVars>>

\* Fault: the old pool's children are not waited for.
NewPoolAtOnce ==
  /\ pc = "switch"
  /\ config' = target /\ idle' = <<>>
  /\ jobs' = BeginJob(<<>>, 1) /\ nextJob' = 2
  /\ busy' = 1 /\ restarts' = 0 /\ capHits' = 0
  /\ pc' = "lease" /\ target' = NoPool
  /\ UNCHANGED <<revision, changed, children, session, result, content, answer,
                 dogVars>>

\* Dropping the old pool drops its sessions: NativeWorker's Drop closes stdin
\* and waits for the child.  Then the new pool begins its first job.
NewPool ==
  /\ pc = "switch"
  /\ \A i \in DOMAIN idle : ~Alive(idle[i].child)
  /\ config' = target /\ idle' = <<>>
  /\ jobs' = BeginJob(<<>>, 1) /\ nextJob' = 2
  /\ busy' = 1 /\ restarts' = 0 /\ capHits' = 0
  /\ pc' = "lease" /\ target' = NoPool
  /\ UNCHANGED <<revision, changed, children, session, result, content, answer,
                 dogVars>>

LeaseIdle ==
  /\ pc = "lease"
  /\ idle # <<>>
  /\ session' = idle[Len(idle)]
  /\ idle' = SubSeq(idle, 1, Len(idle) - 1)
  /\ pc' = "cap"
  /\ UNCHANGED <<revision, changed, children, config, jobs, nextJob, busy,
                 restarts, capHits, target, result, content, answer, dogVars>>

\* WorkerSession::spawn reads the fact tables, one statement each, ...
ReadFacts ==
  /\ \/ pc = "lease" /\ idle = <<>>
     \/ pc = "facts" /\ Len(session.facts) < Len(ReadOrder)
  /\ session' = [session EXCEPT !.facts = Append(@, revision)]
  /\ pc' = "facts"
  /\ UNCHANGED <<revision, changed, children, poolVars, target, result,
                 content, answer, dogVars>>

\* ... launches ghidra_opt and sends it registerProgram and setAction, ...
Launch ==
  /\ pc = "facts"
  /\ Len(session.facts) = Len(ReadOrder)
  /\ \E c \in Children :
       /\ children[c] = "unborn"
       /\ \A b \in 1 .. c - 1 : children[b] # "unborn"
       /\ session' = [session EXCEPT !.child = c]
       /\ Become(c, "working")
  /\ pc' = "register"
  /\ UNCHANGED <<revision, changed, poolVars, target, result, content, answer,
                 dogVars>>

\* ... and waits for the replies, with no watchdog.
Registered ==
  /\ pc = "register"
  /\ children[session.child] = "working"
  /\ Become(session.child, "ready")
  /\ pc' = "cap"
  /\ UNCHANGED <<revision, changed, poolVars, target, session, result, content,
                 answer, dogVars>>

\* No store, no binary or no ghidra_opt: the call fails without a session.
SpawnFails ==
  /\ pc \in {"lease", "facts"}
  /\ pc = "lease" => idle = <<>>
  /\ result' \in {"setup", "process"}
  /\ session' = NoSession
  /\ pc' = "finish"
  /\ UNCHANGED <<revision, changed, children, poolVars, target, content, answer,
                 dogVars>>

\* registerProgram or setAction fails; the worker is dropped.
RegisterFails ==
  /\ pc = "register"
  /\ \/ Become(session.child, "ready") /\ children[session.child] = "working"
     \/ UNCHANGED children
  /\ result' = "setup"
  /\ pc' = "drop"
  /\ UNCHANGED <<revision, changed, poolVars, target, session, content, answer,
                 dogVars>>

\* enforce_memory_cap: kill -9, and the session is dropped.
CapExceeded ==
  /\ pc = "cap"
  /\ Alive(session.child)
  /\ Become(session.child, "dead")
  /\ capHits' = capHits + 1
  /\ result' = "memcap"
  /\ pc' = "drop"
  /\ UNCHANGED <<revision, changed, config, idle, jobs, nextJob, busy, restarts,
                 target, session, content, answer, dogVars>>

-----------------------------------------------------------------------------
(* run_worker: the guarded operation. *)

\* The watchdog starts, then the command is written: a dead child's stdin
\* refuses it.
StartOp ==
  /\ pc = "cap"
  /\ IF children[session.child] = "ready"
       THEN Become(session.child, "working")
       ELSE UNCHANGED children
  /\ done' = FALSE /\ dog' = "armed" /\ expired' = FALSE
  /\ pc' = "op"
  /\ UNCHANGED <<revision, changed, poolVars, target, session, result, content,
                 answer>>

\* op returns: with the document or the exception the child replied with,
\* with a protocol error while the child still works, with the end of a dead
\* child's pipes, or with a prototype that has no function.
OpReturns ==
  /\ pc = "op"
  /\ \/ /\ children[session.child] = "working"
        /\ Become(session.child, "ready")
        /\ result' \in {"ok", "decompiler", "setup"}
     \/ /\ children[session.child] = "working"
        /\ UNCHANGED children
        /\ result' = "protocol"
     \/ /\ children[session.child] = "dead"
        /\ UNCHANGED children
        /\ result' \in {"process", "io", "setup"}
  /\ session' = [session EXCEPT !.failed = result' # "ok"]
  /\ pc' = "returned"
  /\ UNCHANGED <<revision, changed, poolVars, target, content, answer, dogVars>>

SetDone ==
  /\ pc = "returned"
  /\ done' = TRUE
  /\ pc' = "join"
  /\ UNCHANGED <<revision, changed, children, poolVars, target, session, result,
                 content, answer, dog, expired>>

\* Fault: run_worker does not join the watchdog.
KeepSessionUnjoined ==
  /\ pc = "join"
  /\ result = "ok"
  /\ idle' = Append(idle, session)
  /\ content' = session.facts
  /\ session' = NoSession
  /\ pc' = "finish"
  /\ UNCHANGED <<revision, changed, children, config, jobs, nextJob, busy,
                 restarts, capHits, target, result, answer, dogVars>>

\* Fault: the session goes back to the pool whatever the operation returned.
KeepAnySession ==
  /\ pc = "join"
  /\ dog = "ended"
  /\ idle' = Append(idle, session)
  /\ content' = session.facts
  /\ session' = NoSession
  /\ pc' = "finish"
  /\ UNCHANGED <<revision, changed, children, config, jobs, nextJob, busy,
                 restarts, capHits, target, result, answer, dogVars>>

\* Warm reuse after the join; the session goes back to the pool.
KeepSession ==
  /\ pc = "join"
  /\ dog = "ended"
  /\ result = "ok"
  /\ idle' = Append(idle, session)
  /\ content' = session.facts
  /\ session' = NoSession
  /\ pc' = "finish"
  /\ UNCHANGED <<revision, changed, children, config, jobs, nextJob, busy,
                 restarts, capHits, target, result, answer, dogVars>>

\* Poisoned: the session is dropped.
PoisonSession ==
  /\ pc = "join"
  /\ dog = "ended"
  /\ result # "ok"
  /\ pc' = "drop"
  /\ UNCHANGED <<revision, changed, children, poolVars, target, session, result,
                 content, answer, dogVars>>

\* Drop for NativeWorker: stdin closed, then wait() for the child.
DropSession ==
  /\ pc = "drop"
  /\ ~Alive(session.child)
  /\ session' = NoSession
  /\ pc' = "finish"
  /\ UNCHANGED <<revision, changed, children, poolVars, target, result, content,
                 answer, dogVars>>

\* Its stdin closed, a child that waits for input exits; one that works gets
\* to read it only if it is not wedged or blocked on a full stdout.
Unplugged(c) ==
  \/ pc = "drop" /\ c = session.child
  \/ pc = "switch" /\ \E i \in DOMAIN idle : idle[i].child = c

ChildExits ==
  /\ \E c \in Children : Unplugged(c) /\ Alive(c) /\ Become(c, "dead")
  /\ UNCHANGED <<revision, changed, poolVars, callVars, dogVars>>

\* The part of ChildExits that has to happen.
ReadyChildExits ==
  ChildExits /\ \E c \in Children : children[c] = "ready" /\ children'[c] = "dead"

-----------------------------------------------------------------------------
(* The watchdog thread. *)

WatchdogSeesDone ==
  /\ dog = "armed"
  /\ done
  /\ dog' = "ended"
  /\ UNCHANGED <<revision, changed, children, poolVars, callVars, done, expired>>

\* The loop tests done, then the deadline, then takes the kill handle.
WatchdogLooks ==
  /\ \/ dog = "armed" /\ ~done /\ dog' = "checking"
     \/ dog = "checking" /\ dog' = IF expired THEN "killing" ELSE "armed"
  /\ UNCHANGED <<revision, changed, children, poolVars, callVars, done, expired>>

\* Fault: the handle is not free, and the watchdog gives up.
WatchdogGivesUp ==
  /\ dog = "killing"
  /\ dog' = "ended"
  /\ UNCHANGED <<revision, changed, children, poolVars, callVars, done, expired>>

\* A child that is already dead is only reaped.
WatchdogKills ==
  /\ dog = "killing"
  /\ dog' = "ended"
  /\ IF Alive(session.child)
       THEN Become(session.child, "dead")
       ELSE UNCHANGED children
  /\ UNCHANGED <<revision, changed, poolVars, callVars, done, expired>>

-----------------------------------------------------------------------------
(* The end of a call. *)

FinishJobRow(ok) ==
  jobs' = [i \in DOMAIN jobs |->
             IF jobs[i].id = nextJob - 1
               THEN [jobs[i] EXCEPT !.state = IF ok THEN "succeeded" ELSE "failed"]
               ELSE jobs[i]]

\* The call returns and its locals are gone.
EndCall ==
  /\ pc' = "none" /\ result' = "none" /\ content' = <<>>
  /\ dog' = "off" /\ done' = FALSE /\ expired' = FALSE

\* finish_job after a success; the document still lacks its revision.
FinishOk ==
  /\ pc = "finish"
  /\ result = "ok"
  /\ FinishJobRow(TRUE)
  /\ busy' = busy - 1
  /\ pc' = "stamp"
  /\ UNCHANGED <<revision, changed, children, config, idle, nextJob, restarts,
                 capHits, target, session, result, content, answer, dogVars>>

\* Fault: busy_workers is only given back by a success.
FinishErrStaysBusy ==
  /\ pc = "finish"
  /\ result # "ok"
  /\ FinishJobRow(FALSE)
  /\ restarts' = restarts + 1
  /\ answer' = [kind |-> "error", expired |-> FALSE, error |-> result]
  /\ EndCall
  /\ UNCHANGED <<revision, changed, children, config, idle, nextJob, busy,
                 capHits, target, session>>

\* finish_job after a failure; decompile_doc calls every process error a
\* missed deadline.
FinishErr ==
  /\ pc = "finish"
  /\ result # "ok"
  /\ FinishJobRow(FALSE)
  /\ busy' = busy - 1
  /\ restarts' = restarts + 1
  /\ answer' = [kind |-> "error", expired |-> dog = "ended" /\ expired,
                error |-> IF result = "process" THEN "deadline" ELSE result]
  /\ EndCall
  /\ UNCHANGED <<revision, changed, children, config, idle, nextJob, capHits,
                 target, session>>

\* Fault: the document carries the revision its worker was spawned at.
StampOldest ==
  /\ pc = "stamp"
  /\ answer' = [kind |-> "document", facts |-> content, revision |-> content[1]]
  /\ EndCall
  /\ UNCHANGED <<revision, changed, children, poolVars, target, session>>

\* WorkerPoolManager::decompile_doc stamps the store's revision of this
\* moment; opening the store can fail.
Stamp ==
  /\ pc = "stamp"
  /\ \/ answer' = [kind |-> "document", facts |-> content, revision |-> revision]
     \/ answer' = [kind |-> "error", error |-> "setup", expired |-> FALSE]
  /\ EndCall
  /\ UNCHANGED <<revision, changed, children, poolVars, target, session>>

-----------------------------------------------------------------------------
Call ==
  \/ \E cfg \in Configs : StartCall(cfg) \/ ReplacePool(cfg)
  \/ NewPool \/ LeaseIdle \/ ReadFacts \/ Launch \/ Registered
  \/ SpawnFails \/ RegisterFails \/ CapExceeded
  \/ StartOp \/ OpReturns \/ SetDone
  \/ KeepSession \/ PoisonSession \/ DropSession
  \/ FinishOk \/ FinishErr \/ Stamp

Watchdog == WatchdogSeesDone \/ WatchdogLooks \/ WatchdogKills

Next == Call \/ Watchdog \/ ChildExits \/ DeadlinePasses \/ Commit \/ Crash

Spec == Init /\ [][Next]_vars

(* What the scheduler and time owe: each thread runs, the end of a pipe    *)
(* reaches its reader, deadlines pass.  A working child owes nothing.      *)
CallerRuns ==
  \/ NewPool \/ LeaseIdle \/ ReadFacts \/ Launch \/ StartOp \/ SetDone
  \/ KeepSession \/ PoisonSession \/ DropSession \/ FinishOk \/ FinishErr \/ Stamp

EndOfPipe ==
  /\ session.child \in Children
  /\ children[session.child] = "dead"
  /\ OpReturns \/ RegisterFails

Fairness ==
  /\ WF_vars(CallerRuns)
  /\ WF_vars(EndOfPipe)
  /\ WF_vars(Watchdog)
  /\ WF_vars(DeadlinePasses)
  /\ WF_vars(ReadyChildExits)

FairSpec == Spec /\ Fairness

-----------------------------------------------------------------------------
(* Safety. *)

\* At most one ghidra_opt is alive, and it is the child of the warm session or
\* of the running call's: leases, failures, kills and a change of pool neither
\* leak a child nor run two at once (the pool has no limit of its own).
OneChild ==
  /\ Cardinality({c \in Children : Alive(c)}) <= 1
  /\ \A c \in Children : Alive(c) =>
       c = session.child \/ \E i \in DOMAIN idle : idle[i].child = c
  /\ Len(idle) + (IF session = NoSession THEN 0 ELSE 1) <= 1

\* A session whose operation failed is never leased again, whatever the
\* failure: its pipes may be out of step.
PoisonedNeverReused ==
  /\ \A i \in DOMAIN idle : ~idle[i].failed
  /\ pc \in {"cap", "op"} => ~session.failed

\* The counters and the rows of jobs_page agree on every path of a call, also
\* when the oldest rows have gone: running rows are the busy workers, ids are
\* consecutive, and every failed row was counted as a restart.
JobsAccounted ==
  LET Rows(state) == Cardinality({i \in DOMAIN jobs : jobs[i].state = state}) IN
  /\ busy = Rows("running")
  /\ pc \in {"none", "switch", "stamp"} => busy = 0
  /\ \A i \in DOMAIN jobs : jobs[i].id + (Len(jobs) - i) = nextJob - 1
  /\ Rows("failed") <= restarts
  /\ restarts + Rows("succeeded") + busy <= nextJob - 1

\* The watchdog of an operation kills only that operation's child, after its
\* deadline, and before the session can be leased again.
WatchdogKeepsToItsOp ==
  [][dog = "killing" /\ children' # children =>
       /\ expired /\ pc \in {"op", "returned", "join"}
       /\ \A c \in Children \ {session.child} : children'[c] = children[c]]_vars

\* "stamped with the durable store revision observed after the worker
\* returns": nothing in a document is newer than its stamp, so a caller that
\* refetches when the revision moves never skips a change.
StampCoversFacts ==
  answer.kind = "document" =>
    \A i \in DOMAIN answer.facts : answer.facts[i] <= answer.revision

-----------------------------------------------------------------------------
(* Liveness. *)

\* An operation on a leased worker ends even if the child never answers: the
\* deadline passes, the watchdog kills, the blocked read sees the end of the
\* pipe, and the call goes on to drop or keep the session.
GuardedOpEnds == pc = "op" ~> pc \in {"drop", "finish"}

-----------------------------------------------------------------------------
(* What the code's comments and documents say, and the code does not do. *)

\* "a stale document is detected by comparing against the current revision":
\* a document made from facts that had changed before it was delivered carries
\* a revision older than the current one.
StaleDocIsDetectable ==
  answer.kind = "document" =>
    ((\E i \in Tables : answer.facts[i] < changed[i]) => answer.revision < revision)

\* "deadline exceeded ...; worker killed, session poisoned": the error is only
\* returned when the deadline did pass.
DeadlineErrorIsTrue ==
  answer.kind = "error" => (answer.error = "deadline" => answer.expired)

\* "per-call deadlines (a wedged command is killed ...)": every call ends.
CallEnds == pc # "none" ~> pc = "none"
=============================================================================
