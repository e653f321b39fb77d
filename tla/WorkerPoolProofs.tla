-------------------------- MODULE WorkerPoolProofs --------------------------
(***************************************************************************)
(* Proofs about module WorkerPool, for every set of configurations, every  *)
(* number of children, calls, revisions and fact tables.                   *)
(*                                                                         *)
(* One inductive invariant, PoolInv, carries all of them: where the call   *)
(* is (pc) says who holds a session, which children can be alive, whether  *)
(* the watchdog runs, and how old the facts in hand are.                   *)
(***************************************************************************)
EXTENDS WorkerPool, FiniteSetTheorems, SequenceTheorems, TLAPS

\* The phases in which the call holds a session with a child.
Holding == {"register", "cap", "op", "returned", "join", "drop"}
\* The phases in which a job row is running.
Working == PCs \ {"none", "switch", "stamp"}

\* Who holds the sessions.
LeaseInv ==
  /\ pc \in Holding => session.child \in Children
  /\ pc = "facts" => session.child = NoChild
  /\ pc \notin Holding \union {"facts"} => session = NoSession
  /\ pc \in Holding \union {"facts"} => idle = <<>>
  /\ Len(idle) <= 1
  /\ \A i \in DOMAIN idle : idle[i].child \in Children

\* Nothing else runs.
ChildInv ==
  \A c \in Children : Alive(c) =>
    c = session.child \/ \E i \in DOMAIN idle : idle[i].child = c

\* Which sessions may have seen an error.
CleanInv ==
  /\ \A i \in DOMAIN idle : ~idle[i].failed
  /\ pc \in {"lease", "facts", "register", "cap", "op"} => ~session.failed
  /\ pc \in {"returned", "join"} => session.failed = (result # "ok")

\* When the watchdog can act.
DogInv ==
  /\ dog \in {"armed", "checking", "killing"} => pc \in {"op", "returned", "join"}
  /\ dog = "killing" => expired

\* Facts are never from the future.
NotAfter(facts, r) == \A i \in DOMAIN facts : facts[i] <= r
FactsInv ==
  /\ NotAfter(session.facts, revision)
  /\ \A i \in DOMAIN idle : NotAfter(idle[i].facts, revision)
  /\ NotAfter(content, revision)
  /\ answer.kind = "document" => NotAfter(answer.facts, answer.revision)

\* What bounds the counters.
CountInv ==
  /\ busy = IF pc \in Working THEN 1 ELSE 0
  /\ restarts + busy <= nextJob - 1
  /\ capHits <= restarts + (IF pc \in {"drop", "finish"} /\ result # "ok" THEN 1 ELSE 0)
  /\ pc \in {"drop", "finish", "returned", "join"} => result # "none"
  /\ pc = "drop" => result # "ok"

PoolInv ==
  /\ PoolTypeOK
  /\ LeaseInv
  /\ ChildInv
  /\ CleanInv
  /\ DogInv
  /\ FactsInv
  /\ CountInv

-----------------------------------------------------------------------------
(* Facts are the revisions of at most Len(ReadOrder) reads. *)

LEMMA FactsAreSeqs ==
  \A f : f \in Facts <=> f \in Seq(1 .. MaxRevision) /\ Len(f) <= Len(ReadOrder)
<1>1. ASSUME NEW f \in Facts
      PROVE  f \in Seq(1 .. MaxRevision) /\ Len(f) <= Len(ReadOrder)
  BY PoolAssumption DEF Facts
<1>2. ASSUME NEW f, f \in Seq(1 .. MaxRevision), Len(f) <= Len(ReadOrder)
      PROVE  f \in Facts
  <2>1. Len(f) \in 0 .. Len(ReadOrder) /\ f \in [1 .. Len(f) -> 1 .. MaxRevision]
    BY <1>2, PoolAssumption
  <2> QED
    BY <2>1 DEF Facts
<1> QED
  BY <1>1, <1>2

\* Reading one more table.
LEMMA ReadOneMore ==
  ASSUME NEW f \in Facts, Len(f) < Len(ReadOrder), NEW r \in 1 .. MaxRevision
  PROVE  Append(f, r) \in Facts
<1>1. f \in Seq(1 .. MaxRevision)
  BY FactsAreSeqs
<1>2. Append(f, r) \in Seq(1 .. MaxRevision) /\ Len(Append(f, r)) = Len(f) + 1
  BY <1>1
<1>3. Len(f) \in Nat /\ Len(Append(f, r)) <= Len(ReadOrder)
  BY <1>1, <1>2, PoolAssumption
<1> DEFINE g == Append(f, r)
<1> HIDE DEF g
<1>4. g \in Seq(1 .. MaxRevision) /\ Len(g) <= Len(ReadOrder)
  BY <1>2, <1>3 DEF g
<1> QED
  BY <1>4, FactsAreSeqs DEF g

LEMMA SingleElement ==
  ASSUME NEW S, NEW q \in Seq(S), q # <<>>, Len(q) <= 1
  PROVE  Len(q) = 1 /\ DOMAIN q = {1}
<1>1. Len(q) \in Nat /\ Len(q) # 0 /\ DOMAIN q = 1 .. Len(q)
  BY EmptySeq
<1> QED
  BY <1>1

LEMMA NoSessionTypes ==
  /\ NoSession \in Session
  /\ NoSession.child = NoChild /\ NoSession.facts = <<>> /\ ~NoSession.failed
  /\ <<>> \in Facts
<1>1. <<>> \in [1 .. 0 -> 1 .. MaxRevision]
  OBVIOUS
<1>2. <<>> \in Facts
  BY <1>1, PoolAssumption DEF Facts
<1> QED
  BY <1>2 DEF NoSession, Session

\* begin_job and finish_job keep the history a short sequence of job rows.
LEMMA BeginJobTypes ==
  ASSUME NEW rows \in Seq(Job), Len(rows) <= MaxJobs, NEW id \in 1 .. MaxCalls
  PROVE  BeginJob(rows, id) \in Seq(Job) /\ Len(BeginJob(rows, id)) <= MaxJobs
<1> DEFINE row == [id |-> id, state |-> "running"]
<1>1. row \in Job
  BY DEF Job
<1> HIDE DEF row
<1>2. Append(rows, row) \in Seq(Job) /\ Len(Append(rows, row)) = Len(rows) + 1
  BY <1>1
<1>3. Len(Append(rows, row)) > MaxJobs =>
        /\ Tail(Append(rows, row)) \in Seq(Job)
        /\ Len(Tail(Append(rows, row))) = Len(rows)
  BY <1>2, PoolAssumption
<1> QED
  BY <1>2, <1>3, PoolAssumption DEF BeginJob, row

LEMMA FinishJobTypes ==
  ASSUME jobs \in Seq(Job), NEW ok \in BOOLEAN, FinishJobRow(ok)
  PROVE  jobs' \in Seq(Job) /\ Len(jobs') = Len(jobs)
<1>1. ASSUME NEW i \in DOMAIN jobs
      PROVE  [jobs[i] EXCEPT !.state = IF ok THEN "succeeded" ELSE "failed"] \in Job
  <2>1. jobs[i] \in Job
    OBVIOUS
  <2> QED
    BY <2>1 DEF Job
<1>2. jobs' \in [1 .. Len(jobs) -> Job]
  BY <1>1 DEF FinishJobRow
<1> QED
  BY <1>2

-----------------------------------------------------------------------------
(* The actions by phase. *)

Leasing ==
  \/ \E cfg \in Configs : StartCall(cfg) \/ ReplacePool(cfg)
  \/ NewPool \/ LeaseIdle \/ ReadFacts \/ Launch

Operating ==
  \/ Registered \/ SpawnFails \/ RegisterFails \/ CapExceeded
  \/ StartOp \/ OpReturns \/ SetDone
  \/ KeepSession \/ PoisonSession \/ DropSession

Ending == FinishOk \/ FinishErr \/ Stamp

World == Watchdog \/ ChildExits \/ DeadlinePasses \/ Commit \/ Crash

LEMMA NextByPhase == Next => Leasing \/ Operating \/ Ending \/ World
BY DEF Next, Call, Leasing, Operating, Ending, World

-----------------------------------------------------------------------------
(* Every step keeps the types. *)

LEMMA LeaseTypes ==
  ASSUME PoolInv, Leasing
  PROVE  PoolTypeOK'
<1> USE DEF PoolInv
<1>1. ASSUME NEW cfg \in Configs, StartCall(cfg)
      PROVE  PoolTypeOK'
  BY <1>1, BeginJobTypes, PoolAssumption
     DEF StartCall, PoolTypeOK, dogVars, CountInv, Working, PCs
<1>2. ASSUME NEW cfg \in Configs, ReplacePool(cfg)
      PROVE  PoolTypeOK'
  BY <1>2 DEF ReplacePool, PoolTypeOK, poolVars, dogVars, PCs
<1>3. CASE NewPool
  <2>1. <<>> \in Seq(Job) /\ Len(<<>>) <= MaxJobs /\ 1 \in 1 .. MaxCalls
    BY PoolAssumption
  <2>2. BeginJob(<<>>, 1) \in Seq(Job) /\ Len(BeginJob(<<>>, 1)) <= MaxJobs
    BY <2>1, BeginJobTypes
  <2> QED
    BY <1>3, <2>2, PoolAssumption DEF NewPool, PoolTypeOK, dogVars, PCs
<1>4. CASE LeaseIdle
  <2>1. idle \in Seq(Session) /\ idle # <<>>
    BY <1>4 DEF LeaseIdle, PoolTypeOK
  <2>2. idle[Len(idle)] \in Session /\ SubSeq(idle, 1, Len(idle) - 1) \in Seq(Session)
    BY <2>1
  <2> QED
    BY <1>4, <2>2 DEF LeaseIdle, PoolTypeOK, dogVars, PCs
<1>5. CASE ReadFacts
  <2>1. Len(session.facts) < Len(ReadOrder) /\ session \in Session
    BY <1>5, NoSessionTypes, PoolAssumption
       DEF ReadFacts, PoolTypeOK, LeaseInv, Holding
  <2>2. Append(session.facts, revision) \in Facts
    BY <2>1, ReadOneMore DEF PoolTypeOK, Session
  <2>3. session' \in Session
    BY <1>5, <2>1, <2>2 DEF ReadFacts, Session
  <2> QED
    BY <1>5, <2>3 DEF ReadFacts, PoolTypeOK, poolVars, dogVars, PCs
<1>6. CASE Launch
  BY <1>6 DEF Launch, PoolTypeOK, Become, Session, poolVars, dogVars, PCs
<1> QED
  BY <1>1, <1>2, <1>3, <1>4, <1>5, <1>6 DEF Leasing

LEMMA OperationTypes ==
  ASSUME PoolInv, Operating
  PROVE  PoolTypeOK'
<1> USE DEF PoolInv
<1>1. CASE Registered
  BY <1>1 DEF Registered, PoolTypeOK, Become, poolVars, dogVars, PCs
<1>2. CASE SpawnFails
  BY <1>2, NoSessionTypes
     DEF SpawnFails, PoolTypeOK, OpErrors, poolVars, dogVars, PCs
<1>3. CASE RegisterFails
  BY <1>3 DEF RegisterFails, PoolTypeOK, Become, OpErrors, poolVars, dogVars, PCs
<1>4. CASE CapExceeded
  <2>1. capHits + 1 \in 0 .. MaxCalls
    BY <1>4, PoolAssumption DEF CapExceeded, PoolTypeOK, CountInv, Working, PCs
  <2>2. children' \in [Children -> {"unborn", "ready", "working", "dead"}]
    BY <1>4 DEF CapExceeded, PoolTypeOK, Become
  <2> QED
    BY <1>4, <2>1, <2>2 DEF CapExceeded, PoolTypeOK, OpErrors, dogVars, PCs
<1>5. CASE StartOp
  BY <1>5 DEF StartOp, PoolTypeOK, Become, poolVars, PCs
<1>6. CASE OpReturns
  <2>1. result' \in {"none", "ok"} \union OpErrors
    BY <1>6 DEF OpReturns, OpErrors
  <2>2. children' \in [Children -> {"unborn", "ready", "working", "dead"}]
    BY <1>6 DEF OpReturns, PoolTypeOK, Become
  <2>3. session' \in Session
    BY <1>6 DEF OpReturns, PoolTypeOK, Session
  <2> QED
    BY <1>6, <2>1, <2>2, <2>3 DEF OpReturns, PoolTypeOK, poolVars, dogVars, PCs
<1>7. CASE SetDone
  BY <1>7 DEF SetDone, PoolTypeOK, poolVars, PCs
<1>8. CASE KeepSession
  <2>1. Append(idle, session) \in Seq(Session) /\ session.facts \in Facts
    BY DEF PoolTypeOK, Session
  <2> QED
    BY <1>8, <2>1, NoSessionTypes DEF KeepSession, PoolTypeOK, dogVars, PCs
<1>9. CASE PoisonSession
  BY <1>9 DEF PoisonSession, PoolTypeOK, poolVars, dogVars, PCs
<1>10. CASE DropSession
  BY <1>10, NoSessionTypes DEF DropSession, PoolTypeOK, poolVars, dogVars, PCs
<1> QED
  BY <1>1, <1>2, <1>3, <1>4, <1>5, <1>6, <1>7, <1>8, <1>9, <1>10
     DEF Operating

LEMMA EndTypes ==
  ASSUME PoolInv, Ending
  PROVE  PoolTypeOK'
<1> USE DEF PoolInv
<1>1. CASE FinishOk
  <2>1. jobs' \in Seq(Job) /\ Len(jobs') <= MaxJobs
    BY <1>1, FinishJobTypes DEF FinishOk, PoolTypeOK
  <2> QED
    BY <1>1, <2>1 DEF FinishOk, PoolTypeOK, dogVars, PCs, CountInv, Working
<1>2. CASE FinishErr
  <2>1. answer' \in Answer
    BY <1>2 DEF FinishErr, PoolTypeOK, Answer, OpErrors, CountInv
  <2>2. busy' \in 0 .. 1 /\ restarts' \in 0 .. MaxCalls
    BY <1>2, PoolAssumption DEF FinishErr, PoolTypeOK, CountInv, Working, PCs
  <2> QED
    BY <1>2, <2>1, <2>2, FinishJobTypes, NoSessionTypes
       DEF FinishErr, EndCall, PoolTypeOK, PCs
<1>3. CASE Stamp
  <2>1. [kind |-> "document", facts |-> content, revision |-> revision]
          \in [kind : {"document"}, facts : Facts, revision : 1 .. MaxRevision]
    BY DEF PoolTypeOK
  <2>2. [kind |-> "error", error |-> "setup", expired |-> FALSE]
          \in [kind : {"error"}, error : {"deadline"} \union OpErrors, expired : BOOLEAN]
    BY DEF OpErrors
  <2>3. answer' \in Answer
    BY <1>3, <2>1, <2>2, Zenon DEF Stamp, Answer
  <2> QED
    BY <1>3, <2>3, NoSessionTypes DEF Stamp, EndCall, PoolTypeOK, poolVars, PCs
<1> QED
  BY <1>1, <1>2, <1>3 DEF Ending

LEMMA WorldTypes ==
  ASSUME PoolInv, World
  PROVE  PoolTypeOK'
<1> USE DEF PoolInv
<1>1. CASE Watchdog
  BY <1>1 DEF Watchdog, WatchdogSeesDone, WatchdogLooks, WatchdogKills, Become,
              PoolTypeOK, poolVars, callVars
<1>2. CASE ChildExits \/ Crash
  BY <1>2 DEF ChildExits, Crash, Become, PoolTypeOK, poolVars, callVars, dogVars
<1>3. CASE DeadlinePasses
  BY <1>3 DEF DeadlinePasses, PoolTypeOK, poolVars, callVars
<1>4. CASE Commit
  <2>1. revision' \in 1 .. MaxRevision
    BY <1>4, PoolAssumption DEF Commit, PoolTypeOK
  <2>2. changed' \in [Tables -> 0 .. MaxRevision]
    BY <1>4, PoolAssumption DEF Commit, PoolTypeOK
  <2> QED
    BY <1>4, <2>1, <2>2 DEF Commit, PoolTypeOK, poolVars, callVars, dogVars
<1> QED
  BY <1>1, <1>2, <1>3, <1>4 DEF World


LEMMA TypeStep == PoolInv /\ Next => PoolTypeOK'
BY NextByPhase, LeaseTypes, OperationTypes, EndTypes, WorldTypes

-----------------------------------------------------------------------------
(* Every step keeps the other conjuncts. *)

\* A session is taken by the call or given back, never both.
LEMMA LeaseStep ==
  ASSUME PoolInv, Next
  PROVE  LeaseInv'
<1> USE DEF PoolInv, PoolTypeOK
<1>1. CASE Leasing
  BY <1>1, PoolAssumption, NoSessionTypes, SMTT(30)
     DEF Leasing, StartCall, ReplacePool, NewPool, LeaseIdle, ReadFacts,
         Launch, poolVars, callVars, dogVars, LeaseInv, Holding, Session
<1>2. CASE Operating
  BY <1>2, PoolAssumption, NoSessionTypes, SMTT(30)
     DEF Operating, Registered, SpawnFails, RegisterFails, CapExceeded,
         StartOp, OpReturns, SetDone, KeepSession, PoisonSession, DropSession,
         poolVars, callVars, dogVars, LeaseInv, Holding, Session
<1>3. CASE FinishOk
  BY <1>3, PoolAssumption, NoSessionTypes
     DEF FinishOk, dogVars, LeaseInv, Holding, Session
<1>4. CASE FinishErr
  BY <1>4, PoolAssumption, NoSessionTypes
     DEF FinishErr, EndCall, LeaseInv, Holding, Session
<1>5. CASE Stamp
  BY <1>5, PoolAssumption, NoSessionTypes
     DEF Stamp, poolVars, EndCall, LeaseInv, Holding, Session
<1>6. CASE World
  BY <1>6, PoolAssumption, NoSessionTypes, SMTT(30)
     DEF World, Watchdog, WatchdogSeesDone, WatchdogLooks, WatchdogKills,
         ChildExits, DeadlinePasses, Commit, Crash, poolVars, callVars,
         dogVars, LeaseInv, Holding, Session
<1> QED
  BY <1>1, <1>2, <1>3, <1>4, <1>5, <1>6, NextByPhase
     DEF Ending

\* Only a session whose operation succeeded goes back.
LEMMA CleanStep ==
  ASSUME PoolInv, Next
  PROVE  CleanInv'
<1> USE DEF PoolInv, PoolTypeOK
<1>1. ASSUME NEW cfg \in Configs, StartCall(cfg)
      PROVE  CleanInv'
  BY <1>1, PoolAssumption, NoSessionTypes
     DEF StartCall, dogVars, CleanInv, LeaseInv, Holding
<1>2. ASSUME NEW cfg \in Configs, ReplacePool(cfg)
      PROVE  CleanInv'
  BY <1>2, PoolAssumption, NoSessionTypes
     DEF ReplacePool, poolVars, dogVars, CleanInv, LeaseInv, Holding
<1>3. CASE NewPool
  BY <1>3, PoolAssumption, NoSessionTypes
     DEF NewPool, dogVars, Alive, CleanInv, LeaseInv, Holding
<1>4. CASE LeaseIdle
  BY <1>4, PoolAssumption, NoSessionTypes
     DEF LeaseIdle, dogVars, CleanInv, LeaseInv, Holding
<1>5. CASE ReadFacts
  BY <1>5, PoolAssumption, NoSessionTypes
     DEF ReadFacts, poolVars, dogVars, CleanInv, LeaseInv, Holding
<1>6. CASE Launch
  BY <1>6, PoolAssumption, NoSessionTypes
     DEF Launch, poolVars, dogVars, Become, CleanInv, LeaseInv, Holding
<1>7. CASE Registered
  BY <1>7, PoolAssumption, NoSessionTypes
     DEF Registered, poolVars, dogVars, Become, CleanInv, LeaseInv, Holding
<1>8. CASE SpawnFails
  BY <1>8, PoolAssumption, NoSessionTypes
     DEF SpawnFails, poolVars, dogVars, CleanInv, LeaseInv, Holding
<1>9. CASE RegisterFails
  BY <1>9, PoolAssumption, NoSessionTypes
     DEF RegisterFails, poolVars, dogVars, Become, CleanInv, LeaseInv, Holding
<1>10. CASE CapExceeded
  BY <1>10, PoolAssumption, NoSessionTypes
     DEF CapExceeded, dogVars, Become, Alive, CleanInv, LeaseInv, Holding
<1>11. CASE StartOp
  BY <1>11, PoolAssumption, NoSessionTypes
     DEF StartOp, poolVars, Become, CleanInv, LeaseInv, Holding
<1>12. CASE OpReturns
  BY <1>12, PoolAssumption, NoSessionTypes
     DEF OpReturns, poolVars, dogVars, Become, CleanInv, LeaseInv, Holding
<1>13. CASE SetDone
  BY <1>13, PoolAssumption, NoSessionTypes
     DEF SetDone, poolVars, CleanInv, LeaseInv, Holding
<1>14. CASE KeepSession
  <2>1. idle = <<>> /\ ~session.failed
    BY <1>14 DEF KeepSession, CleanInv, LeaseInv, Holding
  <2>2. idle' = <<session>>
    BY <1>14, <2>1 DEF KeepSession
  <2> QED
    BY <1>14, <2>1, <2>2, NoSessionTypes DEF KeepSession, CleanInv
<1>15. CASE PoisonSession
  BY <1>15, PoolAssumption, NoSessionTypes
     DEF PoisonSession, poolVars, dogVars, CleanInv, LeaseInv, Holding
<1>16. CASE DropSession
  BY <1>16, PoolAssumption, NoSessionTypes
     DEF DropSession, poolVars, dogVars, Alive, CleanInv, LeaseInv, Holding
<1>17. CASE FinishOk
  BY <1>17, PoolAssumption, NoSessionTypes
     DEF FinishOk, dogVars, CleanInv, LeaseInv, Holding
<1>18. CASE FinishErr
  BY <1>18, PoolAssumption, NoSessionTypes
     DEF FinishErr, EndCall, CleanInv, LeaseInv, Holding
<1>19. CASE Stamp
  BY <1>19, PoolAssumption, NoSessionTypes
     DEF Stamp, poolVars, EndCall, CleanInv, LeaseInv, Holding
<1>20. CASE Watchdog
  BY <1>20, PoolAssumption, NoSessionTypes
     DEF Watchdog, WatchdogSeesDone, WatchdogLooks, WatchdogKills, Become,
         Alive, poolVars, callVars, CleanInv, LeaseInv, Holding
<1>21. CASE ChildExits
  BY <1>21, PoolAssumption, NoSessionTypes
     DEF ChildExits, poolVars, callVars, dogVars, Become, Alive, CleanInv,
         LeaseInv, Holding
<1>22. CASE DeadlinePasses
  BY <1>22, PoolAssumption, NoSessionTypes
     DEF DeadlinePasses, poolVars, callVars, CleanInv, LeaseInv, Holding
<1>23. CASE Commit
  BY <1>23, PoolAssumption, NoSessionTypes
     DEF Commit, poolVars, callVars, dogVars, CleanInv, LeaseInv, Holding
<1>24. CASE Crash
  BY <1>24, PoolAssumption, NoSessionTypes
     DEF Crash, poolVars, callVars, dogVars, Become, Alive, CleanInv, LeaseInv,
         Holding
<1> QED
  BY <1>1, <1>2, <1>3, <1>4, <1>5, <1>6, <1>7, <1>8, <1>9, <1>10, <1>11, <1>12,
     <1>13, <1>14, <1>15, <1>16, <1>17, <1>18, <1>19, <1>20, <1>21, <1>22,
     <1>23, <1>24, NextByPhase
     DEF Leasing, Operating, Ending, World

\* The join ends the watchdog before the session is released.
LEMMA DogStep ==
  ASSUME PoolInv, Next
  PROVE  DogInv'
<1> USE DEF PoolInv, PoolTypeOK
<1>1. CASE Leasing
  BY <1>1, PoolAssumption, NoSessionTypes, SMTT(30)
     DEF Leasing, StartCall, ReplacePool, NewPool, LeaseIdle, ReadFacts,
         Launch, poolVars, callVars, dogVars, DogInv
<1>2. CASE Operating
  BY <1>2, PoolAssumption, NoSessionTypes, SMTT(30)
     DEF Operating, Registered, SpawnFails, RegisterFails, CapExceeded,
         StartOp, OpReturns, SetDone, KeepSession, PoisonSession, DropSession,
         poolVars, callVars, dogVars, DogInv
<1>3. CASE FinishOk
  BY <1>3, PoolAssumption, NoSessionTypes
     DEF FinishOk, dogVars, DogInv
<1>4. CASE FinishErr
  BY <1>4, PoolAssumption, NoSessionTypes
     DEF FinishErr, EndCall, DogInv
<1>5. CASE Stamp
  BY <1>5, PoolAssumption, NoSessionTypes
     DEF Stamp, poolVars, EndCall, DogInv
<1>6. CASE World
  BY <1>6, PoolAssumption, NoSessionTypes, SMTT(30)
     DEF World, Watchdog, WatchdogSeesDone, WatchdogLooks, WatchdogKills,
         ChildExits, DeadlinePasses, Commit, Crash, poolVars, callVars,
         dogVars, DogInv
<1> QED
  BY <1>1, <1>2, <1>3, <1>4, <1>5, <1>6, NextByPhase
     DEF Ending

\* Each failed call is a restart, each memory-cap kill a failed call.
LEMMA CountStep ==
  ASSUME PoolInv, Next
  PROVE  CountInv'
<1> USE DEF PoolInv, PoolTypeOK
<1>1. CASE Leasing
  BY <1>1, PoolAssumption, NoSessionTypes, SMTT(30)
     DEF Leasing, StartCall, ReplacePool, NewPool, LeaseIdle, ReadFacts,
         Launch, poolVars, callVars, dogVars, CountInv, Working, PCs, OpErrors
<1>2. CASE Operating
  BY <1>2, PoolAssumption, NoSessionTypes, SMTT(30)
     DEF Operating, Registered, SpawnFails, RegisterFails, CapExceeded,
         StartOp, OpReturns, SetDone, KeepSession, PoisonSession, DropSession,
         poolVars, callVars, dogVars, CountInv, Working, PCs, OpErrors
<1>3. CASE FinishOk
  BY <1>3, PoolAssumption, NoSessionTypes
     DEF FinishOk, dogVars, CountInv, Working, PCs, OpErrors
<1>4. CASE FinishErr
  BY <1>4, PoolAssumption, NoSessionTypes
     DEF FinishErr, EndCall, CountInv, Working, PCs, OpErrors
<1>5. CASE Stamp
  BY <1>5, PoolAssumption, NoSessionTypes
     DEF Stamp, poolVars, EndCall, CountInv, Working, PCs, OpErrors
<1>6. CASE World
  BY <1>6, PoolAssumption, NoSessionTypes, SMTT(30)
     DEF World, Watchdog, WatchdogSeesDone, WatchdogLooks, WatchdogKills,
         ChildExits, DeadlinePasses, Commit, Crash, poolVars, callVars,
         dogVars, CountInv, Working, PCs, OpErrors
<1> QED
  BY <1>1, <1>2, <1>3, <1>4, <1>5, <1>6, NextByPhase
     DEF Ending

\* A session is released only when its child is dead or warm.
LEMMA ChildStep ==
  ASSUME PoolInv, Next
  PROVE  ChildInv'
<1> USE DEF PoolInv, PoolTypeOK
<1>1. ASSUME NEW cfg \in Configs, StartCall(cfg)
      PROVE  ChildInv'
  BY <1>1, PoolAssumption, NoSessionTypes
     DEF StartCall, dogVars, ChildInv, LeaseInv, Holding, Alive
<1>2. ASSUME NEW cfg \in Configs, ReplacePool(cfg)
      PROVE  ChildInv'
  BY <1>2, PoolAssumption, NoSessionTypes
     DEF ReplacePool, poolVars, dogVars, ChildInv, LeaseInv, Holding, Alive
<1>3. CASE NewPool
  BY <1>3, PoolAssumption, NoSessionTypes
     DEF NewPool, dogVars, Alive, ChildInv, LeaseInv, Holding
<1>4. CASE LeaseIdle
  <2>1. idle \in Seq(Session) /\ Len(idle) = 1 /\ session = NoSession
    <3>1. idle \in Seq(Session) /\ idle # <<>> /\ Len(idle) <= 1
      BY <1>4 DEF LeaseIdle, LeaseInv
    <3>2. Len(idle) = 1
      BY <3>1, SingleElement
    <3> QED
      BY <1>4, <3>1, <3>2 DEF LeaseIdle, LeaseInv, Holding
  <2>2. session' = idle[1]
    BY <1>4, <2>1 DEF LeaseIdle
  <2>3. ASSUME NEW c \in Children, Alive(c)
        PROVE  c = idle[1].child
    BY <2>1, <2>3, NoSessionTypes, PoolAssumption DEF ChildInv, Children
  <2> QED
    BY <1>4, <2>2, <2>3 DEF LeaseIdle, ChildInv, Alive
<1>5. CASE ReadFacts
  BY <1>5, PoolAssumption, NoSessionTypes
     DEF ReadFacts, poolVars, dogVars, ChildInv, LeaseInv, Holding, Alive
<1>6. CASE Launch
  <2>1. \A c \in Children : ~Alive(c)
    BY <1>6, PoolAssumption DEF Launch, ChildInv, LeaseInv, Holding, Children
  <2>2. PICK b \in Children : Become(b, "working") /\ session'.child = b
    BY <1>6 DEF Launch, Session
  <2> QED
    BY <2>1, <2>2 DEF ChildInv, Alive, Become
<1>7. CASE Registered
  BY <1>7, PoolAssumption, NoSessionTypes
     DEF Registered, poolVars, dogVars, Become, ChildInv, LeaseInv, Holding,
         Alive
<1>8. CASE SpawnFails
  BY <1>8, PoolAssumption, NoSessionTypes
     DEF SpawnFails, poolVars, dogVars, ChildInv, LeaseInv, Holding, Alive
<1>9. CASE RegisterFails
  BY <1>9, PoolAssumption, NoSessionTypes
     DEF RegisterFails, poolVars, dogVars, Become, ChildInv, LeaseInv, Holding,
         Alive
<1>10. CASE CapExceeded
  BY <1>10, PoolAssumption, NoSessionTypes
     DEF CapExceeded, dogVars, Become, Alive, ChildInv, LeaseInv, Holding
<1>11. CASE StartOp
  BY <1>11, PoolAssumption, NoSessionTypes
     DEF StartOp, poolVars, Become, ChildInv, LeaseInv, Holding, Alive
<1>12. CASE OpReturns
  BY <1>12, PoolAssumption, NoSessionTypes
     DEF OpReturns, poolVars, dogVars, Become, ChildInv, LeaseInv, Holding,
         Alive
<1>13. CASE SetDone
  BY <1>13, PoolAssumption, NoSessionTypes
     DEF SetDone, poolVars, ChildInv, LeaseInv, Holding, Alive
<1>14. CASE KeepSession
  BY <1>14, PoolAssumption, NoSessionTypes
     DEF KeepSession, dogVars, ChildInv, LeaseInv, Holding, Alive
<1>15. CASE PoisonSession
  BY <1>15, PoolAssumption, NoSessionTypes
     DEF PoisonSession, poolVars, dogVars, ChildInv, LeaseInv, Holding, Alive
<1>16. CASE DropSession
  BY <1>16, PoolAssumption, NoSessionTypes
     DEF DropSession, poolVars, dogVars, Alive, ChildInv, LeaseInv, Holding
<1>17. CASE FinishOk
  BY <1>17, PoolAssumption, NoSessionTypes
     DEF FinishOk, dogVars, ChildInv, LeaseInv, Holding, Alive
<1>18. CASE FinishErr
  BY <1>18, PoolAssumption, NoSessionTypes
     DEF FinishErr, EndCall, ChildInv, LeaseInv, Holding, Alive
<1>19. CASE Stamp
  BY <1>19, PoolAssumption, NoSessionTypes
     DEF Stamp, poolVars, EndCall, ChildInv, LeaseInv, Holding, Alive
<1>20. CASE Watchdog
  BY <1>20, PoolAssumption, NoSessionTypes
     DEF Watchdog, WatchdogSeesDone, WatchdogLooks, WatchdogKills, Become,
         Alive, poolVars, callVars, ChildInv, LeaseInv, Holding
<1>21. CASE ChildExits
  BY <1>21, PoolAssumption, NoSessionTypes
     DEF ChildExits, poolVars, callVars, dogVars, Become, Alive, ChildInv,
         LeaseInv, Holding
<1>22. CASE DeadlinePasses
  BY <1>22, PoolAssumption, NoSessionTypes
     DEF DeadlinePasses, poolVars, callVars, ChildInv, LeaseInv, Holding,
         Alive
<1>23. CASE Commit
  BY <1>23, PoolAssumption, NoSessionTypes
     DEF Commit, poolVars, callVars, dogVars, ChildInv, LeaseInv, Holding,
         Alive
<1>24. CASE Crash
  BY <1>24, PoolAssumption, NoSessionTypes
     DEF Crash, poolVars, callVars, dogVars, Become, Alive, ChildInv, LeaseInv,
         Holding
<1> QED
  BY <1>1, <1>2, <1>3, <1>4, <1>5, <1>6, <1>7, <1>8, <1>9, <1>10, <1>11, <1>12,
     <1>13, <1>14, <1>15, <1>16, <1>17, <1>18, <1>19, <1>20, <1>21, <1>22,
     <1>23, <1>24, NextByPhase
     DEF Leasing, Operating, Ending, World

\* Facts are read at the current revision, which only grows.
LEMMA FactsStep ==
  ASSUME PoolInv, Next
  PROVE  FactsInv'
<1> USE DEF PoolInv, PoolTypeOK
<1>1. ASSUME NEW cfg \in Configs, StartCall(cfg)
      PROVE  FactsInv'
  BY <1>1, PoolAssumption, NoSessionTypes
     DEF StartCall, dogVars, FactsInv, NotAfter, LeaseInv, Holding
<1>2. ASSUME NEW cfg \in Configs, ReplacePool(cfg)
      PROVE  FactsInv'
  BY <1>2, PoolAssumption, NoSessionTypes
     DEF ReplacePool, poolVars, dogVars, FactsInv, NotAfter, LeaseInv, Holding
<1>3. CASE NewPool
  BY <1>3, PoolAssumption, NoSessionTypes
     DEF NewPool, dogVars, Alive, FactsInv, NotAfter, LeaseInv, Holding
<1>4. CASE LeaseIdle
  BY <1>4, PoolAssumption, NoSessionTypes
     DEF LeaseIdle, dogVars, FactsInv, NotAfter, LeaseInv, Holding
<1>5. CASE ReadFacts
  <2>1. NotAfter(session.facts, revision) /\ session \in Session
    BY DEF FactsInv
  <2>2. session.facts \in Seq(1 .. MaxRevision)
    BY <2>1, FactsAreSeqs DEF Session
  <2>3. session'.facts = Append(session.facts, revision)
    BY <1>5, <2>1 DEF ReadFacts, Session
  <2>4. NotAfter(session'.facts, revision)
    BY <2>1, <2>2, <2>3 DEF NotAfter
  <2> QED
    BY <1>5, <2>4 DEF ReadFacts, FactsInv, poolVars
<1>6. CASE Launch
  BY <1>6, PoolAssumption, NoSessionTypes
     DEF Launch, poolVars, dogVars, Become, FactsInv, NotAfter, LeaseInv,
         Holding
<1>7. CASE Registered
  BY <1>7, PoolAssumption, NoSessionTypes
     DEF Registered, poolVars, dogVars, Become, FactsInv, NotAfter, LeaseInv,
         Holding
<1>8. CASE SpawnFails
  BY <1>8, PoolAssumption, NoSessionTypes
     DEF SpawnFails, poolVars, dogVars, FactsInv, NotAfter, LeaseInv, Holding
<1>9. CASE RegisterFails
  BY <1>9, PoolAssumption, NoSessionTypes
     DEF RegisterFails, poolVars, dogVars, Become, FactsInv, NotAfter,
         LeaseInv, Holding
<1>10. CASE CapExceeded
  BY <1>10, PoolAssumption, NoSessionTypes
     DEF CapExceeded, dogVars, Become, Alive, FactsInv, NotAfter, LeaseInv,
         Holding
<1>11. CASE StartOp
  BY <1>11, PoolAssumption, NoSessionTypes
     DEF StartOp, poolVars, Become, FactsInv, NotAfter, LeaseInv, Holding
<1>12. CASE OpReturns
  BY <1>12, PoolAssumption, NoSessionTypes
     DEF OpReturns, poolVars, dogVars, Become, FactsInv, NotAfter, LeaseInv,
         Holding
<1>13. CASE SetDone
  BY <1>13, PoolAssumption, NoSessionTypes
     DEF SetDone, poolVars, FactsInv, NotAfter, LeaseInv, Holding
<1>14. CASE KeepSession
  BY <1>14, PoolAssumption, NoSessionTypes
     DEF KeepSession, dogVars, FactsInv, NotAfter, LeaseInv, Holding
<1>15. CASE PoisonSession
  BY <1>15, PoolAssumption, NoSessionTypes
     DEF PoisonSession, poolVars, dogVars, FactsInv, NotAfter, LeaseInv,
         Holding
<1>16. CASE DropSession
  BY <1>16, PoolAssumption, NoSessionTypes
     DEF DropSession, poolVars, dogVars, Alive, FactsInv, NotAfter, LeaseInv,
         Holding
<1>17. CASE FinishOk
  BY <1>17, PoolAssumption, NoSessionTypes
     DEF FinishOk, dogVars, FactsInv, NotAfter, LeaseInv, Holding
<1>18. CASE FinishErr
  BY <1>18, PoolAssumption, NoSessionTypes
     DEF FinishErr, EndCall, FactsInv, NotAfter, LeaseInv, Holding
<1>19. CASE Stamp
  BY <1>19, PoolAssumption, NoSessionTypes
     DEF Stamp, poolVars, EndCall, FactsInv, NotAfter, LeaseInv, Holding
<1>20. CASE Watchdog
  BY <1>20, PoolAssumption, NoSessionTypes
     DEF Watchdog, WatchdogSeesDone, WatchdogLooks, WatchdogKills, Become,
         Alive, poolVars, callVars, FactsInv, NotAfter, LeaseInv, Holding
<1>21. CASE ChildExits
  BY <1>21, PoolAssumption, NoSessionTypes
     DEF ChildExits, poolVars, callVars, dogVars, Become, Alive, FactsInv,
         NotAfter, LeaseInv, Holding
<1>22. CASE DeadlinePasses
  BY <1>22, PoolAssumption, NoSessionTypes
     DEF DeadlinePasses, poolVars, callVars, FactsInv, NotAfter, LeaseInv,
         Holding
<1>23. CASE Commit
  <2>1. ASSUME NEW f \in Facts, NotAfter(f, revision)
        PROVE  NotAfter(f, revision')
    <3>1. f \in Seq(1 .. MaxRevision)
      BY FactsAreSeqs
    <3> QED
      BY <1>23, <2>1, <3>1, PoolAssumption DEF Commit, NotAfter
  <2>2. session.facts \in Facts /\ \A i \in DOMAIN idle : idle[i].facts \in Facts
    <3>1. idle \in Seq(Session) /\ session \in Session
      OBVIOUS
    <3>2. \A i \in DOMAIN idle : idle[i] \in Session
      BY <3>1
    <3> QED
      BY <3>1, <3>2 DEF Session
  <2> QED
    BY <1>23, <2>1, <2>2 DEF Commit, FactsInv, poolVars, callVars
<1>24. CASE Crash
  BY <1>24, PoolAssumption, NoSessionTypes
     DEF Crash, poolVars, callVars, dogVars, Become, Alive, FactsInv, NotAfter,
         LeaseInv, Holding
<1> QED
  BY <1>1, <1>2, <1>3, <1>4, <1>5, <1>6, <1>7, <1>8, <1>9, <1>10, <1>11, <1>12,
     <1>13, <1>14, <1>15, <1>16, <1>17, <1>18, <1>19, <1>20, <1>21, <1>22,
     <1>23, <1>24, NextByPhase
     DEF Leasing, Operating, Ending, World

-----------------------------------------------------------------------------
(* The invariant, and what follows from it. *)

LEMMA InitPoolInv == Init => PoolInv
<1> SUFFICES ASSUME Init PROVE PoolInv
  OBVIOUS
<1> USE PoolAssumption, NoSessionTypes DEF Init
<1>1. PoolTypeOK
  <2>1. idle \in Seq(Session) /\ jobs \in Seq(Job) /\ Len(jobs) <= MaxJobs
    OBVIOUS
  <2>2. answer \in Answer
    BY DEF Answer
  <2>3. /\ revision \in 1 .. MaxRevision
        /\ changed \in [Tables -> 0 .. MaxRevision]
        /\ children \in [Children -> {"unborn", "ready", "working", "dead"}]
        /\ nextJob \in 1 .. MaxCalls + 1
        /\ restarts \in 0 .. MaxCalls /\ capHits \in 0 .. MaxCalls
    OBVIOUS
  <2>4. /\ config \in Configs \union {NoPool} /\ target \in Configs \union {NoPool}
        /\ busy \in 0 .. 1
        /\ session \in Session /\ content \in Facts
    OBVIOUS
  <2>5. /\ pc \in PCs
        /\ result \in {"none", "ok"} \union OpErrors
        /\ done \in BOOLEAN /\ expired \in BOOLEAN
        /\ dog \in {"off", "armed", "checking", "killing", "ended"}
    BY DEF PCs
  <2> HIDE DEF Init
  <2> QED
    BY <2>1, <2>2, <2>3, <2>4, <2>5 DEF PoolTypeOK
<1>2. LeaseInv /\ ChildInv /\ CleanInv /\ DogInv
  BY DEF LeaseInv, Holding, ChildInv, Alive, CleanInv, DogInv
<1>3. FactsInv /\ CountInv
  BY DEF FactsInv, NotAfter, CountInv, Working
<1> QED
  BY <1>1, <1>2, <1>3 DEF PoolInv

LEMMA StutterPoolInv == PoolInv /\ UNCHANGED vars => PoolInv'
BY DEF PoolInv, PoolTypeOK, LeaseInv, ChildInv, Alive, CleanInv, DogInv, FactsInv,
       NotAfter, CountInv, vars, poolVars, callVars, dogVars

\* Every step of the call, of the watchdog, of a child, of another connection
\* and of time keeps PoolInv.
THEOREM PoolInvariant == Spec => []PoolInv
<1>1. PoolInv /\ [Next]_vars => PoolInv'
  BY TypeStep, LeaseStep, ChildStep, CleanStep, DogStep, FactsStep, CountStep,
     StutterPoolInv DEF PoolInv
<1> QED
  BY <1>1, InitPoolInv, PTL DEF Spec

\* Every reachable state of the pool, its children, its watchdog and the
\* running call is of the declared types; in particular busy is 0 or 1 and
\* the job history never exceeds MaxJobs.
THEOREM PoolTypes == Spec => []PoolTypeOK
<1>1. PoolInv => PoolTypeOK
  BY DEF PoolInv
<1> QED
  BY <1>1, PoolInvariant, PTL

\* However many children are ever launched, at most one ghidra_opt is alive,
\* and the call or the warm session owns it.
THEOREM OneChildAlive == Spec => []OneChild
<1>1. ASSUME PoolInv
      PROVE  OneChild
  <2> USE <1>1 DEF PoolInv
  <2> DEFINE alive == {c \in Children : Alive(c)}
  <2>1. Len(idle) + (IF session = NoSession THEN 0 ELSE 1) <= 1
    BY DEF PoolTypeOK, LeaseInv
  <2>2. PICK b : alive \subseteq {b}
    <3>1. CASE idle = <<>>
      BY <3>1 DEF ChildInv
    <3>2. CASE idle # <<>>
      <4>1. idle \in Seq(Session) /\ Len(idle) <= 1
        BY DEF PoolTypeOK, LeaseInv
      <4>2. DOMAIN idle = {1}
        BY <3>2, <4>1, SingleElement
      <4>3. session = NoSession
        BY <3>2 DEF LeaseInv
      <4>4. alive \subseteq {idle[1].child}
        BY <4>2, <4>3, NoSessionTypes, PoolAssumption DEF ChildInv, Children
      <4> QED
        BY <4>4
    <3> QED
      BY <3>1, <3>2
  <2>3. Cardinality(alive) <= 1
    <3>1. IsFiniteSet({b}) /\ Cardinality({b}) = 1
      BY FS_Singleton
    <3> HIDE DEF alive
    <3> QED
      BY <2>2, <3>1, FS_Subset, FS_CardinalityType
  <2> QED
    BY <2>1, <2>3 DEF OneChild, ChildInv
<1> QED
  BY <1>1, PoolInvariant, PTL

\* No operation ever runs on a session that has returned an error.
THEOREM NoPoisonedReuse == Spec => []PoisonedNeverReused
<1>1. PoolInv => PoisonedNeverReused
  BY DEF PoolInv, CleanInv, PoisonedNeverReused
<1> QED
  BY <1>1, PoolInvariant, PTL

\* No document holds a fact newer than its stamp, whatever is committed while
\* spawn reads its tables.
THEOREM StampsCover == Spec => []StampCoversFacts
<1>1. PoolInv => StampCoversFacts
  BY DEF PoolInv, FactsInv, NotAfter, StampCoversFacts
<1> QED
  BY <1>1, PoolInvariant, PTL

\* The watchdog kills nothing but the child of the operation it guards, after
\* the deadline and before the session is released.
THEOREM WatchdogIsConfined == Spec => WatchdogKeepsToItsOp
<1> DEFINE Confined ==
      dog = "killing" /\ children' # children =>
        /\ expired /\ pc \in {"op", "returned", "join"}
        /\ \A c \in Children \ {session.child} : children'[c] = children[c]
<1>1. ASSUME PoolInv, [Next]_vars
      PROVE  Confined
  <2> SUFFICES ASSUME dog = "killing", children' # children
               PROVE  /\ expired /\ pc \in {"op", "returned", "join"}
                      /\ \A c \in Children \ {session.child} : children'[c] = children[c]
    OBVIOUS
  <2>1. expired /\ pc \in {"op", "returned", "join"}
    BY <1>1 DEF PoolInv, DogInv
  <2>2. \A c \in Children \ {session.child} : ~Alive(c)
    BY <1>1, <2>1 DEF PoolInv, LeaseInv, Holding, ChildInv
  <2>3. \A c \in Children : children'[c] # children[c] => Alive(c)
    BY <1>1, <2>1 DEF PoolInv, PoolTypeOK, LeaseInv, Holding, Next, Call, StartCall,
       ReplacePool, NewPool, LeaseIdle, ReadFacts, Launch, Registered, SpawnFails,
       RegisterFails, CapExceeded, StartOp, OpReturns, SetDone, KeepSession,
       PoisonSession, DropSession, FinishOk, FinishErr, Stamp, Watchdog,
       WatchdogSeesDone, WatchdogLooks, WatchdogKills, ChildExits, DeadlinePasses,
       Commit, Crash, Become, Alive, poolVars, callVars, dogVars, vars
  <2> QED
    BY <2>1, <2>2, <2>3
<1> QED
  BY <1>1, PoolInvariant, PTL DEF Spec, WatchdogKeepsToItsOp

-----------------------------------------------------------------------------
(* The job history.  A second invariant, above PoolInv: the rows are a     *)
(* window on the consecutive job ids that ends at the newest one, and only *)
(* that newest row can be running.                                         *)

RowsIn(rows, state) == {i \in DOMAIN rows : rows[i].state = state}

IdsInv == \A i \in DOMAIN jobs : jobs[i].id + (Len(jobs) - i) = nextJob - 1

RunningInv ==
  /\ pc \in Working => jobs # <<>> /\ jobs[Len(jobs)].state = "running"
  /\ \A i \in DOMAIN jobs : jobs[i].state = "running" => pc \in Working /\ i = Len(jobs)

TallyInv ==
  /\ Cardinality(RowsIn(jobs, "failed")) <= restarts
  /\ restarts + Cardinality(RowsIn(jobs, "succeeded")) + busy <= nextJob - 1

JobsInv == IdsInv /\ RunningInv /\ TallyInv

LEMMA RowsAreFinite ==
  ASSUME NEW rows \in Seq(Job), NEW state
  PROVE  /\ IsFiniteSet(RowsIn(rows, state))
         /\ Cardinality(RowsIn(rows, state)) \in Nat
<1>1. RowsIn(rows, state) \subseteq 1 .. Len(rows)
  BY DEF RowsIn
<1>2. IsFiniteSet(1 .. Len(rows))
  BY FS_Interval, LenProperties
<1> QED
  BY <1>1, <1>2, FS_Subset, FS_CardinalityType

\* begin_job: the new row is last, and before it come the old ones, all or
\* all but the oldest.
LEMMA BeginJobShape ==
  ASSUME NEW rows \in Seq(Job), Len(rows) <= MaxJobs, NEW id \in 1 .. MaxCalls,
         NEW b, b = BeginJob(rows, id)
  PROVE  /\ b \in Seq(Job) /\ Len(b) \in 1 .. Len(rows) + 1
         /\ b[Len(b)] = [id |-> id, state |-> "running"]
         /\ \A i \in 1 .. Len(b) - 1 :
              /\ i + (Len(rows) + 1 - Len(b)) \in DOMAIN rows
              /\ b[i] = rows[i + (Len(rows) + 1 - Len(b))]
<1> DEFINE row == [id |-> id, state |-> "running"]
           all == Append(rows, row)
<1>1. row \in Job
  BY DEF Job
<1> HIDE DEF row
<1>2. /\ all \in Seq(Job) /\ Len(all) = Len(rows) + 1 /\ Len(rows) \in Nat
      /\ all[Len(rows) + 1] = row
      /\ \A i \in 1 .. Len(rows) : all[i] = rows[i]
  BY <1>1, AppendProperties, LenProperties
<1> HIDE DEF all
<1>3. CASE Len(all) > MaxJobs
  <2>1. all # <<>>
    BY <1>2
  <2>2. /\ Tail(all) \in Seq(Job) /\ Len(Tail(all)) = Len(all) - 1
        /\ \A i \in 1 .. Len(all) - 1 : Tail(all)[i] = all[i + 1]
    BY <1>2, <2>1, HeadTailProperties
  <2>3. b = Tail(all) /\ Len(rows) >= 1
    BY <1>2, <1>3, PoolAssumption DEF BeginJob, all, row
  <2> QED
    BY <1>2, <2>2, <2>3 DEF row
<1>4. CASE ~(Len(all) > MaxJobs)
  <2>1. b = all
    BY <1>4 DEF BeginJob, all, row
  <2> QED
    BY <1>2, <2>1 DEF row
<1> QED
  BY <1>3, <1>4

\* It adds no row of any other state.
LEMMA BeginJobRows ==
  ASSUME NEW rows \in Seq(Job), Len(rows) <= MaxJobs, NEW id \in 1 .. MaxCalls,
         NEW state, state # "running"
  PROVE  Cardinality(RowsIn(BeginJob(rows, id), state)) <= Cardinality(RowsIn(rows, state))
<1> DEFINE b == BeginJob(rows, id)
           k == Len(rows) + 1 - Len(b)
           shift == [i \in RowsIn(b, state) |-> i + k]
<1>1. /\ b \in Seq(Job) /\ Len(b) \in 1 .. Len(rows) + 1
      /\ b[Len(b)] = [id |-> id, state |-> "running"]
      /\ \A i \in 1 .. Len(b) - 1 : i + k \in DOMAIN rows /\ b[i] = rows[i + k]
  BY BeginJobShape
<1> HIDE DEF b
<1>2. k \in Int
  BY <1>1
<1>3. \A i \in RowsIn(b, state) : i \in Int /\ i + k \in RowsIn(rows, state)
  <2> TAKE i \in RowsIn(b, state)
  <2>1. i \in 1 .. Len(b) /\ b[i].state = state
    BY <1>1 DEF RowsIn
  <2>2. i # Len(b)
    BY <1>1, <2>1
  <2>3. i \in 1 .. Len(b) - 1
    BY <1>1, <2>1, <2>2
  <2> QED
    BY <1>1, <2>1, <2>3 DEF RowsIn
<1>4. shift \in Injection(RowsIn(b, state), RowsIn(rows, state))
  <2> HIDE DEF k
  <2>1. shift \in [RowsIn(b, state) -> RowsIn(rows, state)]
    BY <1>3
  <2>2. \A i, j \in RowsIn(b, state) : shift[i] = shift[j] => i = j
    BY <1>2, <1>3
  <2> QED
    BY <2>1, <2>2 DEF Injection, IsInjective
<1>5. IsFiniteSet(RowsIn(rows, state))
  BY RowsAreFinite
<1> HIDE DEF shift
<1>6. Cardinality(RowsIn(b, state)) <= Cardinality(RowsIn(rows, state))
  BY <1>4, <1>5, FS_Injection
<1> QED
  BY <1>6 DEF b

\* finish_job: it decides the newest row, and no other.
LEMMA FinishJobShape ==
  ASSUME jobs \in Seq(Job), nextJob \in Nat, IdsInv, jobs # <<>>, NEW ok \in BOOLEAN,
         FinishJobRow(ok)
  PROVE  /\ DOMAIN jobs' = DOMAIN jobs /\ Len(jobs') = Len(jobs) /\ Len(jobs) \in DOMAIN jobs
         /\ \A i \in DOMAIN jobs : jobs'[i].id = jobs[i].id
         /\ \A i \in DOMAIN jobs :
              jobs'[i].state = IF i # Len(jobs) THEN jobs[i].state
                               ELSE IF ok THEN "succeeded" ELSE "failed"
<1>1. Len(jobs) \in Nat /\ DOMAIN jobs = 1 .. Len(jobs) /\ Len(jobs) \in DOMAIN jobs
  BY EmptySeq
<1>2. Len(jobs') = Len(jobs) /\ DOMAIN jobs' = DOMAIN jobs
  BY FinishJobTypes, <1>1 DEF FinishJobRow
<1>3. ASSUME NEW i \in DOMAIN jobs
      PROVE  /\ jobs[i] \in Job
             /\ jobs[i].id = nextJob - 1 <=> i = Len(jobs)
  <2>1. jobs[i] \in Job /\ i \in Nat
    BY <1>1
  <2>2. jobs[i].id \in Nat
    BY <2>1 DEF Job
  <2> QED
    BY <1>1, <2>1, <2>2 DEF IdsInv
<1>4. ASSUME NEW i \in DOMAIN jobs
      PROVE  /\ jobs'[i].id = jobs[i].id
             /\ jobs'[i].state = IF i # Len(jobs) THEN jobs[i].state
                                 ELSE IF ok THEN "succeeded" ELSE "failed"
  BY <1>3 DEF FinishJobRow, Job
<1> QED
  BY <1>1, <1>2, <1>4

\* It adds at most one row of the state it gives, and none of another.
LEMMA FinishJobRows ==
  ASSUME jobs \in Seq(Job), nextJob \in Nat, IdsInv, jobs # <<>>, NEW ok \in BOOLEAN,
         FinishJobRow(ok), NEW state, state # "running"
  PROVE  Cardinality(RowsIn(jobs', state)) <=
           Cardinality(RowsIn(jobs, state)) +
             (IF state = (IF ok THEN "succeeded" ELSE "failed") THEN 1 ELSE 0)
<1> DEFINE old == RowsIn(jobs, state)
           new == RowsIn(jobs', state)
           given == IF ok THEN "succeeded" ELSE "failed"
<1>1. IsFiniteSet(old) /\ Cardinality(old) \in Nat
  BY RowsAreFinite
<1>2. new \subseteq old \union {Len(jobs)}
  BY FinishJobShape DEF RowsIn
<1>3. state # given => new \subseteq old
  BY FinishJobShape DEF RowsIn
<1>4. /\ IsFiniteSet(old \union {Len(jobs)})
      /\ Cardinality(old \union {Len(jobs)}) <= Cardinality(old) + 1
      /\ Cardinality(old \union {Len(jobs)}) \in Nat
  <2> HIDE DEF old
  <2>1. /\ IsFiniteSet(old \union {Len(jobs)})
        /\ Cardinality(old \union {Len(jobs)}) =
             IF Len(jobs) \in old THEN Cardinality(old) ELSE Cardinality(old) + 1
    BY <1>1, FS_AddElement
  <2> QED
    BY <1>1, <2>1
<1>5. Cardinality(new) <= Cardinality(old \union {Len(jobs)}) /\ Cardinality(new) \in Nat
  BY <1>2, <1>4, FS_Subset, FS_CardinalityType
<1>6. state # given => Cardinality(new) <= Cardinality(old)
  BY <1>1, <1>3, FS_Subset
<1> HIDE DEF old, new
<1>7. Cardinality(new) <= Cardinality(old) + (IF state = given THEN 1 ELSE 0)
  BY <1>1, <1>4, <1>5, <1>6
<1> QED
  BY <1>7 DEF old, new

\* The rows and the id counter only change when a job begins or ends.
JobsQuiet == UNCHANGED <<jobs, nextJob, busy, restarts>> /\ (pc' \in Working <=> pc \in Working)

LEMMA JobSteps ==
  ASSUME PoolInv, Next
  PROVE  \/ JobsQuiet
         \/ \E cfg \in Configs : StartCall(cfg)
         \/ NewPool \/ FinishOk \/ FinishErr
<1>1. ASSUME Leasing PROVE JobsQuiet \/ NewPool \/ \E cfg \in Configs : StartCall(cfg)
  BY <1>1 DEF Leasing, ReplacePool, LeaseIdle, ReadFacts, Launch, poolVars, dogVars,
     JobsQuiet, Working, PCs
<1>2. ASSUME Operating PROVE JobsQuiet
  BY <1>2 DEF Operating, Registered, SpawnFails, RegisterFails, CapExceeded,
     StartOp, OpReturns, SetDone, KeepSession, PoisonSession, DropSession,
     poolVars, JobsQuiet, Working, PCs
<1>3. ASSUME Ending PROVE JobsQuiet \/ FinishOk \/ FinishErr
  BY <1>3 DEF Ending, Stamp, EndCall, poolVars, JobsQuiet, Working, PCs
<1>4. ASSUME World PROVE JobsQuiet
  BY <1>4 DEF World, Watchdog, WatchdogSeesDone, WatchdogLooks, WatchdogKills,
     ChildExits, DeadlinePasses, Commit, Crash, poolVars, callVars, JobsQuiet
<1> QED
  BY <1>1, <1>2, <1>3, <1>4, NextByPhase

LEMMA QuietJobs == JobsInv /\ JobsQuiet => JobsInv'
BY DEF JobsInv, IdsInv, RunningInv, TallyInv, JobsQuiet

\* A job begins, in the running pool ...
LEMMA StartJobs ==
  ASSUME PoolInv, JobsInv, NEW cfg \in Configs, StartCall(cfg)
  PROVE  JobsInv'
<1>1. /\ jobs \in Seq(Job) /\ Len(jobs) <= MaxJobs
      /\ nextJob \in 1 .. MaxCalls /\ nextJob' = nextJob + 1
      /\ restarts \in Nat /\ restarts' = restarts
      /\ busy = 0 /\ busy' = 1 /\ pc \notin Working /\ pc' \in Working
      /\ Len(jobs) \in Nat /\ DOMAIN jobs = 1 .. Len(jobs)
  BY PoolAssumption
     DEF PoolInv, PoolTypeOK, CountInv, StartCall, Working, PCs
<1>2. jobs' = BeginJob(jobs, nextJob)
  BY DEF StartCall
<1>3. /\ jobs' \in Seq(Job) /\ Len(jobs') \in 1 .. Len(jobs) + 1
      /\ jobs'[Len(jobs')] = [id |-> nextJob, state |-> "running"]
      /\ \A i \in 1 .. Len(jobs') - 1 :
           /\ i + (Len(jobs) + 1 - Len(jobs')) \in DOMAIN jobs
           /\ jobs'[i] = jobs[i + (Len(jobs) + 1 - Len(jobs'))]
  BY <1>1, <1>2, BeginJobShape
<1>4. DOMAIN jobs' = 1 .. Len(jobs')
  BY <1>3
<1>5. IdsInv'
  <2> SUFFICES ASSUME NEW i \in 1 .. Len(jobs')
               PROVE  jobs'[i].id + (Len(jobs') - i) = nextJob' - 1
    BY <1>4 DEF IdsInv
  <2>1. CASE i = Len(jobs')
    BY <1>1, <1>3, <2>1
  <2>2. CASE i # Len(jobs')
    <3> DEFINE j == i + (Len(jobs) + 1 - Len(jobs'))
    <3>1. j \in 1 .. Len(jobs) /\ jobs'[i] = jobs[j] /\ jobs[j] \in Job
      BY <1>1, <1>3, <2>2
    <3>2. jobs[j].id + (Len(jobs) - j) = nextJob - 1
      BY <1>1, <3>1 DEF JobsInv, IdsInv
    <3>3. jobs[j].id \in Nat
      BY <3>1 DEF Job
    <3>4. /\ Len(jobs) \in Int /\ Len(jobs') \in Int /\ i \in Int /\ nextJob \in Int
          /\ jobs'[i].id = jobs[j].id /\ Len(jobs) - j = Len(jobs') - i - 1
      BY <1>1, <1>3, <3>1
    <3> HIDE DEF j
    <3> QED
      BY <1>1, <3>1, <3>2, <3>3, <3>4
  <2> QED
    BY <2>1, <2>2
<1>6. RunningInv'
  <2>1. jobs' # <<>> /\ jobs'[Len(jobs')].state = "running"
    BY <1>3
  <2>2. ASSUME NEW i \in 1 .. Len(jobs'), i # Len(jobs')
        PROVE  jobs'[i].state # "running"
    <3>1. i \in 1 .. Len(jobs') - 1
      BY <1>3, <2>2
    <3>2. \A k \in DOMAIN jobs : jobs[k].state # "running"
      BY <1>1 DEF JobsInv, RunningInv
    <3> QED
      BY <1>3, <3>1, <3>2
  <2> QED
    BY <1>1, <1>4, <2>1, <2>2 DEF RunningInv
<1>7. TallyInv'
  <2>1. ASSUME NEW state, state # "running"
        PROVE  /\ Cardinality(RowsIn(jobs', state)) <= Cardinality(RowsIn(jobs, state))
               /\ Cardinality(RowsIn(jobs, state)) \in Nat
               /\ Cardinality(RowsIn(jobs', state)) \in Nat
    BY <1>1, <1>2, <1>3, <2>1, BeginJobRows, RowsAreFinite
  <2> QED
    BY <1>1, <2>1 DEF JobsInv, TallyInv
<1> QED
  BY <1>5, <1>6, <1>7 DEF JobsInv

\* ... or as the first of a new pool.
LEMMA NewPoolJobs ==
  ASSUME PoolInv, JobsInv, NewPool
  PROVE  JobsInv'
<1>1. <<>> \in Seq(Job) /\ Len(<<>>) <= MaxJobs /\ 1 \in 1 .. MaxCalls
  BY PoolAssumption
<1>2. /\ jobs' = BeginJob(<<>>, 1) /\ nextJob' = 2 /\ restarts' = 0 /\ busy' = 1
      /\ pc' \in Working
  BY DEF NewPool, Working, PCs
<1>3. /\ jobs' \in Seq(Job) /\ Len(jobs') \in 1 .. 1
      /\ jobs'[Len(jobs')] = [id |-> 1, state |-> "running"]
  <2>1. /\ jobs' \in Seq(Job) /\ Len(jobs') \in 1 .. Len(<<>>) + 1
        /\ jobs'[Len(jobs')] = [id |-> 1, state |-> "running"]
    BY <1>1, <1>2, BeginJobShape
  <2> QED
    BY <2>1
<1>4. Len(jobs') = 1 /\ DOMAIN jobs' = {1} /\ jobs' # <<>>
  <2>1. Len(jobs') = 1
    BY <1>3
  <2>2. DOMAIN jobs' = 1 .. Len(jobs')
    BY <1>3, LenProperties
  <2>3. DOMAIN jobs' = {1}
    BY <2>1, <2>2
  <2> QED
    BY <2>1, <2>3
<1>5. IdsInv' /\ RunningInv'
  BY <1>2, <1>3, <1>4 DEF IdsInv, RunningInv
<1>6. \A state : state # "running" => RowsIn(jobs', state) = {}
  BY <1>3, <1>4 DEF RowsIn
<1>7. TallyInv'
  <2>1. RowsIn(jobs', "failed") = {} /\ RowsIn(jobs', "succeeded") = {}
    BY <1>6
  <2>2. /\ Cardinality(RowsIn(jobs', "failed")) = 0
        /\ Cardinality(RowsIn(jobs', "succeeded")) = 0
    BY <2>1, FS_EmptySet
  <2> QED
    BY <1>2, <2>2 DEF TallyInv
<1> QED
  BY <1>5, <1>7 DEF JobsInv

\* A job ends; a failure is counted as a restart in the same step.
LEMMA FinishJobs ==
  ASSUME PoolInv, JobsInv, NEW ok \in BOOLEAN, FinishJobRow(ok),
         nextJob' = nextJob, pc \in Working, pc' \notin Working, busy' = busy - 1,
         restarts' = restarts + (IF ok THEN 0 ELSE 1)
  PROVE  JobsInv'
<1>1. /\ jobs \in Seq(Job) /\ nextJob \in Nat /\ restarts \in Nat /\ busy = 1 /\ busy' = 0
      /\ IdsInv /\ jobs # <<>>
  BY PoolAssumption
     DEF PoolInv, PoolTypeOK, CountInv, JobsInv, RunningInv
<1>2. /\ DOMAIN jobs' = DOMAIN jobs /\ Len(jobs') = Len(jobs) /\ Len(jobs) \in DOMAIN jobs
      /\ \A i \in DOMAIN jobs : jobs'[i].id = jobs[i].id
      /\ \A i \in DOMAIN jobs :
           jobs'[i].state = IF i # Len(jobs) THEN jobs[i].state
                            ELSE IF ok THEN "succeeded" ELSE "failed"
  BY <1>1, FinishJobShape
<1>3. IdsInv' /\ RunningInv'
  BY <1>2 DEF JobsInv, IdsInv, RunningInv
<1>4. jobs' \in Seq(Job)
  BY <1>1, FinishJobTypes
<1>5. ASSUME NEW state, state # "running"
      PROVE  /\ Cardinality(RowsIn(jobs', state)) <=
                  Cardinality(RowsIn(jobs, state)) +
                    (IF state = (IF ok THEN "succeeded" ELSE "failed") THEN 1 ELSE 0)
             /\ Cardinality(RowsIn(jobs, state)) \in Nat
             /\ Cardinality(RowsIn(jobs', state)) \in Nat
  BY <1>1, <1>4, <1>5, FinishJobRows, RowsAreFinite
<1>6. TallyInv'
  BY <1>1, <1>5 DEF JobsInv, TallyInv
<1> QED
  BY <1>3, <1>6 DEF JobsInv

LEMMA JobsStep ==
  ASSUME PoolInv, JobsInv, [Next]_vars
  PROVE  JobsInv'
<1>1. CASE FinishOk
  <2>1. /\ FinishJobRow(TRUE) /\ nextJob' = nextJob /\ busy' = busy - 1
        /\ restarts' = restarts + (IF TRUE THEN 0 ELSE 1)
        /\ pc \in Working /\ pc' \notin Working
    <3>1. restarts \in Nat
      BY DEF PoolInv, PoolTypeOK
    <3>2. FinishJobRow(TRUE) /\ nextJob' = nextJob /\ busy' = busy - 1 /\ restarts' = restarts
      BY <1>1 DEF FinishOk
    <3>3. pc \in Working /\ pc' \notin Working
      BY <1>1 DEF FinishOk, Working, PCs
    <3>4. restarts' = restarts + (IF TRUE THEN 0 ELSE 1)
      BY <3>1, <3>2
    <3> QED
      BY <3>2, <3>3, <3>4, Zenon
  <2> QED
    BY <2>1, FinishJobs
<1>2. CASE FinishErr
  <2>1. /\ FinishJobRow(FALSE) /\ nextJob' = nextJob /\ busy' = busy - 1
        /\ restarts' = restarts + (IF FALSE THEN 0 ELSE 1)
        /\ pc \in Working /\ pc' \notin Working
    BY <1>2 DEF FinishErr, EndCall, Working, PCs
  <2> QED
    BY <2>1, FinishJobs
<1>3. CASE UNCHANGED vars
  BY <1>3, QuietJobs DEF JobsQuiet, vars, poolVars, callVars
<1> QED
  BY <1>1, <1>2, <1>3, JobSteps, QuietJobs, StartJobs, NewPoolJobs

LEMMA InitJobsInv == Init => JobsInv
<1> SUFFICES ASSUME Init PROVE JobsInv
  OBVIOUS
<1>1. jobs = <<>> /\ restarts = 0 /\ busy = 0 /\ nextJob = 1 /\ pc \notin Working
  BY DEF Init, Working, PCs
<1>2. DOMAIN jobs = {}
  BY <1>1
<1>3. RowsIn(jobs, "failed") = {} /\ RowsIn(jobs, "succeeded") = {}
  BY <1>2 DEF RowsIn
<1>4. /\ Cardinality(RowsIn(jobs, "failed")) = 0
      /\ Cardinality(RowsIn(jobs, "succeeded")) = 0
  BY <1>3, FS_EmptySet
<1> QED
  BY <1>1, <1>2, <1>4 DEF JobsInv, IdsInv, RunningInv, TallyInv

\* jobs_page tells one story on every path of a call, for every length of the
\* history and every number of calls: the running rows are the busy workers,
\* ids are consecutive, every failed row was counted as a restart.
THEOREM JobsAreAccounted == Spec => []JobsAccounted
<1>1. ASSUME PoolInv, JobsInv
      PROVE  JobsAccounted
  <2>1. /\ jobs \in Seq(Job) /\ Len(jobs) \in Nat /\ DOMAIN jobs = 1 .. Len(jobs)
        /\ busy = IF pc \in Working THEN 1 ELSE 0
    BY <1>1 DEF PoolInv, PoolTypeOK, CountInv
  <2>2. busy = Cardinality(RowsIn(jobs, "running"))
    <3>1. CASE pc \in Working
      <4>1. RowsIn(jobs, "running") = {Len(jobs)}
        BY <1>1, <2>1, <3>1, EmptySeq DEF JobsInv, RunningInv, RowsIn
      <4> QED
        BY <2>1, <3>1, <4>1, FS_Singleton
    <3>2. CASE pc \notin Working
      <4>1. RowsIn(jobs, "running") = {}
        BY <1>1, <3>2 DEF JobsInv, RunningInv, RowsIn
      <4> QED
        BY <2>1, <3>2, <4>1, FS_EmptySet
    <3> QED
      BY <3>1, <3>2
  <2>3. pc \in {"none", "switch", "stamp"} => busy = 0
    BY <2>1 DEF Working, PCs
  <2> QED
    BY <1>1, <2>2, <2>3 DEF JobsInv, IdsInv, TallyInv, RowsIn, JobsAccounted
<1>2. PoolInv /\ JobsInv /\ [Next]_vars => JobsInv'
  BY JobsStep
<1> QED
  BY <1>1, <1>2, InitJobsInv, PoolInvariant, PTL DEF Spec
=============================================================================
