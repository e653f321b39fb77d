--------------------------- MODULE ApiServerProofs ---------------------------
(***************************************************************************)
(* Proofs about ApiServer and the DebugTargets it runs, for every set of   *)
(* callers, of stubs and of addresses, and every number of requests.       *)
(*                                                                         *)
(* The inductive invariant has three parts.  TargetInv says what can be on *)
(* a stub's connection at each step of the task; of the requests it needs  *)
(* only their types.  ApiInv says where a request can be: it is written at *)
(* most once, it is performed where it was taken, and on stdio an id       *)
(* belongs to one request wherever it is.  ChildIsSupervised says which    *)
(* requests have a child that nobody has reaped.                           *)
(***************************************************************************)
EXTENDS ApiServer, SequenceTheorems, TLAPS

AllAsks == UNION {Asks[c] : c \in Callers}
-----------------------------------------------------------------------------
(***************************************************************************)
(* The targets.                                                            *)
(***************************************************************************)
DataBodies == [is : {"data"}, endpoint : Endpoints, address : Addresses,
               count : Counts, version : Nat]
Bodies == DataBodies \cup [is : {"error", "other"}]
Items == [is : {"ack", "nak", "stray"}]
           \cup [is : {"packet"}, good : BOOLEAN, body : Bodies]
Sockets == [open : BOOLEAN,
            toStub : Seq([address : Addresses, count : Counts]),
            toClient : Seq(Items)]

Errors == {"connect", "count", "io", "target", "protocol",
           "spawn", "too large", "status", "timeout"}
Results == {<<>>} \cup [ok : {FALSE}, error : Errors]
             \cup [ok : {TRUE}, bytes : DataBodies] \cup [ok : {TRUE}, output : Nat]
LiveTasks == [op : {"live"}, at : {"connect", "send", "receive", "done"},
              endpoint : Endpoints, address : Addresses, count : Counts,
              since : Nat, result : Results]
DebugTasks == [op : {"debug"}, at : {"spawn", "poll", "drain", "done"},
               request : Requests, result : Results]
Children == [state : {"none", "running", "succeeded", "failed"}, out : Nat, err : Nat,
             held : BOOLEAN]

TargetTypeOK ==
  /\ task \in {NoTask} \cup LiveTasks \cup DebugTasks
  /\ socket \in Sockets
  /\ memory \in [Endpoints -> Nat]
  /\ debugger \in Children
  /\ children \subseteq Requests

\* A task runs for the request the server handles, which needs one.
TaskInv ==
  task # NoTask =>
    /\ server.state = "busy"
    /\ server.line.ask.method \in {"memory_live", "debug"}
    /\ task.op = "debug" => task.request = server.line.request

\* An exchange is on the connection of its task.
ConnectionInv ==
  At("live", "send") \/ At("live", "receive") => live = task.endpoint

\* Memory is never older than the task.
SinceInv == task.op = "live" => task.since <= memory[task.endpoint]

\* A stub has at most the request of the task that waits.
AskInv ==
  \A i \in DOMAIN socket.toStub :
    /\ At("live", "receive") /\ i = 1
    /\ socket.toStub[i] = [address |-> task.address, count |-> task.count]

\* An answer that read_memory would take is the answer to that request, the
\* only one, and then the stub has no request left.
GoodData(item) == item.is = "packet" /\ item.good /\ item.body.is = "data"
Own(body) ==
  /\ body.endpoint = task.endpoint /\ body.address = task.address
  /\ body.count = task.count /\ task.since <= body.version
ReplyInv ==
  \A i \in DOMAIN socket.toClient : GoodData(socket.toClient[i]) =>
    /\ At("live", "receive") /\ socket.toStub = <<>>
    /\ Own(socket.toClient[i].body)
    /\ \A j \in DOMAIN socket.toClient : GoodData(socket.toClient[j]) => j = i

TargetInv ==
  /\ TargetTypeOK /\ TaskInv /\ ConnectionInv /\ SinceInv /\ AskInv /\ ReplyInv
  /\ LiveReadsAreOwn
-----------------------------------------------------------------------------
(***************************************************************************)
(* The requests.                                                           *)
(***************************************************************************)
Outcomes ==
  [request : Requests,
   result : Results \cup {"ok", "core_error", "worker_error", "unknown_method"}]
Lines == [request : Requests, id : Nat, ask : AllAsks, cut : {"no", "headers", "elsewhere"}]
Responses == [id : Nat, outcome : Outcomes]
Places ==
  [at : {"idle"}, n : 0..MaxRequests, id : Nat]
    \cup [at : {"numbered", "reading", "waiting", "gone"}, n : 1..MaxRequests,
          id : Nat, ask : AllAsks]
Servers ==
  [state : {"ready", "exited", "spinning"}] \cup [state : {"busy", "working"}, line : Lines]

ApiTypeOK ==
  /\ transport \in {"stdio", "http"}
  /\ nextId \in [Callers \cup {Shared} -> Nat]
  /\ caller \in [Callers -> Places]
  /\ server \in Servers
  /\ incoming \in Seq(Lines)
  /\ outgoing \in Seq(Responses)

\* The requests of a caller are those it has numbered.
IssuedInv == issued = {r \in Requests : r.n <= caller[r.caller].n}

\* A request that waits for its answer has none yet.
Calling(c) == caller[c].at \in {"numbered", "reading", "waiting"}
ReturnInv ==
  /\ DOMAIN returned \subseteq issued
  /\ \A c \in Callers : Calling(c) => Request(c) \notin DOMAIN returned

\* A request is on its way to the server once, or is the one it handles, or is
\* performed, and none of these before it is written.
Busied == server.state \in {"busy", "working"}
OnceInv ==
  /\ DOMAIN performed \subseteq issued
  /\ \A i \in DOMAIN incoming :
       /\ incoming[i].request \in issued \ DOMAIN performed
       /\ \A j \in DOMAIN incoming : incoming[j].request = incoming[i].request => i = j
  /\ Busied =>
       /\ server.line.request \in issued \ DOMAIN performed
       /\ \A i \in DOMAIN incoming : incoming[i].request # server.line.request
  /\ \A c \in Callers : caller[c].at = "numbered" =>
       /\ Request(c) \notin DOMAIN performed
       /\ \A i \in DOMAIN incoming : incoming[i].request # Request(c)
       /\ Busied => server.line.request # Request(c)

\* What an answer carries is what was performed.
OutcomeInv ==
  /\ \A i \in DOMAIN outgoing :
       LET outcome == outgoing[i].outcome
       IN  outcome.request \in DOMAIN performed /\ performed[outcome.request] = outcome
  /\ \A r \in DOMAIN replies :
       r \in DOMAIN performed /\ performed[r] = replies[r].outcome

\* Wherever an id is, on stdio, it is the id of one request.
Stamps ==
  {<<caller[c].id, Request(c)>> : c \in {d \in Callers : Calling(d)}}
    \cup {<<incoming[i].id, incoming[i].request>> : i \in DOMAIN incoming}
    \cup (IF Busied THEN {<<server.line.id, server.line.request>>} ELSE {})
    \cup {<<outgoing[i].id, outgoing[i].outcome.request>> : i \in DOMAIN outgoing}
StampInv ==
  transport = "stdio" =>
    /\ \A s \in Stamps : s[1] < nextId[Shared]
    /\ \A s, t \in Stamps : s[1] = t[1] => s[2] = t[2]

ApiInv ==
  /\ ApiTypeOK /\ IssuedInv /\ ReturnInv /\ OnceInv /\ OutcomeInv /\ StampInv
-----------------------------------------------------------------------------
(* Sequences. *)

LEMMA TailElements ==
  ASSUME NEW S, NEW s \in Seq(S), s # <<>>
  PROVE  /\ Tail(s) \in Seq(S) /\ Head(s) \in S /\ Head(s) = s[1] /\ 1 \in DOMAIN s
         /\ \A i \in DOMAIN Tail(s) : i + 1 \in DOMAIN s /\ Tail(s)[i] = s[i + 1]
<1>1. Len(s) \in Nat \ {0} /\ DOMAIN s = 1 .. Len(s)
  BY EmptySeq
<1>2. /\ Tail(s) \in Seq(S) /\ Head(s) \in S /\ Len(Tail(s)) = Len(s) - 1
      /\ \A i \in 1 .. Len(Tail(s)) : Tail(s)[i] = s[i + 1]
  BY HeadTailProperties
<1>3. DOMAIN Tail(s) = 1 .. Len(Tail(s))
  BY <1>2
<1>4. Head(s) = s[1]
  BY <1>1
<1> QED
  BY <1>1, <1>2, <1>3, <1>4

LEMMA AppendElements ==
  ASSUME NEW S, NEW s \in Seq(S), NEW e \in S
  PROVE  /\ Append(s, e) \in Seq(S)
         /\ \A i \in DOMAIN Append(s, e) :
              \/ i \in DOMAIN s /\ Append(s, e)[i] = s[i]
              \/ i = Len(s) + 1 /\ Append(s, e)[i] = e
<1>1. /\ Append(s, e) \in Seq(S) /\ Len(Append(s, e)) = Len(s) + 1
      /\ \A i \in 1 .. Len(s) : Append(s, e)[i] = s[i]
      /\ Append(s, e)[Len(s) + 1] = e
  BY AppendProperties
<1>2. DOMAIN Append(s, e) = 1 .. Len(s) + 1 /\ DOMAIN s = 1 .. Len(s) /\ Len(s) \in Nat
  BY <1>1, LenProperties
<1> QED
  BY <1>1, <1>2

LEMMA ConcatElements ==
  ASSUME NEW S, NEW s \in Seq(S), NEW t \in Seq(S)
  PROVE  /\ s \o t \in Seq(S)
         /\ \A i \in DOMAIN (s \o t) :
              \/ i \in DOMAIN s /\ (s \o t)[i] = s[i]
              \/ i - Len(s) \in DOMAIN t /\ (s \o t)[i] = t[i - Len(s)]
         /\ Len(s) \in Nat
<1>1. /\ s \o t \in Seq(S) /\ Len(s \o t) = Len(s) + Len(t)
      /\ \A i \in 1 .. Len(s) + Len(t) :
           (s \o t)[i] = IF i <= Len(s) THEN s[i] ELSE t[i - Len(s)]
  BY ConcatProperties
<1>2. /\ DOMAIN (s \o t) = 1 .. Len(s) + Len(t) /\ DOMAIN s = 1 .. Len(s)
      /\ DOMAIN t = 1 .. Len(t) /\ Len(s) \in Nat /\ Len(t) \in Nat
  BY <1>1, LenProperties
<1> QED
  BY <1>1, <1>2

-----------------------------------------------------------------------------
(* The steps of the targets keep the types. *)

LEMMA TaskShape ==
  ASSUME TargetTypeOK
  PROVE  /\ task # NoTask /\ task.op = "live" => task \in LiveTasks
         /\ task # NoTask /\ task.op = "debug" => task \in DebugTasks
BY DEF TargetTypeOK, LiveTasks, DebugTasks

LEMMA TaskFails ==
  ASSUME NEW error \in Errors
  PROVE  /\ task \in LiveTasks =>
              [task EXCEPT !.at = "done", !.result = Failed(error)] \in LiveTasks
         /\ task \in DebugTasks =>
              [task EXCEPT !.at = "done", !.result = Failed(error)] \in DebugTasks
<1>1. Failed(error) \in Results
  BY DEF Failed, Results, Errors
<1> QED
  BY <1>1 DEF LiveTasks, DebugTasks

LEMMA ClosedIsSocket == Closed \in Sockets /\ Opened \in Sockets
<1>1. /\ <<>> \in Seq([address : Addresses, count : Counts])
      /\ <<>> \in Seq(Items)
  OBVIOUS
<1> QED
  BY <1>1 DEF Closed, Opened, Sockets

\* A call that fails leaves no connection and no reply behind.
LEMMA FailTypes ==
  ASSUME TargetTypeOK, task # NoTask, NEW error \in Errors, Fail(error),
         UNCHANGED <<memory, debugger, children>>
  PROVE  TargetTypeOK'
BY TaskFails, ClosedIsSocket DEF Fail, TargetTypeOK

LEMMA LiveTypes ==
  ASSUME TargetTypeOK, Connect \/ SendRequest \/ Receive \/ ReceiveTimesOut
  PROVE  TargetTypeOK'
<1>0. task \in LiveTasks /\ task # NoTask
  BY TaskShape DEF Connect, SendRequest, Receive, ReceiveTimesOut, At
<1>1. CASE Connect
  <2>1. [task EXCEPT !.at = "send"] \in LiveTasks
    BY <1>0 DEF LiveTasks
  <2>2. task' \in LiveTasks
    <3>1. "connect" \in Errors
      BY DEF Errors
    <3> QED
      BY <1>0, <1>1, <2>1, <3>1, TaskFails DEF Connect
  <2>3. socket' \in Sockets
    BY <1>1, ClosedIsSocket DEF Connect, TargetTypeOK
  <2> QED
    BY <1>1, <2>2, <2>3 DEF Connect, TargetTypeOK
<1>2. CASE SendRequest
  <2>1. CASE Fail("count") \/ Fail("io")
    <3>1. "count" \in Errors /\ "io" \in Errors
      BY DEF Errors
    <3> QED
      BY <1>0, <1>2, <2>1, <3>1, FailTypes DEF SendRequest
  <2>2. CASE ~(Fail("count") \/ Fail("io"))
    <3> DEFINE asked == [address |-> task.address, count |-> task.count]
    <3>1. asked \in [address : Addresses, count : Counts]
      BY <1>0 DEF LiveTasks
    <3> HIDE DEF asked
    <3>2. Append(socket.toStub, asked) \in Seq([address : Addresses, count : Counts])
      BY <3>1, AppendElements DEF TargetTypeOK, Sockets
    <3>3. socket' \in Sockets
      BY <1>2, <2>2, <3>2 DEF SendRequest, TargetTypeOK, Sockets, asked
    <3>4. task' \in LiveTasks
      BY <1>0, <1>2, <2>2 DEF SendRequest, LiveTasks
    <3> QED
      BY <1>2, <3>3, <3>4 DEF SendRequest, TargetTypeOK
  <2> QED
    BY <2>1, <2>2
<1>3. CASE Receive
  <2>1. /\ Head(socket.toClient) \in Items /\ Tail(socket.toClient) \in Seq(Items)
    BY <1>3, TailElements DEF Receive, TargetTypeOK, Sockets
  <2>2. [socket EXCEPT !.toClient = Tail(@)] \in Sockets
    BY <2>1 DEF TargetTypeOK, Sockets
  <2>3. CASE \E error \in Errors : Fail(error)
    BY <1>0, <1>3, <2>3, FailTypes DEF Receive
  <2>4. CASE UNCHANGED <<task, live>> /\ socket' = [socket EXCEPT !.toClient = Tail(@)]
    BY <1>3, <2>2, <2>4 DEF Receive, TargetTypeOK
  <2>5. CASE /\ ~ \E error \in Errors : Fail(error)
             /\ ~ (UNCHANGED <<task, live>> /\ socket' = [socket EXCEPT !.toClient = Tail(@)])
    <3> DEFINE item == Head(socket.toClient)
    <3>0. ~Fail("protocol") /\ ~Fail("io") /\ ~Fail("target")
      BY <2>5 DEF Errors
    <3>1. /\ item.is = "packet" /\ item.body.is = "data" /\ item.body.count = task.count
          /\ task' = [task EXCEPT !.at = "done",
                                  !.result = [ok |-> TRUE, bytes |-> item.body]]
          /\ socket' = [socket EXCEPT !.toClient = Tail(@)]
      BY <1>3, <2>5, <3>0 DEF Receive, TakeReply
    <3>2. item.body \in DataBodies
      BY <2>1, <3>1 DEF Items, Bodies
    <3>3. [ok |-> TRUE, bytes |-> item.body] \in Results
      BY <3>2 DEF Results
    <3>4. task' \in LiveTasks
      BY <1>0, <3>1, <3>3 DEF LiveTasks
    <3> QED
      BY <1>3, <2>2, <3>1, <3>4 DEF Receive, TargetTypeOK
  <2> QED
    BY <2>3, <2>4, <2>5
<1>4. CASE ReceiveTimesOut
  <2>1. "io" \in Errors
    BY DEF Errors
  <2> QED
    BY <1>0, <1>4, <2>1, FailTypes DEF ReceiveTimesOut
<1> QED
  BY <1>1, <1>2, <1>3, <1>4

DebugStep == SpawnDebugger \/ PollExited \/ Drained \/ PollFails \/ PollTimesOut

LEMMA DebugTypes ==
  ASSUME TargetTypeOK, DebugStep
  PROVE  TargetTypeOK'
<1>0. task \in DebugTasks /\ task # NoTask
  BY TaskShape DEF DebugStep, SpawnDebugger, PollExited, Drained, PollFails, PollTimesOut, At
<1>1. NoChild \in Children
  BY DEF NoChild, Children
<1>2. CASE SpawnDebugger
  <2>1. [task EXCEPT !.at = "poll"] \in DebugTasks
    BY <1>0 DEF DebugTasks
  <2>2. task' \in DebugTasks
    <3>1. "spawn" \in Errors
      BY DEF Errors
    <3> QED
      BY <1>0, <1>2, <2>1, <3>1, TaskFails DEF SpawnDebugger
  <2>3. debugger' \in Children
    BY <1>1, <1>2 DEF SpawnDebugger, NoChild, TargetTypeOK, Children
  <2>4. children' \subseteq Requests
    BY <1>0, <1>2 DEF SpawnDebugger, TargetTypeOK, DebugTasks
  <2> QED
    BY <1>2, <2>2, <2>3, <2>4 DEF SpawnDebugger, TargetTypeOK
<1>3. CASE PollExited
  <2>1. task' \in DebugTasks
    BY <1>0, <1>3 DEF PollExited, DebugTasks
  <2> QED
    BY <1>3, <2>1 DEF PollExited, TargetTypeOK
<1>4. ASSUME NEW result \in Results, EndsDebug(result)
      PROVE  task' \in DebugTasks /\ debugger' \in Children
  BY <1>0, <1>1, <1>4 DEF EndsDebug, DebugTasks
<1>5. Finish \in Results
  BY DEF Finish, Failed, Results, Errors, TargetTypeOK, Children
<1>6. Failed("io") \in Results /\ Failed("timeout") \in Results
  BY DEF Failed, Results, Errors
<1>7. CASE Drained
  BY <1>4, <1>5, <1>6, <1>7 DEF Drained, TargetTypeOK
<1>8. CASE PollFails
  BY <1>4, <1>6, <1>8 DEF PollFails, TargetTypeOK
<1>9. CASE PollTimesOut
  BY <1>4, <1>6, <1>9 DEF PollTimesOut, TargetTypeOK
<1> QED
  BY <1>2, <1>3, <1>7, <1>8, <1>9 DEF DebugStep

-----------------------------------------------------------------------------
(* The exchange with a stub. *)

LEMMA NothingUnread == Len(<<>>) = 0 /\ DOMAIN <<>> = {}
OBVIOUS

\* A step that leaves the connection alone, or opens or closes it, leaves
\* nothing on it that belongs to a task.
LEMMA QuietExchange ==
  ASSUME TargetInv,
         \/ socket' \in {Closed, Opened}
         \/ socket' = socket /\ ~At("live", "receive")
  PROVE  AskInv' /\ ReplyInv'
<1>1. CASE socket' \in {Closed, Opened}
  <2>1. socket'.toStub = <<>> /\ socket'.toClient = <<>>
    BY <1>1 DEF Closed, Opened
  <2> QED
    BY <2>1, NothingUnread DEF AskInv, ReplyInv
<1>2. CASE socket' = socket /\ ~At("live", "receive")
  <2>1. \A i \in DOMAIN socket'.toStub : FALSE
    BY <1>2 DEF TargetInv, AskInv
  <2>2. \A i \in DOMAIN socket'.toClient : ~GoodData(socket'.toClient[i])
    BY <1>2 DEF TargetInv, ReplyInv
  <2> QED
    BY <2>1, <2>2 DEF AskInv, ReplyInv
<1> QED
  BY <1>1, <1>2

ExchangeInv == ConnectionInv /\ SinceInv /\ AskInv /\ ReplyInv /\ LiveReadsAreOwn

LEMMA FailExchange ==
  ASSUME TargetInv, task \in LiveTasks, NEW error \in Errors, Fail(error),
         UNCHANGED memory
  PROVE  ExchangeInv'
<1>1. /\ task' \in LiveTasks /\ task'.at = "done" /\ ~task'.result.ok
      /\ task'.endpoint = task.endpoint /\ task'.since = task.since
  BY TaskFails DEF Fail, Failed, LiveTasks
<1>2. AskInv' /\ ReplyInv'
  BY QuietExchange DEF Fail
<1>3. SinceInv'
  BY <1>1 DEF TargetInv, SinceInv, LiveTasks
<1> QED
  BY <1>1, <1>2, <1>3 DEF ExchangeInv, ConnectionInv, LiveReadsAreOwn, At

LEMMA ConnectExchange == TargetInv /\ Connect => ExchangeInv'
<1> SUFFICES ASSUME TargetInv, Connect PROVE ExchangeInv'
  OBVIOUS
<1>1. task \in LiveTasks /\ task.at = "connect"
  BY TaskShape DEF Connect, At, TargetInv
<1>2. AskInv' /\ ReplyInv'
  BY <1>1, QuietExchange DEF Connect, At
<1>3. \/ task' = [task EXCEPT !.at = "send"] /\ live' = task.endpoint
      \/ task' = [task EXCEPT !.at = "done", !.result = Failed("connect")]
  BY DEF Connect, Reuses
<1>4. /\ task'.op = "live" /\ task'.endpoint = task.endpoint /\ task'.since = task.since
      /\ \/ task'.at = "send" /\ live' = task'.endpoint
         \/ task'.at = "done" /\ ~task'.result.ok
  <2>1. task.op = "live" /\ Failed("connect").ok = FALSE
    BY <1>1 DEF LiveTasks, Failed
  <2>2. CASE task' = [task EXCEPT !.at = "send"] /\ live' = task.endpoint
    BY <1>1, <2>1, <2>2 DEF LiveTasks
  <2>3. CASE task' = [task EXCEPT !.at = "done", !.result = Failed("connect")]
    BY <1>1, <2>1, <2>3 DEF LiveTasks
  <2> QED
    BY <1>3, <2>2, <2>3
<1>5. SinceInv'
  BY <1>1, <1>4 DEF TargetInv, SinceInv, Connect, LiveTasks
<1> QED
  BY <1>2, <1>4, <1>5 DEF ExchangeInv, ConnectionInv, LiveReadsAreOwn, At, Finished

LEMMA SendExchange == TargetInv /\ SendRequest => ExchangeInv'
<1> SUFFICES ASSUME TargetInv, SendRequest PROVE ExchangeInv'
  OBVIOUS
<1>1. task \in LiveTasks /\ task.at = "send"
  BY TaskShape DEF SendRequest, At, TargetInv
<1>2. CASE Fail("count") \/ Fail("io")
  <2>1. "count" \in Errors /\ "io" \in Errors
    BY DEF Errors
  <2> QED
    BY <1>1, <1>2, <2>1, FailExchange DEF SendRequest
<1>3. CASE ~(Fail("count") \/ Fail("io"))
  <2> DEFINE asked == [address |-> task.address, count |-> task.count]
  <2>1. /\ task' = [task EXCEPT !.at = "receive"] /\ live' = live
        /\ socket' = [socket EXCEPT !.toStub = Append(@, asked)]
        /\ memory' = memory
    BY <1>3 DEF SendRequest
  <2>2. /\ task' \in LiveTasks /\ task'.at = "receive"
        /\ task'.endpoint = task.endpoint /\ task'.since = task.since
        /\ task'.address = task.address /\ task'.count = task.count
    BY <1>1, <2>1 DEF LiveTasks
  <2>3. \A i \in DOMAIN socket.toStub : FALSE
    BY <1>1 DEF TargetInv, AskInv, At
  <2>4. Len(socket.toStub) = 0
    <3>1. Len(socket.toStub) \in Nat /\ DOMAIN socket.toStub = 1 .. Len(socket.toStub)
      BY LenProperties DEF TargetInv, TargetTypeOK, Sockets
    <3>2. 1 \notin 1 .. Len(socket.toStub)
      BY <2>3, <3>1
    <3> QED
      BY <3>1, <3>2
  <2>5. asked \in [address : Addresses, count : Counts]
    BY <1>1 DEF LiveTasks
  <2>6. socket'.toStub = Append(socket.toStub, asked)
        /\ socket'.toClient = socket.toClient
    BY <2>1 DEF TargetInv, TargetTypeOK, Sockets
  <2>7. \A i \in DOMAIN socket'.toStub : i = 1 /\ socket'.toStub[i] = asked
    <3> HIDE DEF asked
    <3> QED
      BY <2>3, <2>4, <2>5, <2>6, AppendElements DEF TargetInv, TargetTypeOK, Sockets
  <2>8. AskInv'
    BY <2>2, <2>7 DEF AskInv, At, LiveTasks, NoTask
  <2>9. \A i \in DOMAIN socket.toClient : ~GoodData(socket.toClient[i])
    BY <1>1 DEF TargetInv, ReplyInv, At
  <2>10. ReplyInv'
    BY <2>6, <2>9 DEF ReplyInv
  <2>11. ConnectionInv' /\ SinceInv' /\ LiveReadsAreOwn'
    BY <1>1, <2>1, <2>2
       DEF TargetInv, ConnectionInv, SinceInv, LiveReadsAreOwn, Finished, At, LiveTasks, NoTask
  <2> QED
    BY <2>8, <2>10, <2>11 DEF ExchangeInv
<1> QED
  BY <1>2, <1>3

LEMMA ReceiveExchange == TargetInv /\ (Receive \/ ReceiveTimesOut) => ExchangeInv'
<1> SUFFICES ASSUME TargetInv, Receive \/ ReceiveTimesOut PROVE ExchangeInv'
  OBVIOUS
<1>1. task \in LiveTasks /\ task.at = "receive" /\ memory' = memory
  BY TaskShape DEF Receive, ReceiveTimesOut, At, TargetInv
<1>2. CASE \E error \in Errors : Fail(error)
  BY <1>1, <1>2, FailExchange
<1>3. CASE ~ \E error \in Errors : Fail(error)
  <2> DEFINE item == Head(socket.toClient)
  <2>1. ~Fail("protocol") /\ ~Fail("io") /\ ~Fail("target")
    BY <1>3 DEF Errors
  <2>2. /\ socket.toClient # <<>> /\ live' = live
        /\ socket' = [socket EXCEPT !.toClient = Tail(@)]
        /\ \/ task' = task
           \/ /\ item.is = "packet" /\ item.good
              /\ item.body.is = "data" /\ item.body.count = task.count
              /\ task' = [task EXCEPT !.at = "done",
                                      !.result = [ok |-> TRUE, bytes |-> item.body]]
    BY <2>1 DEF Receive, ReceiveTimesOut, TakeReply
  <2>3. /\ socket'.toClient = Tail(socket.toClient) /\ socket'.toStub = socket.toStub
        /\ item = socket.toClient[1] /\ 1 \in DOMAIN socket.toClient
        /\ \A i \in DOMAIN socket'.toClient :
             i + 1 \in DOMAIN socket.toClient /\ socket'.toClient[i] = socket.toClient[i + 1]
    BY <2>2, TailElements DEF TargetInv, TargetTypeOK, Sockets
  <2>4. CASE task' = task
    <3>1. ReplyInv'
      <4> SUFFICES ASSUME NEW i \in DOMAIN socket'.toClient, GoodData(socket'.toClient[i])
                   PROVE  /\ At("live", "receive") /\ socket.toStub = <<>>
                          /\ Own(socket'.toClient[i].body)
                          /\ \A j \in DOMAIN socket'.toClient :
                               GoodData(socket'.toClient[j]) => j = i
        BY <2>3, <2>4 DEF ReplyInv, At, Own
      <4>1. i \in Nat
        BY <2>3, LenProperties, TailElements, <2>2 DEF TargetInv, TargetTypeOK, Sockets
      <4>2. \A j \in DOMAIN socket'.toClient : j \in Nat
        BY <2>3, LenProperties, TailElements, <2>2 DEF TargetInv, TargetTypeOK, Sockets
      <4> QED
        BY <2>3, <4>1, <4>2 DEF TargetInv, ReplyInv
    <3>2. ConnectionInv' /\ SinceInv' /\ AskInv' /\ LiveReadsAreOwn'
      BY <1>1, <2>2, <2>3, <2>4
         DEF TargetInv, ConnectionInv, SinceInv, AskInv, LiveReadsAreOwn, Finished, At
    <3> QED
      BY <3>1, <3>2 DEF ExchangeInv
  <2>5. CASE task' # task
    <3>1. GoodData(socket.toClient[1])
      BY <2>2, <2>3, <2>5 DEF GoodData
    <3>2. /\ socket.toStub = <<>> /\ Own(item.body)
          /\ \A j \in DOMAIN socket.toClient : GoodData(socket.toClient[j]) => j = 1
      BY <2>3, <3>1 DEF TargetInv, ReplyInv
    <3>3. \A i \in DOMAIN socket'.toClient : ~GoodData(socket'.toClient[i])
      <4>1. \A i \in DOMAIN socket'.toClient : i \in Nat /\ i >= 1
        BY <2>2, <2>3, LenProperties, TailElements DEF TargetInv, TargetTypeOK, Sockets
      <4> QED
        BY <2>3, <3>2, <4>1
    <3>4. AskInv' /\ ReplyInv'
      BY <2>3, <3>2, <3>3, NothingUnread DEF AskInv, ReplyInv
    <3>5. /\ task'.op = "live" /\ task'.at = "done" /\ task'.result.bytes = item.body
          /\ task'.endpoint = task.endpoint /\ task'.since = task.since
          /\ task'.address = task.address /\ task'.count = task.count
      <4> DEFINE taken == [ok |-> TRUE, bytes |-> item.body]
      <4>1. task' = [task EXCEPT !.at = "done", !.result = taken] /\ taken.bytes = item.body
        BY <2>2, <2>5
      <4> HIDE DEF taken
      <4> QED
        BY <1>1, <4>1 DEF LiveTasks
    <3>6. LiveReadsAreOwn'
      BY <3>2, <3>5 DEF LiveReadsAreOwn, Own
    <3>7. SinceInv'
      BY <1>1, <3>5 DEF TargetInv, SinceInv, LiveTasks
    <3>8. ConnectionInv'
      BY <3>5 DEF ConnectionInv, At
    <3> QED
      BY <3>4, <3>6, <3>7, <3>8 DEF ExchangeInv
  <2> QED
    BY <2>4, <2>5
<1> QED
  BY <1>2, <1>3
-----------------------------------------------------------------------------
(* The stub, the target and the debugger. *)

LEMMA StubAnswersStep ==
  TargetInv /\ StubAnswers => TargetTypeOK' /\ ExchangeInv'
<1> SUFFICES ASSUME TargetInv, StubAnswers PROVE TargetTypeOK' /\ ExchangeInv'
  OBVIOUS
<1> DEFINE asked == Head(socket.toStub)
           data == [is |-> "data", endpoint |-> live, address |-> asked.address,
                    count |-> asked.count, version |-> memory[live]]
<1>1. PICK items \in {<<Ack, Packet(TRUE, data)>>, <<Ack, Packet(FALSE, data)>>,
                      <<Ack, Packet(TRUE, [is |-> "error"])>>, <<Nak>>, <<Stray>>} :
        /\ socket.toStub # <<>>
        /\ socket' = [socket EXCEPT !.toClient = @ \o items, !.toStub = Tail(@)]
        /\ UNCHANGED <<task, live, memory, debugger, children>>
  BY DEF StubAnswers, Delivers
<1>2. /\ 1 \in DOMAIN socket.toStub /\ asked = socket.toStub[1]
      /\ socket'.toStub = Tail(socket.toStub)
      /\ socket'.toClient = socket.toClient \o items
      /\ Tail(socket.toStub) \in Seq([address : Addresses, count : Counts])
      /\ \A i \in DOMAIN Tail(socket.toStub) : i + 1 \in DOMAIN socket.toStub /\ i \in Nat /\ i >= 1
  <2>1. socket.toStub \in Seq([address : Addresses, count : Counts])
    BY DEF TargetInv, TargetTypeOK, Sockets
  <2>2. Tail(socket.toStub) \in Seq([address : Addresses, count : Counts])
    BY <1>1, <2>1, TailElements
  <2>3. \A i \in DOMAIN Tail(socket.toStub) : i \in Nat /\ i >= 1
    BY <2>2, LenProperties
  <2>4. /\ socket'.toStub = Tail(socket.toStub)
        /\ socket'.toClient = socket.toClient \o items
    BY <1>1 DEF TargetInv, TargetTypeOK, Sockets
  <2> QED
    BY <1>1, <2>1, <2>2, <2>3, <2>4, TailElements
<1>3. /\ task # NoTask /\ task.op = "live" /\ task.at = "receive"
      /\ task \in LiveTasks /\ live = task.endpoint
      /\ asked = [address |-> task.address, count |-> task.count]
  BY <1>2, TaskShape DEF TargetInv, AskInv, ConnectionInv, At
<1>4. /\ data \in DataBodies /\ Own(data)
  BY <1>3 DEF TargetInv, TargetTypeOK, SinceInv, DataBodies, Own, LiveTasks
<1> HIDE DEF data
<1>5. /\ Ack \in Items /\ Nak \in Items /\ Stray \in Items
      /\ Packet(TRUE, data) \in Items /\ Packet(FALSE, data) \in Items
      /\ Packet(TRUE, [is |-> "error"]) \in Items
      /\ data.is = "data"
  BY <1>4 DEF Ack, Nak, Stray, Packet, Items, Bodies, DataBodies
<1>6. /\ ~GoodData(Ack) /\ ~GoodData(Nak) /\ ~GoodData(Stray)
      /\ ~GoodData(Packet(FALSE, data)) /\ ~GoodData(Packet(TRUE, [is |-> "error"]))
      /\ Packet(TRUE, data).body = data
  <2>1. ~GoodData(Ack) /\ ~GoodData(Nak) /\ ~GoodData(Stray)
    BY DEF GoodData, Ack, Nak, Stray
  <2>2. ~GoodData(Packet(FALSE, data)) /\ Packet(TRUE, data).body = data
    BY DEF GoodData, Packet
  <2>3. Packet(TRUE, [is |-> "error"]).body.is = "error"
    BY DEF Packet
  <2> QED
    BY <2>1, <2>2, <2>3 DEF GoodData
<1>7. items \in Seq(Items)
  <2>1. \A a, b \in Items : <<a>> \in Seq(Items) /\ <<a, b>> \in Seq(Items)
    OBVIOUS
  <2> QED
    BY <1>1, <1>5, <2>1
<1>8. \A j \in DOMAIN items : GoodData(items[j]) => j = 2 /\ items[j].body = data
  <2> HIDE DEF data
  <2>1. CASE items \in {<<Nak>>, <<Stray>>}
    BY <2>1, <1>6
  <2>2. ASSUME NEW item, items = <<Ack, item>>
        PROVE  \A j \in DOMAIN items :
                 (j = 1 /\ items[j] = Ack) \/ (j = 2 /\ items[j] = item)
    BY <2>2
  <2>3. CASE items = <<Ack, Packet(TRUE, data)>>
    BY <2>2, <2>3, <1>6
  <2>4. CASE items \in {<<Ack, Packet(FALSE, data)>>,
                       <<Ack, Packet(TRUE, [is |-> "error"])>>}
    BY <2>2, <2>4, <1>6
  <2> QED
    BY <1>1, <2>1, <2>2, <2>3, <2>4
<1>9. /\ socket'.toClient \in Seq(Items) /\ Len(socket.toClient) \in Nat
      /\ \A i \in DOMAIN socket'.toClient :
           \/ i \in DOMAIN socket.toClient /\ socket'.toClient[i] = socket.toClient[i]
           \/ i - Len(socket.toClient) \in DOMAIN items
              /\ socket'.toClient[i] = items[i - Len(socket.toClient)]
      /\ \A i \in DOMAIN socket'.toClient : i \in Nat
  <2>1. socket.toClient \in Seq(Items)
    BY DEF TargetInv, TargetTypeOK, Sockets
  <2>2. socket'.toClient \in Seq(Items)
    BY <1>2, <1>7, <2>1, ConcatElements
  <2> QED
    BY <1>2, <1>7, <2>1, <2>2, ConcatElements, LenProperties
<1>10. TargetTypeOK'
  <2>1. socket' \in Sockets
    BY <1>1, <1>2, <1>9 DEF TargetInv, TargetTypeOK, Sockets
  <2> QED
    BY <1>1, <2>1 DEF TargetInv, TargetTypeOK
<1>11. \A i \in DOMAIN socket'.toStub : FALSE
  <2> SUFFICES ASSUME NEW i \in DOMAIN Tail(socket.toStub) PROVE FALSE
    BY <1>2
  <2>1. i + 1 = 1 /\ i >= 1 /\ i \in Nat
    BY <1>2 DEF TargetInv, AskInv
  <2> QED
    BY <2>1
<1>12. socket'.toStub = <<>>
  <2>1. socket'.toStub \in Seq([address : Addresses, count : Counts])
    BY <1>2
  <2>2. Len(socket'.toStub) \in Nat /\ DOMAIN socket'.toStub = 1 .. Len(socket'.toStub)
    BY <2>1, LenProperties
  <2>3. 1 \notin 1 .. Len(socket'.toStub)
    BY <1>11, <2>2
  <2>4. Len(socket'.toStub) = 0
    BY <2>2, <2>3
  <2> QED
    BY <2>1, <2>4, EmptySeq
<1>13. \A i \in DOMAIN socket.toClient : ~GoodData(socket.toClient[i])
  BY <1>1 DEF TargetInv, ReplyInv
<1>14. ReplyInv'
  <2>1. \A i \in DOMAIN socket'.toClient : GoodData(socket'.toClient[i]) =>
          /\ i = Len(socket.toClient) + 2
          /\ socket'.toClient[i].body = data
    <3> SUFFICES ASSUME NEW i \in DOMAIN socket'.toClient, GoodData(socket'.toClient[i])
                 PROVE  i = Len(socket.toClient) + 2 /\ socket'.toClient[i].body = data
      OBVIOUS
    <3>1. /\ i - Len(socket.toClient) \in DOMAIN items
          /\ socket'.toClient[i] = items[i - Len(socket.toClient)]
      BY <1>9, <1>13
    <3>2. i - Len(socket.toClient) = 2 /\ socket'.toClient[i].body = data
      BY <1>8, <3>1
    <3> QED
      BY <1>9, <3>2
  <2>2. \A i \in DOMAIN socket'.toClient : GoodData(socket'.toClient[i]) =>
          Own(socket.toClient[i].body)'
    BY <1>1, <1>4, <2>1 DEF Own
  <2>3. At("live", "receive")'
    BY <1>1, <1>3 DEF At
  <2> QED
    BY <1>12, <2>1, <2>2, <2>3 DEF ReplyInv
<1> QED
  BY <1>1, <1>3, <1>10, <1>11, <1>14
     DEF TargetInv, ExchangeInv, ConnectionInv, SinceInv, AskInv, LiveReadsAreOwn,
         Finished, At
\* What nobody asked for is no answer.
LEMMA UnaskedStep ==
  TargetInv /\ (StubReportsStop \/ StubDrips) => TargetTypeOK' /\ ExchangeInv'
<1> SUFFICES ASSUME TargetInv, StubReportsStop \/ StubDrips
             PROVE  TargetTypeOK' /\ ExchangeInv'
  OBVIOUS
<1> DEFINE stop == Packet(TRUE, [is |-> "other"])
<1>0. stop \in Items /\ ~GoodData(stop)
  <2>1. stop \in Items
    BY DEF Packet, Items, Bodies
  <2>2. stop.body.is = "other"
    BY DEF Packet
  <2> QED
    BY <2>1, <2>2 DEF GoodData
<1>a. Ack \in Items /\ ~GoodData(Ack)
  BY DEF Ack, Items, GoodData
<1> HIDE DEF stop
<1>2. /\ socket.toClient \in Seq(Items)
      /\ socket'.toStub = socket.toStub
      /\ UNCHANGED <<task, live, memory, debugger, children>>
  BY DEF StubReportsStop, StubDrips, TargetInv, TargetTypeOK, Sockets
<1>1. PICK sent \in Items :
        ~GoodData(sent) /\ socket' = [socket EXCEPT !.toClient = Append(socket.toClient, sent)]
  <2>1. CASE StubReportsStop
    BY <1>0, <2>1 DEF StubReportsStop, stop
  <2>2. CASE StubDrips
    <3>1. <<Ack>> = Append(socket.toClient, Ack)
      BY <2>2 DEF StubDrips
    <3> QED
      BY <1>a, <2>2, <3>1 DEF StubDrips
  <2> QED
    BY <2>1, <2>2
<1>b. socket'.toClient = Append(socket.toClient, sent)
  BY <1>1 DEF TargetInv, TargetTypeOK, Sockets
<1>3. /\ socket'.toClient \in Seq(Items)
      /\ \A i \in DOMAIN socket'.toClient : GoodData(socket'.toClient[i]) =>
           i \in DOMAIN socket.toClient /\ socket'.toClient[i] = socket.toClient[i]
  BY <1>1, <1>2, <1>b, AppendElements
<1>4. TargetTypeOK'
  <2>1. socket' \in Sockets
    BY <1>1, <1>2, <1>3 DEF TargetInv, TargetTypeOK, Sockets
  <2> QED
    BY <1>2, <2>1 DEF TargetInv, TargetTypeOK
<1>5. ReplyInv'
  BY <1>2, <1>3 DEF TargetInv, ReplyInv, At, Own
<1> QED
  BY <1>2, <1>4, <1>5
     DEF TargetInv, ExchangeInv, ConnectionInv, SinceInv, AskInv, LiveReadsAreOwn,
         Finished, At

\* Memory only grows newer.
LEMMA TargetRunsStep ==
  ASSUME TargetInv, NEW e \in Endpoints, TargetRuns(e)
  PROVE  TargetTypeOK' /\ ExchangeInv'
<1>1. /\ UNCHANGED <<task, live, socket, debugger, children>>
      /\ memory' \in [Endpoints -> Nat]
      /\ \A f \in Endpoints : memory[f] <= memory'[f]
  BY DEF TargetRuns, TargetInv, TargetTypeOK
<1>2. TargetTypeOK'
  BY <1>1 DEF TargetInv, TargetTypeOK
<1>3. SinceInv'
  <2> SUFFICES ASSUME task.op = "live" PROVE task.since <= memory'[task.endpoint]
    BY <1>1 DEF SinceInv
  <2>1. task \in LiveTasks
    BY TaskShape DEF TargetInv, NoTask
  <2>2. task.since \in Nat /\ task.endpoint \in Endpoints
    BY <2>1 DEF LiveTasks
  <2> QED
    BY <1>1, <2>2 DEF TargetInv, TargetTypeOK, SinceInv
<1> QED
  BY <1>1, <1>2, <1>3
     DEF TargetInv, ExchangeInv, ConnectionInv, AskInv, ReplyInv, Own, LiveReadsAreOwn,
         Finished, At

LEMMA DebuggerStep ==
  ASSUME TargetInv,
         \/ DebuggerWrites \/ PipesClose
         \/ \E state \in {"succeeded", "failed"}, held \in BOOLEAN : DebuggerExits(state, held)
  PROVE  TargetTypeOK' /\ ExchangeInv'
<1>1. UNCHANGED <<task, live, socket, memory, children>>
  BY DEF DebuggerWrites, PipesClose, DebuggerExits
<1>2. debugger' \in Children
  <2>1. debugger \in Children
    BY DEF TargetInv, TargetTypeOK
  <2>2. CASE DebuggerWrites
    <3>1. \/ debugger' = [debugger EXCEPT !.out = @ + 1]
          \/ debugger' = [debugger EXCEPT !.err = @ + 1]
      BY <2>2 DEF DebuggerWrites
    <3> QED
      BY <2>1, <3>1 DEF Children
  <2>3. CASE PipesClose
    <3>1. debugger' = [debugger EXCEPT !.held = FALSE]
      BY <2>3 DEF PipesClose
    <3> QED
      BY <2>1, <3>1 DEF Children
  <2>4. ASSUME NEW state \in {"succeeded", "failed"}, NEW held \in BOOLEAN,
               DebuggerExits(state, held)
        PROVE  debugger' \in Children
    <3>1. debugger' = [debugger EXCEPT !.state = state, !.held = held]
      BY <2>4 DEF DebuggerExits
    <3>2. DOMAIN debugger = {"state", "out", "err", "held"}
      BY <2>1 DEF Children
    <3>3. /\ debugger'.state = state /\ debugger'.held = held
          /\ debugger'.out = debugger.out /\ debugger'.err = debugger.err
      BY <3>1, <3>2
    <3> QED
      BY <2>1, <3>1, <3>3 DEF Children
  <2> QED
    BY <2>2, <2>3, <2>4
<1>3. TargetTypeOK'
  BY <1>1, <1>2 DEF TargetInv, TargetTypeOK
<1> QED
  BY <1>1, <1>3
     DEF TargetInv, ExchangeInv, ConnectionInv, SinceInv, AskInv, ReplyInv, Own,
         LiveReadsAreOwn, Finished, At

LEMMA EnvironmentLeaves == TargetStep => UNCHANGED <<task, children>>
BY DEF TargetStep, StubAnswers, StubReportsStop, StubDrips, TargetRuns, DebuggerWrites,
       PipesClose, DebuggerExits

LEMMA EnvironmentKeeps == TargetInv /\ Environment => TargetInv'
<1> SUFFICES ASSUME TargetInv, Environment PROVE TargetInv'
  OBVIOUS
<1>1. TargetStep /\ UNCHANGED server
  BY DEF Environment, apiVars
<1>2. TargetTypeOK' /\ ExchangeInv'
  BY <1>1, StubAnswersStep, UnaskedStep, TargetRunsStep, DebuggerStep DEF TargetStep
<1>3. task' = task
  BY <1>1, EnvironmentLeaves
<1> QED
  BY <1>1, <1>2, <1>3 DEF TargetInv, ExchangeInv, TaskInv

-----------------------------------------------------------------------------
(* The task, from its beginning to its end. *)

\* A debugger command keeps off the connection.
LEMMA DebugExchange ==
  ASSUME TargetInv, DebugStep
  PROVE  /\ ExchangeInv'
         /\ task' # NoTask /\ task'.op = "debug" /\ task'.request = task.request
<1> USE DEF DebugStep
<1>1. task \in DebugTasks /\ UNCHANGED <<live, socket, memory>>
  BY TaskShape DEF TargetInv, SpawnDebugger, PollExited, Drained, PollFails, PollTimesOut, At
<1>2. /\ task' \in DebugTasks /\ task'.op = "debug" /\ task' # NoTask
      /\ task'.request = task.request
  <2>1. TargetTypeOK'
    BY DebugTypes DEF TargetInv
  <2>2. task'.op = "debug" /\ task'.request = task.request
    BY <1>1 DEF SpawnDebugger, PollExited, Drained, PollFails, PollTimesOut, EndsDebug,
                DebugTasks
  <2> QED
    BY <2>1, <2>2 DEF TargetTypeOK, LiveTasks, DebugTasks, NoTask
<1>3. task.op = "debug" /\ ~At("live", "receive")
  BY <1>1 DEF DebugTasks, At
<1>4. AskInv' /\ ReplyInv'
  BY <1>1, <1>3, QuietExchange
<1>5. ConnectionInv' /\ SinceInv' /\ LiveReadsAreOwn'
  BY <1>2 DEF ConnectionInv, SinceInv, LiveReadsAreOwn, At
<1> QED
  BY <1>2, <1>4, <1>5 DEF ExchangeInv

LEMMA TaskKeeps == TargetInv /\ (RunTask \/ PollError) => TargetInv'
<1> SUFFICES ASSUME TargetInv, RunTask \/ PollError PROVE TargetInv'
  OBVIOUS
<1>1. (TaskStep \/ PollFails) /\ UNCHANGED server
  BY DEF RunTask, PollError, apiVars
<1>2. CASE Connect \/ SendRequest \/ Receive \/ ReceiveTimesOut
  <2>1. TargetTypeOK' /\ ExchangeInv'
    BY <1>2, LiveTypes, ConnectExchange, SendExchange, ReceiveExchange DEF TargetInv
  <2>2. task # NoTask /\ task.op = "live" /\ task'.op = "live"
    <3>1. task \in LiveTasks /\ task # NoTask /\ task.op = "live"
      BY <1>2, TaskShape DEF TargetInv, Connect, SendRequest, Receive, ReceiveTimesOut, At
    <3> QED
      BY <1>2, <3>1 DEF Connect, SendRequest, Receive, ReceiveTimesOut, TakeReply, Fail,
                        LiveTasks
  <2> QED
    BY <1>1, <2>1, <2>2 DEF TargetInv, ExchangeInv, TaskInv
<1>3. CASE DebugStep
  <2>1. /\ TargetTypeOK' /\ ExchangeInv'
        /\ task'.op = "debug" /\ task'.request = task.request
    BY <1>3, DebugTypes, DebugExchange DEF TargetInv
  <2>2. task # NoTask /\ task.op = "debug"
    BY <1>3 DEF DebugStep, SpawnDebugger, PollExited, Drained, PollFails, PollTimesOut, At
  <2> QED
    BY <1>1, <2>1, <2>2 DEF TargetInv, ExchangeInv, TaskInv
<1> QED
  BY <1>1, <1>2, <1>3 DEF TaskStep, DebugStep
\* The callers' steps do not reach the server's state.
LEMMA CallerKeeps ==
  ASSUME TargetInv, UNCHANGED <<targetVars, server>>
  PROVE  TargetInv'
BY DEF targetVars, TargetInv, TargetTypeOK, TaskInv, ConnectionInv, SinceInv, AskInv,
       ReplyInv, Own, LiveReadsAreOwn, Finished, At

\* A server that has no task running does not touch the targets.
LEMMA NoTaskKeeps ==
  ASSUME TargetInv, task = NoTask, UNCHANGED targetVars
  PROVE  TargetInv'
<1>2. ExchangeInv'
  BY DEF targetVars, TargetInv, ExchangeInv, ConnectionInv, SinceInv, AskInv,
         ReplyInv, Own, LiveReadsAreOwn, Finished, At
<1>3. TargetTypeOK'
  BY DEF targetVars, TargetInv, TargetTypeOK
<1> QED
  BY <1>2, <1>3 DEF targetVars, TargetInv, ExchangeInv, TaskInv

LEMMA BeginKeeps ==
  ASSUME TargetInv, ApiTypeOK, DispatchLive \/ DispatchDebug
  PROVE  TargetInv'
<1>1. /\ task = NoTask /\ server' = server /\ server.state = "busy"
      /\ UNCHANGED <<live, socket, memory, debugger, children>>
      /\ server.line.ask.method \in {"memory_live", "debug"}
  BY DEF DispatchLive, DispatchDebug, Handles, BeginRead, BeginDebug, Idle, apiVars
<1>2. AskInv' /\ ReplyInv'
  BY <1>1, QuietExchange DEF At
<1>3. CASE DispatchLive
  <2> DEFINE ask == server.line.ask
  <2>1. ask.method = "memory_live" /\ task' = LiveTask(ask.endpoint, ask.address, ask.count)
    BY <1>3 DEF DispatchLive, Handles, BeginRead
  <2>2. server.line \in Lines
    BY <1>1 DEF ApiTypeOK, Servers
  <2>3. ask.endpoint \in Endpoints /\ ask.address \in Addresses /\ ask.count \in Counts
    <3>1. PICK c \in Callers : ask \in Asks[c]
      BY <2>2 DEF Lines, AllAsks
    <3> QED
      BY <2>1, <3>1, AsksAssumption
  <2> HIDE DEF ask
  <2>4. /\ task' \in LiveTasks /\ task'.at = "connect" /\ task'.op = "live"
        /\ task'.endpoint = ask.endpoint /\ task'.since = memory[ask.endpoint]
    BY <2>1, <2>3 DEF LiveTask, LiveTasks, Results, TargetInv, TargetTypeOK
  <2>5. TargetTypeOK'
    BY <1>1, <2>4 DEF TargetInv, TargetTypeOK
  <2>6. SinceInv'
    BY <1>1, <2>3, <2>4 DEF SinceInv, TargetInv, TargetTypeOK
  <2> QED
    BY <1>1, <1>2, <2>4, <2>5, <2>6
       DEF TargetInv, TaskInv, ConnectionInv, LiveReadsAreOwn, Finished, At
<1>4. CASE DispatchDebug
  <2>1. task' = DebugTask(server.line.request)
    BY <1>4 DEF DispatchDebug, BeginDebug
  <2>0. server.line.request \in Requests
    BY <1>1 DEF ApiTypeOK, Servers, Lines
  <2>2. /\ task' \in DebugTasks /\ task'.op = "debug"
        /\ task'.request = server.line.request
    BY <2>0, <2>1 DEF DebugTask, DebugTasks, Results
  <2>3. TargetTypeOK'
    BY <1>1, <2>2 DEF TargetInv, TargetTypeOK
  <2> QED
    BY <1>1, <1>2, <2>2, <2>3
       DEF TargetInv, TaskInv, ConnectionInv, SinceInv, LiveReadsAreOwn, Finished, At
<1> QED
  BY <1>3, <1>4

\* Without a task, what is left are the types and the connection.
LEMMA EndKeeps ==
  ASSUME TargetInv, task' = NoTask, UNCHANGED <<memory, children>>,
         debugger' \in {debugger, NoChild},
         socket' = Closed \/ (socket' = socket /\ ~At("live", "receive"))
  PROVE  TargetInv'
<1>1. AskInv' /\ ReplyInv'
  BY QuietExchange
<1>2. TargetTypeOK'
  <2>1. debugger \in Children /\ NoChild \in Children
    BY DEF TargetInv, TargetTypeOK, NoChild, Children
  <2>2. debugger' \in Children
    BY <2>1
  <2> QED
    BY <2>2, ClosedIsSocket DEF TargetInv, TargetTypeOK
<1>3. task'.op = "none"
  BY DEF NoTask
<1> QED
  BY <1>1, <1>2, <1>3
     DEF TargetInv, TaskInv, ConnectionInv, SinceInv, LiveReadsAreOwn, Finished, At

\* The steps of a server that has no task.
Untasked == TakeRequest \/ Dispatch \/ DispatchWork \/ EndWork

LEMMA UntaskedHasNone ==
  ASSUME TaskInv, Untasked
  PROVE  task = NoTask /\ UNCHANGED targetVars
BY DEF Untasked, TakeRequest, Dispatch, DispatchWork, EndWork, Handles, TaskInv

LEMMA TargetStepKeeps ==
  ASSUME TargetInv, ApiTypeOK, ApiTypeOK', Next
  PROVE  TargetInv'
<1>1. CASE RunTask \/ PollError \/ Environment
  BY <1>1, TaskKeeps, EnvironmentKeeps
<1>2. CASE DispatchLive \/ DispatchDebug
  BY <1>2, BeginKeeps
<1>3. CASE Untasked
  BY <1>3, UntaskedHasNone, NoTaskKeeps DEF TargetInv
<1>4. CASE FinishTask
  <2>1. task.at = "done"
    BY <1>4 DEF FinishTask, Finished
  <2>2. ~At("live", "receive")
    BY <2>1 DEF At
  <2> QED
    BY <1>4, <2>2, EndKeeps DEF FinishTask
<1>5. CASE CloseClient
  BY <1>5, EndKeeps DEF CloseClient
<1>6. ASSUME NEW c \in Callers,
             Sdk(c) \/ Interrupt(c) \/ HangUp(c) \/ \E ask \in Asks[c] : Number(c, ask)
      PROVE  TargetInv'
  <2>1. UNCHANGED <<targetVars, server>>
    BY <1>6 DEF Sdk, WriteLine, ReadLine, Post, HttpAnswer, HttpTimesOut, Interrupt,
                HangUp, Number
  <2> QED
    BY <2>1, CallerKeeps
<1> QED
  BY <1>1, <1>2, <1>3, <1>4, <1>5, <1>6 DEF Next, Serve, Untasked
-----------------------------------------------------------------------------
(* Where a request is. *)

LEMMA CallerShape ==
  ASSUME ApiTypeOK, NEW c \in Callers
  PROVE  /\ caller[c].n \in 0 .. MaxRequests /\ caller[c].id \in Nat
         /\ caller[c].at # "idle" =>
              /\ caller[c].n \in 1 .. MaxRequests /\ caller[c].ask \in AllAsks
              /\ Request(c) \in Requests
         /\ Request(c).caller = c /\ Request(c).n = caller[c].n
<1>1. caller[c] \in Places
  BY DEF ApiTypeOK
<1>2. caller[c].n \in 0 .. MaxRequests /\ caller[c].id \in Nat
  BY <1>1, RequestsAssumption DEF Places
<1>3. ASSUME caller[c].at # "idle"
      PROVE  caller[c].n \in 1 .. MaxRequests /\ caller[c].ask \in AllAsks
  BY <1>1, <1>3 DEF Places
<1> QED
  BY <1>2, <1>3 DEF Request, Requests

LEMMA LineShape ==
  ASSUME ApiTypeOK
  PROVE  /\ \A i \in DOMAIN incoming : incoming[i] \in Lines
         /\ \A i \in DOMAIN outgoing : outgoing[i] \in Responses
         /\ Busied => server.line \in Lines
<1>1. \A i \in DOMAIN incoming : incoming[i] \in Lines
  <2>1. incoming \in Seq(Lines)
    BY DEF ApiTypeOK
  <2> QED
    BY <2>1, LenProperties
<1>2. \A i \in DOMAIN outgoing : outgoing[i] \in Responses
  <2>1. outgoing \in Seq(Responses)
    BY DEF ApiTypeOK
  <2> QED
    BY <2>1, LenProperties
<1>3. Busied => server.line \in Lines
  BY DEF ApiTypeOK, Servers, Busied
<1> QED
  BY <1>1, <1>2, <1>3

LEMMA IssuedRequest ==
  ASSUME ApiTypeOK, IssuedInv, NEW c \in Callers, caller[c].at # "idle"
  PROVE  Request(c) \in issued
BY CallerShape, RequestsAssumption DEF IssuedInv, Request, Requests

LEMMA DistinctRequests ==
  ASSUME NEW c \in Callers, NEW d \in Callers, c # d
  PROVE  Request(c) # Request(d)
BY DEF Request

LEMMA WithValue ==
  ASSUME NEW f, NEW r, NEW v
  PROVE  /\ DOMAIN With(f, r, v) = DOMAIN f \cup {r}
         /\ With(f, r, v)[r] = v
         /\ \A q \in DOMAIN f : q # r => With(f, r, v)[q] = f[q]
BY DEF With

\* Ids that were told apart are told apart when fewer are left.
LEMMA FewerStamps ==
  ASSUME StampInv, Stamps' \subseteq Stamps, UNCHANGED <<transport, nextId>>
  PROVE  StampInv'
BY DEF StampInv

\* The callers of a step that leaves everything but one of them.
MovesTo(c, place) ==
  /\ caller' = [caller EXCEPT ![c] = place]
  /\ place \in Places /\ place.n = caller[c].n

LEMMA MoveTypes ==
  ASSUME ApiTypeOK, IssuedInv, NEW c \in Callers, NEW place, MovesTo(c, place),
         UNCHANGED issued
  PROVE  /\ caller' \in [Callers -> Places] /\ caller'[c] = place
         /\ \A d \in Callers : d # c => caller'[d] = caller[d]
         /\ \A d \in Callers : Request(d)' = Request(d)
         /\ IssuedInv'
<1>1. /\ caller' \in [Callers -> Places] /\ caller'[c] = place
      /\ \A d \in Callers : d # c => caller'[d] = caller[d]
  BY DEF MovesTo, ApiTypeOK
<1>2. \A d \in Callers : caller'[d].n = caller[d].n
  BY <1>1 DEF MovesTo
<1>3. \A d \in Callers : Request(d)' = Request(d)
  BY <1>2 DEF Request
<1>4. \A r \in Requests : r.caller \in Callers
  BY DEF Requests
<1> QED
  BY <1>1, <1>2, <1>3, <1>4 DEF IssuedInv

-----------------------------------------------------------------------------
(* A caller returns. *)

\* The step of a caller that stops waiting, with or without an answer.
LEMMA ReturnStep ==
  ASSUME ApiInv, NEW c \in Callers, Calling(c), NEW value, Returns(c, value),
         UNCHANGED <<transport, nextId, server, incoming, replies, issued, performed>>,
         outgoing' = outgoing \/ (outgoing # <<>> /\ outgoing' = Tail(outgoing)),
         \/ value = Failure
         \/ Request(c) \in DOMAIN performed /\ value = performed[Request(c)]
  PROVE  ApiInv' /\ Abstract!Return(Request(c)) /\ Request(c) \in Requests
<1> DEFINE place == [at |-> "idle", n |-> caller[c].n, id |-> 0]
<1>0. /\ ApiTypeOK /\ IssuedInv /\ ReturnInv /\ OnceInv /\ OutcomeInv /\ StampInv
  BY DEF ApiInv
<1>1. MovesTo(c, place) /\ place.at = "idle"
  BY <1>0, CallerShape DEF Returns, MovesTo, Places
<1> HIDE DEF place
<1>2. /\ caller' \in [Callers -> Places] /\ caller'[c].at = "idle"
      /\ \A d \in Callers : d # c => caller'[d] = caller[d]
      /\ \A d \in Callers : Request(d)' = Request(d)
      /\ IssuedInv'
  BY <1>0, <1>1, MoveTypes
<1>3. /\ caller[c].at # "idle" /\ Request(c) \in issued /\ Request(c) \in Requests
      /\ Request(c) \notin DOMAIN returned
  BY <1>0, CallerShape, IssuedRequest DEF Calling, ReturnInv
<1>4. returned' = With(returned, Request(c), value)
  BY DEF Returns
<1>5. /\ outgoing' \in Seq(Responses)
      /\ \A i \in DOMAIN outgoing' : \E j \in DOMAIN outgoing : outgoing'[i] = outgoing[j]
  <2>1. outgoing \in Seq(Responses)
    BY <1>0 DEF ApiTypeOK
  <2>2. CASE outgoing' = outgoing
    BY <2>1, <2>2
  <2>3. CASE outgoing # <<>> /\ outgoing' = Tail(outgoing)
    BY <2>1, <2>3, TailElements
  <2> QED
    BY <2>2, <2>3
<1>6. ApiTypeOK'
  BY <1>0, <1>2, <1>5 DEF ApiTypeOK
<1>7. ReturnInv'
  <2>1. DOMAIN returned' = DOMAIN returned \cup {Request(c)}
    BY <1>4, WithValue
  <2>2. \A d \in Callers : Calling(d)' => d # c /\ Calling(d)
    BY <1>2 DEF Calling
  <2> QED
    BY <1>0, <1>2, <1>3, <2>1, <2>2, DistinctRequests DEF ReturnInv
<1>8. OnceInv'
  <2>1. \A d \in Callers : caller'[d].at = "numbered" => caller[d].at = "numbered"
    BY <1>2
  <2> QED
    BY <1>0, <1>2, <2>1 DEF OnceInv, Busied
<1>9. OutcomeInv'
  BY <1>0, <1>5 DEF OutcomeInv
<1>10. StampInv'
  <2>1. \A d \in Callers : Calling(d)' => d # c /\ Calling(d)
    BY <1>2 DEF Calling
  <2>2. Stamps' \subseteq Stamps
    BY <1>2, <1>5, <2>1 DEF Stamps, Busied
  <2> QED
    BY <1>0, <2>2, FewerStamps
<1>11. Abstract!Return(Request(c))
  <2>1. Abstract!Adds(returned', returned, Request(c)) /\ returned'[Request(c)] = value
    <3>1. /\ DOMAIN returned' = DOMAIN returned \cup {Request(c)}
          /\ returned'[Request(c)] = value
          /\ \A q \in DOMAIN returned : q # Request(c) => returned'[q] = returned[q]
      BY <1>4 DEF With
    <3> QED
      BY <1>3, <3>1 DEF Abstract!Adds
  <2> QED
    BY <1>3, <2>1 DEF Abstract!Return
<1> QED
  BY <1>2, <1>3, <1>6, <1>7, <1>8, <1>9, <1>10, <1>11 DEF ApiInv
-----------------------------------------------------------------------------
(* A request is written. *)

\* The queue with one more line, of a request nobody has written yet.
LEMMA AppendedLine ==
  ASSUME ApiTypeOK, OnceInv, IssuedInv, NEW c \in Callers, caller[c].at = "numbered",
         NEW line \in Lines, line.request = Request(c), incoming' = Append(incoming, line)
  PROVE  /\ incoming' \in Seq(Lines)
         /\ \A i \in DOMAIN incoming' :
              \/ i \in DOMAIN incoming /\ incoming'[i] = incoming[i]
              \/ i \notin DOMAIN incoming /\ incoming'[i] = line
         /\ \A i \in DOMAIN incoming' :
              /\ incoming'[i].request \in issued \ DOMAIN performed
              /\ \A j \in DOMAIN incoming' :
                   incoming'[j].request = incoming'[i].request => i = j
         /\ Busied => \A i \in DOMAIN incoming' : incoming'[i].request # server.line.request
         /\ \A d \in Callers : d # c /\ caller[d].at = "numbered" =>
              \A i \in DOMAIN incoming' : incoming'[i].request # Request(d)
<1>1. incoming \in Seq(Lines) /\ DOMAIN incoming = 1 .. Len(incoming) /\ Len(incoming) \in Nat
  BY LenProperties DEF ApiTypeOK
<1>2. /\ incoming' \in Seq(Lines)
      /\ \A i \in DOMAIN incoming' :
           \/ i \in DOMAIN incoming /\ incoming'[i] = incoming[i]
           \/ i = Len(incoming) + 1 /\ incoming'[i] = line
  BY <1>1, AppendElements
<1>3. Len(incoming) + 1 \notin DOMAIN incoming
  BY <1>1
<1>4. Request(c) \in issued /\ Request(c) \notin DOMAIN performed
  BY IssuedRequest DEF OnceInv
<1>5. \A i \in DOMAIN incoming : incoming[i].request # Request(c)
  BY DEF OnceInv
<1>6. \A i \in DOMAIN incoming' :
        /\ incoming'[i].request \in issued \ DOMAIN performed
        /\ \A j \in DOMAIN incoming' : incoming'[j].request = incoming'[i].request => i = j
  BY <1>2, <1>3, <1>4, <1>5 DEF OnceInv
<1>7. Busied => \A i \in DOMAIN incoming' : incoming'[i].request # server.line.request
  BY <1>2 DEF OnceInv
<1>8. \A d \in Callers : d # c /\ caller[d].at = "numbered" =>
        \A i \in DOMAIN incoming' : incoming'[i].request # Request(d)
  BY <1>2, DistinctRequests DEF OnceInv
<1> QED
  BY <1>2, <1>3, <1>6, <1>7, <1>8

LEMMA WriteStep ==
  ASSUME ApiInv, NEW c \in Callers, caller[c].at = "numbered", NEW to,
         to \in {"reading", "waiting"}, caller' = [caller EXCEPT ![c].at = to],
         incoming' = Append(incoming, Line(c)),
         UNCHANGED <<transport, nextId, server, outgoing, replies, history>>
  PROVE  ApiInv'
<1> DEFINE place == [caller[c] EXCEPT !.at = to]
<1>0. /\ ApiTypeOK /\ IssuedInv /\ ReturnInv /\ OnceInv /\ OutcomeInv /\ StampInv
      /\ UNCHANGED <<issued, performed, returned>>
  BY DEF ApiInv, history
<1>1. MovesTo(c, place) /\ place.at = to /\ place.id = caller[c].id
  <2>1. caller[c] \in Places
    BY <1>0 DEF ApiTypeOK
  <2>2. place \in Places /\ place.at = to /\ place.n = caller[c].n /\ place.id = caller[c].id
    BY <2>1 DEF Places
  <2>3. caller' = [caller EXCEPT ![c] = place]
    BY <1>0 DEF ApiTypeOK
  <2> QED
    BY <2>2, <2>3 DEF MovesTo
<1> HIDE DEF place
<1>2. /\ caller' \in [Callers -> Places]
      /\ caller'[c].at = to /\ caller'[c].id = caller[c].id
      /\ \A d \in Callers : d # c => caller'[d] = caller[d]
      /\ \A d \in Callers : Request(d)' = Request(d)
      /\ IssuedInv'
  BY <1>0, <1>1, MoveTypes
<1>3. Line(c) \in Lines /\ Line(c).request = Request(c) /\ Line(c).id = caller[c].id
  BY <1>0, CallerShape DEF Line, Lines
<1>4. /\ incoming' \in Seq(Lines)
      /\ \A i \in DOMAIN incoming' :
           \/ i \in DOMAIN incoming /\ incoming'[i] = incoming[i]
           \/ i \notin DOMAIN incoming /\ incoming'[i] = Line(c)
  BY <1>0, <1>3, AppendedLine
<1>5. \A d \in Callers : caller'[d].at = "numbered" => d # c /\ caller[d].at = "numbered"
  BY <1>2
<1>6. OnceInv'
  BY <1>0, <1>2, <1>3, <1>5, AppendedLine DEF OnceInv, Busied
<1>7. \A d \in Callers : Calling(d)' => Calling(d)
  BY <1>2 DEF Calling
<1>8. ReturnInv'
  BY <1>0, <1>2, <1>7 DEF ReturnInv
<1>9. OutcomeInv'
  BY <1>0 DEF OutcomeInv
<1>10. StampInv'
  <2>1. \A d \in Callers : caller'[d].id = caller[d].id
    BY <1>2
  <2>2. <<Line(c).id, Line(c).request>> \in Stamps
    BY <1>3 DEF Stamps, Calling
  <2>3. \A i \in DOMAIN incoming' : <<incoming'[i].id, incoming'[i].request>> \in Stamps
    BY <1>4, <2>2 DEF Stamps
  <2>4. Stamps' \subseteq Stamps
    BY <1>2, <1>7, <2>1, <2>3 DEF Stamps, Busied
  <2> QED
    BY <1>0, <2>4, FewerStamps
<1>11. ApiTypeOK'
  BY <1>0, <1>2, <1>4 DEF ApiTypeOK
<1> QED
  BY <1>2, <1>6, <1>8, <1>9, <1>10, <1>11 DEF ApiInv

LEMMA HangUpStep ==
  ASSUME ApiInv, NEW c \in Callers, HangUp(c)
  PROVE  ApiInv' /\ Abstract!Return(Request(c)) /\ Request(c) \in Requests
<1> DEFINE place == [caller[c] EXCEPT !.at = "gone"]
<1>0. /\ ApiTypeOK /\ IssuedInv /\ ReturnInv /\ OnceInv /\ OutcomeInv
      /\ UNCHANGED <<transport, server, outgoing, replies, nextId, issued, performed>>
      /\ transport = "http" /\ caller[c].at = "numbered"
  BY DEF ApiInv, HangUp
<1>1. MovesTo(c, place) /\ place.at = "gone"
  <2>1. caller[c] \in Places
    BY <1>0 DEF ApiTypeOK
  <2>2. place \in Places /\ place.at = "gone" /\ place.n = caller[c].n
    BY <1>0, <2>1 DEF Places
  <2>3. caller' = [caller EXCEPT ![c] = place]
    BY <1>0 DEF ApiTypeOK, HangUp
  <2> QED
    BY <2>2, <2>3 DEF MovesTo
<1> HIDE DEF place
<1>2. /\ caller' \in [Callers -> Places] /\ caller'[c].at = "gone"
      /\ \A d \in Callers : d # c => caller'[d] = caller[d]
      /\ \A d \in Callers : Request(d)' = Request(d)
      /\ IssuedInv'
  BY <1>0, <1>1, MoveTypes
<1>3. PICK line \in Lines : line.request = Request(c) /\ incoming' = Append(incoming, line)
  <2>1. PICK cut \in {"headers", "elsewhere"} :
          incoming' = Append(incoming, [Line(c) EXCEPT !.cut = cut])
    BY DEF HangUp
  <2>2. /\ [Line(c) EXCEPT !.cut = cut] \in Lines
        /\ [Line(c) EXCEPT !.cut = cut].request = Request(c)
    BY <1>0, <2>1, CallerShape DEF Line, Lines
  <2> QED
    BY <2>1, <2>2
<1>4. \A d \in Callers : caller'[d].at = "numbered" => d # c /\ caller[d].at = "numbered"
  BY <1>2
<1>5. OnceInv' /\ incoming' \in Seq(Lines)
  BY <1>0, <1>2, <1>3, <1>4, AppendedLine DEF OnceInv, Busied
<1>6. /\ Request(c) \in issued /\ Request(c) \in Requests
      /\ Request(c) \notin DOMAIN returned
  BY <1>0, CallerShape, IssuedRequest DEF Calling, ReturnInv
<1>7. /\ DOMAIN returned' = DOMAIN returned \cup {Request(c)}
      /\ returned'[Request(c)] = Failure
      /\ \A q \in DOMAIN returned : q # Request(c) => returned'[q] = returned[q]
  BY DEF HangUp, With
<1>8. ReturnInv'
  <2>1. \A d \in Callers : Calling(d)' => d # c /\ Calling(d)
    BY <1>2 DEF Calling
  <2> QED
    BY <1>0, <1>2, <1>6, <1>7, <2>1, DistinctRequests DEF ReturnInv
<1>9. OutcomeInv' /\ StampInv'
  BY <1>0 DEF OutcomeInv, StampInv
<1>10. ApiTypeOK'
  BY <1>0, <1>2, <1>5 DEF ApiTypeOK
<1>11. Abstract!Return(Request(c))
  <2>1. Abstract!Adds(returned', returned, Request(c))
    BY <1>6, <1>7 DEF Abstract!Adds
  <2> QED
    BY <1>0, <1>6, <1>7, <2>1 DEF Abstract!Return
<1> QED
  BY <1>2, <1>5, <1>6, <1>8, <1>9, <1>10, <1>11 DEF ApiInv
-----------------------------------------------------------------------------
(* A request is numbered. *)

\* The new request is nobody's yet, and its id is above all others.
LEMMA NumberStep ==
  ASSUME ApiInv, NEW c \in Callers, NEW ask \in Asks[c], Number(c, ask)
  PROVE  ApiInv' /\ \E r \in Requests : Abstract!Issue(r)
<1> DEFINE k == Client(c)
           n == caller[c].n + 1
           place == [at |-> "numbered", n |-> n, id |-> nextId[k], ask |-> ask]
           new == [caller |-> c, n |-> n]
<1>0. /\ ApiTypeOK /\ IssuedInv /\ ReturnInv /\ OnceInv /\ OutcomeInv /\ StampInv
      /\ UNCHANGED <<transport, server, incoming, outgoing, replies, performed, returned>>
      /\ caller[c].at = "idle" /\ caller[c].n < MaxRequests
      /\ caller' = [caller EXCEPT ![c] = place]
      /\ nextId' = [nextId EXCEPT ![k] = @ + 1]
      /\ issued' = issued \cup {new}
  BY DEF ApiInv, Number
<1>1. k \in Callers \cup {Shared} /\ nextId[k] \in Nat /\ n \in 1 .. MaxRequests
      /\ caller[c].n \in Nat
  BY <1>0, CallerShape, RequestsAssumption DEF Client, ApiTypeOK
<1>2. place \in Places
  BY <1>1 DEF Places, AllAsks
<1>3. /\ caller' \in [Callers -> Places] /\ caller'[c] = place
      /\ \A d \in Callers : d # c => caller'[d] = caller[d]
  BY <1>0, <1>2 DEF ApiTypeOK
<1>4. ApiTypeOK'
  BY <1>0, <1>1, <1>3 DEF ApiTypeOK
<1>5. /\ Request(c)' = new /\ new \in Requests
      /\ \A d \in Callers : d # c => Request(d)' = Request(d)
  BY <1>1, <1>3 DEF Request, Requests
<1>6. IssuedInv'
  <2>1. ASSUME NEW r \in Requests
        PROVE  r.n <= caller'[r.caller].n <=> r \in issued \/ r = new
    <3>1. /\ r.caller \in Callers /\ r.n \in 1 .. MaxRequests
          /\ r = [caller |-> r.caller, n |-> r.n]
      BY DEF Requests
    <3>2. CASE r.caller = c
      <4>1. caller'[r.caller].n = caller[c].n + 1
        BY <1>3, <3>2
      <4>2. r = new <=> r.n = n
        BY <3>1, <3>2
      <4>3. r \in issued <=> r.n <= caller[c].n
        BY <1>0, <3>2 DEF IssuedInv
      <4> QED
        BY <1>1, <3>1, <4>1, <4>2, <4>3, RequestsAssumption
    <3>3. CASE r.caller # c
      <4>1. r # new
        BY <3>3
      <4> QED
        BY <1>0, <1>3, <3>1, <3>3, <4>1 DEF IssuedInv
    <3> QED
      BY <3>2, <3>3
  <2> QED
    BY <1>0, <1>5, <2>1 DEF IssuedInv
<1>7. new \notin issued
  BY <1>0, <1>1 DEF IssuedInv
<1>8. ReturnInv'
  <2>1. \A d \in Callers : Calling(d)' => d = c \/ Calling(d)
    BY <1>3 DEF Calling
  <2> QED
    BY <1>0, <1>5, <1>7, <2>1 DEF ReturnInv
<1>9. OnceInv'
  <2>1. \A d \in Callers : caller'[d].at = "numbered" => d = c \/ caller[d].at = "numbered"
    BY <1>3
  <2>2. /\ new \notin DOMAIN performed
        /\ \A i \in DOMAIN incoming : incoming[i].request # new
        /\ Busied => server.line.request # new
    BY <1>0, <1>7 DEF OnceInv
  <2>3. ASSUME NEW d \in Callers, caller'[d].at = "numbered"
        PROVE  /\ Request(d)' \notin DOMAIN performed
               /\ \A i \in DOMAIN incoming : incoming[i].request # Request(d)'
               /\ Busied => server.line.request # Request(d)'
    <3>1. CASE d = c
      BY <1>5, <2>2, <3>1
    <3>2. CASE d # c
      <4>1. caller[d].at = "numbered"
        BY <2>1, <2>3, <3>2
      <4> QED
        BY <1>0, <1>5, <3>2, <4>1 DEF OnceInv
    <3> QED
      BY <3>1, <3>2
  <2>4. /\ DOMAIN performed \subseteq issued'
        /\ \A i \in DOMAIN incoming :
             /\ incoming[i].request \in issued' \ DOMAIN performed
             /\ \A j \in DOMAIN incoming :
                  incoming[j].request = incoming[i].request => i = j
        /\ Busied =>
             /\ server.line.request \in issued' \ DOMAIN performed
             /\ \A i \in DOMAIN incoming : incoming[i].request # server.line.request
    BY <1>0 DEF OnceInv
  <2>5. Busied' = Busied
    BY <1>0 DEF Busied
  <2> QED
    BY <1>0, <2>3, <2>4, <2>5 DEF OnceInv
<1>10. OutcomeInv'
  BY <1>0 DEF OutcomeInv
<1>11. StampInv'
  <2> SUFFICES ASSUME transport = "stdio"
               PROVE  /\ \A s \in Stamps' : s[1] < nextId'[Shared]
                      /\ \A s, t \in Stamps' : s[1] = t[1] => s[2] = t[2]
    BY <1>0 DEF StampInv
  <2>1. /\ k = Shared /\ nextId'[Shared] = nextId[Shared] + 1
    BY <1>0 DEF Client, ApiTypeOK
  <2>2. \A s \in Stamps : s[1] < nextId[Shared]
    BY <1>0 DEF StampInv
  <2>3. Stamps' \subseteq Stamps \cup {<<nextId[Shared], new>>}
    <3>1. \A d \in Callers : Calling(d)' =>
            \/ d = c /\ caller'[d].id = nextId[Shared] /\ Request(d)' = new
            \/ Calling(d) /\ caller'[d].id = caller[d].id /\ Request(d)' = Request(d)
      BY <1>3, <1>5, <2>1 DEF Calling
    <3> QED
      BY <1>0, <3>1 DEF Stamps, Busied
  <2>4. \A s \in Stamps : s[1] \in Nat
    <3>1. \A d \in Callers : caller[d].id \in Nat
      BY <1>0, CallerShape
    <3>2. \A i \in DOMAIN incoming : incoming[i].id \in Nat
      BY <1>0, LineShape DEF Lines
    <3>3. \A i \in DOMAIN outgoing : outgoing[i].id \in Nat
      BY <1>0, LineShape DEF Responses
    <3>4. Busied => server.line.id \in Nat
      BY <1>0, LineShape DEF Lines
    <3> QED
      BY <3>1, <3>2, <3>3, <3>4 DEF Stamps
  <2> HIDE DEF new
  <2>5. nextId[Shared] \in Nat
    BY <1>1, <2>1
  <2>6. ASSUME NEW s \in Stamps' PROVE s[1] < nextId[Shared] + 1
    BY <2>2, <2>3, <2>4, <2>5
  <2>7. ASSUME NEW s \in Stamps', NEW t \in Stamps', s[1] = t[1] PROVE s[2] = t[2]
    <3>1. s \in Stamps \/ s = <<nextId[Shared], new>>
      BY <2>3
    <3>2. t \in Stamps \/ t = <<nextId[Shared], new>>
      BY <2>3
    <3>3. s \in Stamps /\ t \in Stamps => s[2] = t[2]
      BY <1>0, <2>7 DEF StampInv
    <3>4. \A q \in Stamps : q[1] # nextId[Shared]
      BY <2>2, <2>4, <2>5
    <3> QED
      BY <2>7, <3>1, <3>2, <3>3, <3>4
  <2> QED
    BY <2>1, <2>6, <2>7
<1>12. Abstract!Issue(new)
  BY <1>0, <1>7 DEF Abstract!Issue
<1> QED
  BY <1>4, <1>5, <1>6, <1>8, <1>9, <1>10, <1>11, <1>12 DEF ApiInv
-----------------------------------------------------------------------------
(* The server takes a request and performs it. *)

LEMMA TakeRequestStep == ApiInv /\ TakeRequest => ApiInv'
<1> SUFFICES ASSUME ApiInv, TakeRequest PROVE ApiInv'
  OBVIOUS
<1> DEFINE line == Head(incoming)
<1>0. /\ ApiTypeOK /\ IssuedInv /\ ReturnInv /\ OnceInv /\ OutcomeInv /\ StampInv
      /\ UNCHANGED <<transport, nextId, caller, outgoing, replies, issued, performed, returned>>
      /\ server.state = "ready" /\ ~Busied /\ incoming # <<>> /\ incoming' = Tail(incoming)
      /\ server' \in {Busy(line), [state |-> "spinning"], server}
  <2>1. /\ server.state = "ready" /\ incoming # <<>> /\ incoming' = Tail(incoming)
        /\ UNCHANGED <<transport, nextId, caller, outgoing, replies, issued, performed,
                       returned>>
    BY DEF TakeRequest, history
  <2>2. server' \in {Busy(line), [state |-> "spinning"], server}
    BY DEF TakeRequest
  <2> QED
    BY <2>1, <2>2 DEF ApiInv, Busied
<1>1. /\ incoming' \in Seq(Lines) /\ line \in Lines /\ line = incoming[1]
      /\ 1 \in DOMAIN incoming
      /\ \A i \in DOMAIN incoming' :
           i + 1 \in DOMAIN incoming /\ incoming'[i] = incoming[i + 1] /\ i \in Nat /\ i >= 1
  <2>1. incoming \in Seq(Lines)
    BY <1>0 DEF ApiTypeOK
  <2>2. incoming' \in Seq(Lines)
    BY <1>0, <2>1, TailElements
  <2>3. \A i \in DOMAIN incoming' : i \in Nat /\ i >= 1
    BY <2>2, LenProperties
  <2> QED
    BY <1>0, <2>1, <2>2, <2>3, TailElements
<1> HIDE DEF line
<1>2. server' \in Servers /\ (Busied' => server'.line = line)
  BY <1>0, <1>1 DEF ApiTypeOK, Servers, Busy, Busied
<1>3. ApiTypeOK'
  BY <1>0, <1>1, <1>2 DEF ApiTypeOK
<1>4. \A d \in Callers : Request(d)' = Request(d) /\ Calling(d)' = Calling(d)
  BY <1>0 DEF Request, Calling
<1>5. ReturnInv' /\ IssuedInv' /\ OutcomeInv'
  BY <1>0, <1>4 DEF ReturnInv, IssuedInv, OutcomeInv
<1>6. OnceInv'
  <2>1. \A i \in DOMAIN incoming' :
          /\ incoming'[i].request \in issued \ DOMAIN performed
          /\ incoming'[i].request # line.request
          /\ \A j \in DOMAIN incoming' : incoming'[j].request = incoming'[i].request => i = j
    <3> SUFFICES ASSUME NEW i \in DOMAIN incoming'
                 PROVE  /\ incoming'[i].request \in issued \ DOMAIN performed
                        /\ incoming'[i].request # line.request
                        /\ \A j \in DOMAIN incoming' :
                             incoming'[j].request = incoming'[i].request => i = j
      OBVIOUS
    <3>1. i + 1 \in DOMAIN incoming /\ incoming'[i] = incoming[i + 1] /\ i + 1 # 1
      BY <1>1
    <3>2. incoming'[i].request # line.request
      BY <1>0, <1>1, <3>1 DEF OnceInv
    <3>3. ASSUME NEW j \in DOMAIN incoming', incoming'[j].request = incoming'[i].request
          PROVE  i = j
      <4>1. i + 1 = j + 1
        BY <1>0, <1>1, <3>1, <3>3 DEF OnceInv
      <4> QED
        BY <1>1, <4>1
    <3> QED
      BY <1>0, <3>1, <3>2, <3>3 DEF OnceInv
  <2>2. line.request \in issued \ DOMAIN performed
    BY <1>0, <1>1 DEF OnceInv
  <2>3. \A d \in Callers : caller[d].at = "numbered" =>
          /\ Request(d) \notin DOMAIN performed /\ line.request # Request(d)
          /\ \A i \in DOMAIN incoming' : incoming'[i].request # Request(d)
    BY <1>0, <1>1 DEF OnceInv
  <2> QED
    BY <1>0, <1>2, <1>4, <2>1, <2>2, <2>3 DEF OnceInv
<1>7. StampInv'
  <2>1. <<line.id, line.request>> \in Stamps
    BY <1>1 DEF Stamps
  <2>2. \A i \in DOMAIN incoming' : <<incoming'[i].id, incoming'[i].request>> \in Stamps
    BY <1>1 DEF Stamps
  <2>3. Stamps' \subseteq Stamps
    BY <1>0, <1>2, <1>4, <2>1, <2>2 DEF Stamps
  <2> QED
    BY <1>0, <2>3, FewerStamps
<1> QED
  BY <1>3, <1>5, <1>6, <1>7 DEF ApiInv

Answers == Results \cup {"ok", "core_error", "worker_error", "unknown_method"}

LEMMA RespondStep ==
  ASSUME ApiInv, Busied, NEW answer \in Answers, Respond(answer)
  PROVE  /\ ApiInv'
         /\ Abstract!Perform(server.line.request) /\ server.line.request \in Requests
<1> DEFINE line == server.line
           outcome == [request |-> line.request, result |-> answer]
           response == [id |-> line.id, outcome |-> outcome]
<1>0. /\ ApiTypeOK /\ IssuedInv /\ ReturnInv /\ OnceInv /\ OutcomeInv /\ StampInv
      /\ UNCHANGED <<transport, nextId, caller, incoming, issued, returned>>
      /\ Busied /\ server' = Ready /\ performed' = With(performed, line.request, outcome)
      /\ \/ outgoing' = Append(outgoing, response) /\ UNCHANGED replies
         \/ /\ UNCHANGED outgoing
            /\ replies' = replies \/ replies' = With(replies, line.request, response)
  BY DEF ApiInv, Respond, Busied
<1>1. /\ line \in Lines /\ line.request \in issued /\ line.request \in Requests
      /\ line.request \notin DOMAIN performed
  BY <1>0, LineShape DEF OnceInv, Lines
<1>2. /\ outcome \in Outcomes /\ outcome.request = line.request
      /\ response \in Responses /\ response.id = line.id /\ response.outcome = outcome
  BY <1>1 DEF Outcomes, Answers, Responses, Lines
<1> HIDE DEF outcome, response
<1>3. /\ DOMAIN performed' = DOMAIN performed \cup {line.request}
      /\ performed'[line.request] = outcome
      /\ \A q \in DOMAIN performed : q # line.request => performed'[q] = performed[q]
  BY <1>0 DEF With
<1>4. \A q \in DOMAIN performed : performed'[q] = performed[q]
  BY <1>1, <1>3
<1>5. /\ outgoing' \in Seq(Responses)
      /\ \A i \in DOMAIN outgoing' :
           \/ i \in DOMAIN outgoing /\ outgoing'[i] = outgoing[i]
           \/ outgoing'[i] = response
  <2>1. outgoing \in Seq(Responses)
    BY <1>0 DEF ApiTypeOK
  <2>2. CASE outgoing' = Append(outgoing, response)
    BY <1>2, <2>1, <2>2, AppendElements
  <2>3. CASE outgoing' = outgoing
    BY <2>1, <2>3
  <2> QED
    BY <1>0, <2>2, <2>3
<1>6. ~Busied' /\ server' \in Servers
  BY <1>0 DEF Busied, Ready, Servers
<1>7. ApiTypeOK'
  BY <1>0, <1>5, <1>6 DEF ApiTypeOK
<1>8. \A d \in Callers : Request(d)' = Request(d) /\ Calling(d)' = Calling(d)
  BY <1>0 DEF Request, Calling
<1>9. ReturnInv' /\ IssuedInv'
  BY <1>0, <1>8 DEF ReturnInv, IssuedInv
<1>10. OnceInv'
  BY <1>0, <1>1, <1>3, <1>6, <1>8 DEF OnceInv
<1>11. OutcomeInv'
  <2>1. \A i \in DOMAIN outgoing' :
          /\ outgoing'[i].outcome.request \in DOMAIN performed'
          /\ performed'[outgoing'[i].outcome.request] = outgoing'[i].outcome
    BY <1>0, <1>2, <1>3, <1>4, <1>5 DEF OutcomeInv
  <2>2. \A r \in DOMAIN replies' :
          r \in DOMAIN performed' /\ performed'[r] = replies'[r].outcome
    <3>1. CASE replies' = replies
      BY <1>0, <1>3, <1>4, <3>1 DEF OutcomeInv
    <3>2. CASE replies' = With(replies, line.request, response)
      <4>1. /\ DOMAIN replies' = DOMAIN replies \cup {line.request}
            /\ replies'[line.request] = response
            /\ \A q \in DOMAIN replies : q # line.request => replies'[q] = replies[q]
        BY <3>2 DEF With
      <4> QED
        BY <1>0, <1>2, <1>3, <1>4, <4>1 DEF OutcomeInv
    <3> QED
      BY <1>0, <3>1, <3>2
  <2> QED
    BY <2>1, <2>2 DEF OutcomeInv
<1>12. StampInv'
  <2>1. <<line.id, line.request>> \in Stamps
    BY <1>0 DEF Stamps
  <2>2. \A i \in DOMAIN outgoing' : <<outgoing'[i].id, outgoing'[i].outcome.request>> \in Stamps
    BY <1>2, <1>5, <2>1 DEF Stamps
  <2>3. Stamps' \subseteq Stamps
    BY <1>0, <1>6, <1>8, <2>2 DEF Stamps
  <2> QED
    BY <1>0, <2>3, FewerStamps
<1>13. Abstract!Perform(line.request)
  <2>1. Abstract!Adds(performed', performed, line.request)
    BY <1>1, <1>3 DEF Abstract!Adds
  <2> QED
    BY <1>0, <1>1, <2>1 DEF Abstract!Perform
<1> QED
  BY <1>1, <1>7, <1>9, <1>10, <1>11, <1>12, <1>13 DEF ApiInv

-----------------------------------------------------------------------------
(* The callers of the SDK. *)

\* On stdio the answer a caller takes has its id, and so is its own.
LEMMA OwnLine ==
  ASSUME ApiInv, transport = "stdio", NEW c \in Callers, Calling(c), outgoing # <<>>
  PROVE  LET value == Takes(Head(outgoing), caller[c].id)
         IN  \/ value = Failure
             \/ Request(c) \in DOMAIN performed /\ value = performed[Request(c)]
<1> DEFINE response == Head(outgoing)
<1>1. outgoing \in Seq(Responses) /\ 1 \in DOMAIN outgoing /\ response = outgoing[1]
  BY TailElements DEF ApiInv, ApiTypeOK
<1>2. CASE response.id = caller[c].id
  <2>1. /\ <<response.id, response.outcome.request>> \in Stamps
        /\ <<caller[c].id, Request(c)>> \in Stamps
    BY <1>1 DEF Stamps
  <2>2. response.outcome.request = Request(c)
    <3>1. \A s, t \in Stamps : s[1] = t[1] => s[2] = t[2]
      BY DEF ApiInv, StampInv
    <3> QED
      BY <1>2, <2>1, <3>1
  <2> QED
    BY <1>1, <1>2, <2>2 DEF ApiInv, OutcomeInv, Takes
<1>3. CASE response.id # caller[c].id
  BY <1>3 DEF Takes
<1> QED
  BY <1>2, <1>3

LEMMA SdkStep ==
  ASSUME ApiInv, NEW c \in Callers, Sdk(c) \/ Interrupt(c)
  PROVE  /\ ApiInv'
         /\ \/ UNCHANGED history
            \/ Request(c) \in Requests /\ Abstract!Return(Request(c))
<1>1. ASSUME NEW value, Calling(c), Returns(c, value),
             UNCHANGED <<transport, nextId, server, incoming, replies, issued, performed>>,
             outgoing' = outgoing \/ (outgoing # <<>> /\ outgoing' = Tail(outgoing)),
             \/ value = Failure
             \/ Request(c) \in DOMAIN performed /\ value = performed[Request(c)]
      PROVE  ApiInv' /\ Request(c) \in Requests /\ Abstract!Return(Request(c))
  BY <1>1, ReturnStep
<1>2. ASSUME NEW to \in {"reading", "waiting"}, caller[c].at = "numbered",
             caller' = [caller EXCEPT ![c].at = to],
             incoming' = Append(incoming, Line(c)),
             UNCHANGED <<transport, nextId, server, outgoing, replies, history>>
      PROVE  ApiInv'
  BY <1>2, WriteStep
<1>3. CASE WriteLine(c)
  BY <1>1, <1>2, <1>3 DEF WriteLine, Calling, history
<1>4. CASE ReadLine(c)
  <2>1. Calling(c) /\ transport = "stdio"
    BY <1>4 DEF ReadLine, Calling
  <2>2. CASE outgoing # <<>> /\ Returns(c, Takes(Head(outgoing), caller[c].id))
                            /\ outgoing' = Tail(outgoing)
    BY <1>1, <1>4, <2>1, <2>2, OwnLine DEF ReadLine
  <2>3. CASE Returns(c, Failure) /\ UNCHANGED outgoing
    BY <1>1, <1>4, <2>1, <2>3 DEF ReadLine
  <2> QED
    BY <1>4, <2>2, <2>3 DEF ReadLine
<1>5. CASE Post(c)
  BY <1>2, <1>5 DEF Post
<1>6. CASE HttpAnswer(c)
  <2> DEFINE value == Takes(replies[Request(c)], caller[c].id)
  <2>1. \/ value = Failure
        \/ Request(c) \in DOMAIN performed /\ value = performed[Request(c)]
    BY <1>6 DEF HttpAnswer, Takes, ApiInv, OutcomeInv
  <2> HIDE DEF value
  <2>2. Returns(c, value) /\ Calling(c)
    BY <1>6 DEF HttpAnswer, Calling, value
  <2> QED
    BY <1>1, <1>6, <2>1, <2>2 DEF HttpAnswer
<1>7. CASE HttpTimesOut(c) \/ Interrupt(c)
  BY <1>1, <1>7 DEF HttpTimesOut, Interrupt, Calling
<1> QED
  BY <1>3, <1>4, <1>5, <1>6, <1>7 DEF Sdk
-----------------------------------------------------------------------------
(* All steps together. *)

Inv == TargetInv /\ ApiInv /\ ChildIsSupervised

LEMMA InitInv == Init => Inv /\ Abstract!Init
<1> SUFFICES ASSUME Init PROVE Inv /\ Abstract!Init
  OBVIOUS
<1> USE DEF Init, TargetsInit
<1>1. TargetTypeOK
  BY ClosedIsSocket DEF TargetTypeOK, NoChild, Children
<1>a. ChildIsSupervised
  BY DEF ChildIsSupervised
<1>2. task.op = "none" /\ ~Finished
  BY DEF NoTask, Finished
<1>3. socket.toStub = <<>> /\ socket.toClient = <<>>
  BY DEF Closed
<1>4. TargetInv
  BY <1>1, <1>2, <1>3, NothingUnread
     DEF TargetInv, TaskInv, ConnectionInv, SinceInv, AskInv, ReplyInv, LiveReadsAreOwn, At
<1>5. ApiTypeOK
  <2>1. [at |-> "idle", n |-> 0, id |-> 0] \in Places
    BY RequestsAssumption DEF Places
  <2>2. Ready \in Servers
    BY DEF Ready, Servers
  <2> QED
    BY <2>1, <2>2 DEF ApiTypeOK
<1>6. ~Busied /\ \A c \in Callers : caller[c].at = "idle" /\ caller[c].n = 0
  BY DEF Busied, Ready
<1>7. IssuedInv
  <2>1. ASSUME NEW r \in Requests PROVE ~(r.n <= caller[r.caller].n)
    <3>1. r.caller \in Callers /\ r.n \in 1 .. MaxRequests
      BY DEF Requests
    <3> QED
      BY <1>6, <3>1, RequestsAssumption
  <2> QED
    BY <2>1 DEF IssuedInv
<1>8. DOMAIN performed = {} /\ DOMAIN returned = {} /\ DOMAIN replies = {}
  OBVIOUS
<1>9. ReturnInv /\ OnceInv /\ OutcomeInv
  BY <1>6, <1>8, NothingUnread DEF ReturnInv, OnceInv, OutcomeInv, Calling
<1>10. Stamps = {}
  BY <1>6, NothingUnread DEF Stamps, Calling
<1>11. StampInv
  BY <1>10 DEF StampInv
<1> QED
  BY <1>a, <1>4, <1>5, <1>7, <1>9, <1>11 DEF Inv, ApiInv, Abstract!Init

\* The steps of the tasks and of the world outside are not seen.
LEMMA QuietKeeps == ApiInv /\ UNCHANGED <<apiVars, history>> => ApiInv'
BY DEF apiVars, history, ApiInv, ApiTypeOK, IssuedInv, ReturnInv, OnceInv, OutcomeInv,
       StampInv, Stamps, Calling, Busied, Request

LEMMA WorkBegins == ApiInv /\ DispatchWork => ApiInv'
<1> SUFFICES ASSUME ApiInv, DispatchWork PROVE ApiInv'
  OBVIOUS
<1>1. /\ UNCHANGED <<transport, nextId, caller, incoming, outgoing, replies,
                     issued, performed, returned>>
      /\ server' = [server EXCEPT !.state = "working"] /\ server.state = "busy"
  BY DEF DispatchWork, Handles, history
<1>2. server' \in Servers /\ Busied /\ Busied' /\ server'.line = server.line
  BY <1>1 DEF ApiInv, ApiTypeOK, Servers, Busied
<1>3. \A d \in Callers : Request(d)' = Request(d) /\ Calling(d)' = Calling(d)
  BY <1>1 DEF Request, Calling
<1>4. Stamps' \subseteq Stamps
  BY <1>1, <1>2, <1>3 DEF Stamps
<1>5. StampInv'
  BY <1>1, <1>4, FewerStamps DEF ApiInv
<1> QED
  BY <1>1, <1>2, <1>3, <1>5
     DEF ApiInv, ApiTypeOK, IssuedInv, ReturnInv, OnceInv, OutcomeInv

LEMMA CloseKeeps == ApiInv /\ CloseClient => ApiInv'
<1> SUFFICES ASSUME ApiInv, CloseClient PROVE ApiInv'
  OBVIOUS
<1>1. /\ UNCHANGED <<transport, nextId, caller, incoming, outgoing, replies,
                     issued, performed, returned>>
      /\ server' = [state |-> "exited"]
  BY DEF CloseClient, history
<1>2. server' \in Servers /\ ~Busied'
  BY <1>1 DEF Servers, Busied
<1>3. \A d \in Callers : Request(d)' = Request(d) /\ Calling(d)' = Calling(d)
  BY <1>1 DEF Request, Calling
<1>4. Stamps' \subseteq Stamps
  BY <1>1, <1>2, <1>3 DEF Stamps
<1>5. StampInv'
  BY <1>1, <1>4, FewerStamps DEF ApiInv
<1> QED
  BY <1>1, <1>2, <1>3, <1>5
     DEF ApiInv, ApiTypeOK, IssuedInv, ReturnInv, OnceInv, OutcomeInv

LEMMA ApiStep ==
  ASSUME Inv, Next
  PROVE  ApiInv' /\ [Abstract!Next]_(Abstract!vars)
<1>0. ApiInv /\ TargetInv
  BY DEF Inv
<1>1. UNCHANGED history => [Abstract!Next]_(Abstract!vars)
  BY DEF history, Abstract!vars
<1>2. CASE RunTask \/ PollError \/ Environment \/ DispatchLive \/ DispatchDebug
  <2>1. UNCHANGED <<apiVars, history>>
    BY <1>2 DEF RunTask, PollError, Environment, DispatchLive, DispatchDebug
  <2> QED
    BY <1>0, <1>1, <2>1, QuietKeeps
<1>3. CASE TakeRequest
  BY <1>0, <1>1, <1>3, TakeRequestStep DEF TakeRequest
<1>4. CASE Dispatch \/ EndWork
  <2>1. PICK answer \in Answers : Busied /\ Respond(answer)
    BY <1>4 DEF Dispatch, EndWork, Handles, Answers, Busied
  <2> QED
    BY <1>0, <2>1, RespondStep DEF Abstract!Next
<1>a. CASE DispatchWork
  BY <1>0, <1>1, <1>a, WorkBegins DEF DispatchWork
<1>5. CASE FinishTask
  <2>1. Busied /\ Respond(task.result) /\ task # NoTask
    BY <1>5 DEF FinishTask, Finished, Busied
  <2>2. task.result \in Answers
    BY <1>0, <2>1 DEF TargetInv, TargetTypeOK, LiveTasks, DebugTasks, Answers
  <2> QED
    BY <1>0, <2>1, <2>2, RespondStep DEF Abstract!Next
<1>6. CASE CloseClient
  BY <1>0, <1>1, <1>6, CloseKeeps DEF CloseClient
<1>7. ASSUME NEW c \in Callers,
             Sdk(c) \/ Interrupt(c) \/ HangUp(c) \/ \E ask \in Asks[c] : Number(c, ask)
      PROVE  ApiInv' /\ [Abstract!Next]_(Abstract!vars)
  <2>1. CASE Sdk(c) \/ Interrupt(c)
    BY <1>0, <1>1, <2>1, SdkStep DEF Abstract!Next
  <2>2. CASE HangUp(c)
    BY <1>0, <2>2, HangUpStep DEF Abstract!Next
  <2>3. CASE \E ask \in Asks[c] : Number(c, ask)
    BY <1>0, <2>3, NumberStep DEF Abstract!Next
  <2> QED
    BY <1>7, <2>1, <2>2, <2>3
<1> QED
  BY <1>2, <1>3, <1>4, <1>a, <1>5, <1>6, <1>7 DEF Next, Serve

(* The children. *)

\* The requests that have left their child behind are over.
Left(r) == r \in DOMAIN performed /\ performed[r].result = Failed("io")

LEMMA RespondLeaves ==
  ASSUME OnceInv, Busied, NEW answer, Respond(answer)
  PROVE  /\ \A r : Left(r) => Left(r)'
         /\ \A r : r = server.line.request /\ answer = Failed("io") => Left(r)'
<1> DEFINE outcome == [request |-> server.line.request, result |-> answer]
<1>1. performed' = With(performed, server.line.request, outcome)
  BY DEF Respond
<1>2. server.line.request \notin DOMAIN performed
  BY DEF OnceInv
<1>3. outcome.result = answer
  OBVIOUS
<1> HIDE DEF outcome
<1>4. /\ \A r \in DOMAIN performed : r # server.line.request
      /\ DOMAIN performed' = DOMAIN performed \cup {server.line.request}
      /\ performed'[server.line.request] = outcome
      /\ \A r \in DOMAIN performed : performed'[r] = performed[r]
  BY <1>1, <1>2 DEF With
<1> QED
  BY <1>3, <1>4 DEF Left

LEMMA ChildStep ==
  ASSUME Inv, Next
  PROVE  ChildIsSupervised'
<1>0. TargetInv /\ TaskInv /\ OnceInv /\ ChildIsSupervised
  BY DEF Inv, TargetInv, ApiInv
<1>1. SUFFICES ASSUME server'.state # "exited", NEW r \in children'
               PROVE  Polls(r)' \/ LeftBehind(r)'
  BY DEF ChildIsSupervised
<1>2. r \in children /\ server.state # "exited" => Polls(r) \/ LeftBehind(r)
  BY <1>0 DEF ChildIsSupervised
<1>3. CASE RunTask \/ PollError
  <2>1. (TaskStep \/ PollFails) /\ UNCHANGED <<server, performed>>
    BY <1>3 DEF RunTask, PollError, apiVars, history
  <2>2. Left(r) => LeftBehind(r)'
    BY <2>1 DEF Left, LeftBehind
  <2>3. CASE Connect \/ SendRequest \/ Receive \/ ReceiveTimesOut
    <3>1. task # NoTask /\ task.op = "live" /\ children' = children
      BY <2>3 DEF Connect, SendRequest, Receive, ReceiveTimesOut, At
    <3> QED
      BY <1>1, <1>2, <2>1, <2>2, <3>1 DEF Polls, LeftBehind, Left, At
  <2>4. CASE DebugStep
    <3>1. task \in DebugTasks /\ task # NoTask
      BY <1>0, <2>4, TaskShape
         DEF TargetInv, DebugStep, SpawnDebugger, PollExited, Drained, PollFails,
             PollTimesOut, At
    <3>2. /\ task'.request = task.request /\ task' # NoTask /\ task'.op = "debug"
      BY <1>0, <2>4, DebugExchange
    <3>3. r \in children /\ r # task.request => Left(r)
      BY <1>1, <1>2, <2>1 DEF Polls, LeftBehind, Left
    <3>4. r \in children => task.at = "poll" \/ Left(r)
      <4>1. task.at # "done"
        BY <2>4 DEF DebugStep, SpawnDebugger, PollExited, Drained, PollFails,
                    PollTimesOut, At
      <4> QED
        BY <1>1, <1>2, <2>1, <4>1 DEF Polls, LeftBehind, Left, At
    <3>5. CASE SpawnDebugger
      <4>1. CASE children' = children
        BY <1>1, <2>2, <3>4, <3>5, <4>1 DEF SpawnDebugger, At
      <4>2. CASE /\ task' = [task EXCEPT !.at = "poll"]
                 /\ children' = children \cup {task.request}
        <5>1. task'.at = "poll"
          BY <3>1, <4>2 DEF DebugTasks
        <5> QED
          BY <1>1, <2>2, <3>2, <3>3, <4>2, <5>1 DEF Polls, At
      <4> QED
        BY <3>5, <4>1, <4>2 DEF SpawnDebugger
    <3>6. CASE PollExited \/ PollTimesOut
      <4>1. r \in children /\ r # task.request
        BY <1>1, <3>6 DEF PollExited, PollTimesOut
      <4> QED
        BY <2>2, <3>3, <4>1
    <3>7. CASE Drained
      BY <1>1, <2>2, <3>4, <3>7 DEF Drained, At
    <3>8. CASE PollFails
      <4>1. task'.at = "done" /\ task'.result = Failed("io") /\ children' = children
        BY <3>1, <3>8 DEF PollFails, EndsDebug, DebugTasks
      <4> QED
        BY <1>1, <2>2, <3>2, <3>3, <4>1 DEF LeftBehind, At
    <3> QED
      BY <2>4, <3>5, <3>6, <3>7, <3>8 DEF DebugStep
  <2> QED
    BY <2>1, <2>3, <2>4 DEF TaskStep, DebugStep
<1>4. CASE Environment
  <2>1. UNCHANGED <<task, children, server, performed>>
    BY <1>4, EnvironmentLeaves DEF Environment, apiVars, history
  <2> QED
    BY <1>1, <1>2, <2>1 DEF Polls, LeftBehind, At
<1>5. CASE DispatchLive \/ DispatchDebug
  <2>1. task = NoTask /\ UNCHANGED <<children, server, performed>>
    BY <1>5 DEF DispatchLive, DispatchDebug, BeginRead, BeginDebug, Idle, apiVars, history
  <2> QED
    BY <1>1, <1>2, <2>1 DEF Polls, LeftBehind, At
<1>6. CASE Untasked
  <2>1. task = NoTask /\ UNCHANGED <<task, children>>
    BY <1>0, <1>6, UntaskedHasNone DEF targetVars
  <2>2. server.state # "exited"
    BY <1>6 DEF Untasked, TakeRequest, Dispatch, DispatchWork, EndWork, Handles
  <2>3. Left(r)
    BY <1>1, <1>2, <2>1, <2>2 DEF Polls, LeftBehind, Left, At
  <2>4. CASE Dispatch \/ EndWork
    <3>1. PICK answer : Busied /\ Respond(answer)
      BY <2>4 DEF Dispatch, EndWork, Handles, Busied
    <3> QED
      BY <1>0, <2>3, <3>1, RespondLeaves DEF Left, LeftBehind
  <2>5. CASE TakeRequest \/ DispatchWork
    BY <2>3, <2>5 DEF TakeRequest, DispatchWork, history, Left, LeftBehind
  <2> QED
    BY <1>6, <2>4, <2>5 DEF Untasked
<1>7. CASE FinishTask
  <2>1. /\ server.state = "busy" /\ Busied /\ task # NoTask /\ task.at = "done"
        /\ Respond(task.result) /\ children' = children
    BY <1>7 DEF FinishTask, Finished, Busied
  <2>2. CASE Left(r)
    BY <1>0, <2>1, <2>2, RespondLeaves DEF Left, LeftBehind
  <2>3. CASE ~Left(r)
    <3>1. task.op = "debug" /\ task.request = r /\ task.result = Failed("io")
      BY <1>1, <1>2, <2>1, <2>3 DEF Polls, LeftBehind, Left, At
    <3>2. r = server.line.request
      BY <1>0, <2>1, <3>1 DEF TaskInv
    <3>3. Left(r)'
      BY <1>0, <2>1, <3>1, <3>2, RespondLeaves
    <3> QED
      BY <3>3 DEF Left, LeftBehind
  <2> QED
    BY <2>2, <2>3
<1>8. CASE CloseClient
  BY <1>1, <1>8 DEF CloseClient
<1>9. ASSUME NEW c \in Callers,
             Sdk(c) \/ Interrupt(c) \/ HangUp(c) \/ \E ask \in Asks[c] : Number(c, ask)
      PROVE  Polls(r)' \/ LeftBehind(r)'
  <2>1. UNCHANGED <<task, children, server, performed>>
    BY <1>9 DEF Sdk, WriteLine, ReadLine, Post, HttpAnswer, HttpTimesOut, Interrupt,
                HangUp, Number, targetVars, history
  <2> QED
    BY <1>1, <1>2, <2>1 DEF Polls, LeftBehind, At
<1> QED
  BY <1>3, <1>4, <1>5, <1>6, <1>7, <1>8, <1>9 DEF Next, Serve, Untasked

LEMMA StutterInv == Inv /\ UNCHANGED vars => Inv' /\ UNCHANGED Abstract!vars
<1> SUFFICES ASSUME Inv, UNCHANGED vars PROVE Inv' /\ UNCHANGED Abstract!vars
  OBVIOUS
<1>1. UNCHANGED <<targetVars, server>> /\ UNCHANGED <<apiVars, history>>
  BY DEF vars, apiVars
<1>2. ChildIsSupervised'
  BY <1>1 DEF Inv, ChildIsSupervised, Polls, LeftBehind, At, targetVars, history
<1> QED
  BY <1>1, <1>2, CallerKeeps, QuietKeeps DEF Inv, history, Abstract!vars

LEMMA InvStep == Inv /\ [Next]_vars => Inv' /\ [Abstract!Next]_(Abstract!vars)
<1> SUFFICES ASSUME Inv, Next PROVE Inv' /\ [Abstract!Next]_(Abstract!vars)
  BY StutterInv
<1>1. ApiInv' /\ [Abstract!Next]_(Abstract!vars)
  BY ApiStep
<1>2. TargetInv'
  BY <1>1, TargetStepKeeps DEF Inv, ApiInv
<1> QED
  BY <1>1, <1>2, ChildStep DEF Inv

-----------------------------------------------------------------------------
(***************************************************************************)
(* The theorems.                                                           *)
(***************************************************************************)

\* In every reachable state the invariants hold.
THEOREM ServerInvariant == Spec => []Inv
<1>1. Init => Inv
  BY InitInv
<1>2. Inv /\ [Next]_vars => Inv'
  BY InvStep
<1> QED
  BY <1>1, <1>2, PTL DEF Spec

\* A live read returns what its caller asked for, from the stub it named and
\* not older than the request, whatever was late, garbled or left over on the
\* kept connection (Core::read_memory_live, DolphinGdb::read_memory).
THEOREM LiveReads == Spec => []LiveReadsAreOwn
<1>1. Inv => LiveReadsAreOwn
  BY DEF Inv, TargetInv
<1> QED
  BY <1>1, ServerInvariant, PTL

\* A child that has not been reaped is polled by the request that started it,
\* or was left behind by one that ended in the error of its polling, or its
\* server was terminated: no other way out of a request, the deadline, the
\* limits of its output and a failed read of it included, leaves a child
\* (DebugBackend::execute).
THEOREM ChildSupervised == Spec => []ChildIsSupervised
<1>1. Inv => ChildIsSupervised
  BY DEF Inv
<1> QED
  BY <1>1, ServerInvariant, PTL

\* The service and its callers implement AtMostOnce, over both transports and
\* for any number of callers and requests: nothing is performed twice, and no
\* caller is given the outcome of another's request (Client.request,
\* handle_line, serve_stdio, serve_tcp).
THEOREM ServiceAnswersOnce == Spec => AnsweredOnce
<1>1. Init => Abstract!Init
  BY InitInv
<1>2. Inv /\ [Next]_vars => [Abstract!Next]_(Abstract!vars)
  BY InvStep
<1> QED
  BY <1>1, <1>2, ServerInvariant, PTL DEF Spec, AnsweredOnce, Abstract!Spec
=============================================================================
