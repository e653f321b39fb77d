---------------------------- MODULE DebugTargets ----------------------------
(***************************************************************************)
(* The debugger side of the Core: DebugBackend::execute, which runs one    *)
(* GDB or LLDB child per request (lre-debug), and Core::read_memory_live,  *)
(* which keeps one connection to Dolphin's GDB stub and reads the target's *)
(* memory through DolphinGdb (lre-core, lre-debug).  One task runs at a    *)
(* time: the server that calls this module is serial.                      *)
(*                                                                         *)
(* The bytes of a stub's stream are abstracted to what read_packet tells   *)
(* apart: an acknowledgement, a rejection, a stray byte, and packets with  *)
(* a good or a bad checksum; a memory reply carries what it was read from  *)
(* and the version of the target's memory it was read at.                  *)
(***************************************************************************)
EXTENDS Naturals, Sequences

CONSTANTS
  Endpoints,      \* the stubs a caller may name
  Addresses,      \* the addresses it reads
  Counts,         \* the byte counts it asks for; 0 is refused
  MaxVersion,     \* bound: how often the target changes its memory
  MaxUnread,      \* bound: items a stub has on the way to the client
  PipeCapacity,   \* what a pipe holds, in units of output
  MaxOutput       \* MAX_OUTPUT_BYTES, in the same units

ASSUME CapacityAssumption ==
  PipeCapacity \in Nat /\ MaxOutput \in Nat /\ PipeCapacity <= MaxOutput

VARIABLES
  task,      \* the call in progress, its step and its result
  live,      \* Core.live_memory: the endpoint of the cached connection
  socket,    \* the stream of that connection, both ways
  memory,    \* the version of each target's memory
  debugger,  \* the child of the execute in progress, and its pipes
  children   \* the requests whose child has not been reaped

targetVars == <<task, live, socket, memory, debugger, children>>

NoTask == [op |-> "none"]
NoEndpoint == "no endpoint"
Closed == [open |-> FALSE, toStub |-> <<>>, toClient |-> <<>>]
Opened == [Closed EXCEPT !.open = TRUE]
\* held: a process the child has started, the inferior for one, has the pipes
\* open too.
NoChild == [state |-> "none", out |-> 0, err |-> 0, held |-> FALSE]

LiveTask(e, a, n) ==
  [op |-> "live", at |-> "connect", endpoint |-> e, address |-> a, count |-> n,
   since |-> memory[e], result |-> <<>>]
DebugTask(r) == [op |-> "debug", at |-> "spawn", request |-> r, result |-> <<>>]

Ack == [is |-> "ack"]
Nak == [is |-> "nak"]
Stray == [is |-> "stray"]
Packet(good, body) == [is |-> "packet", good |-> good, body |-> body]

Failed(error) == [ok |-> FALSE, error |-> error]

TargetsInit ==
  /\ task = NoTask
  /\ live = NoEndpoint
  /\ socket = Closed
  /\ memory = [e \in Endpoints |-> 0]
  /\ debugger = NoChild
  /\ children = {}

Idle == task = NoTask
Finished == task # NoTask /\ task.at = "done"

At(op, step) == task # NoTask /\ task.op = op /\ task.at = step

(***************************************************************************)
(* Live memory.                                                            *)
(***************************************************************************)

BeginRead(e, a, n) ==
  /\ Idle
  /\ task' = LiveTask(e, a, n)
  /\ UNCHANGED <<live, socket, memory, debugger, children>>

Reuses == live = task.endpoint

\* DolphinGdb::connect; on failure the cached connection, to some other
\* endpoint, stays.
Connect ==
  /\ At("live", "connect")
  /\ \/ Reuses /\ task' = [task EXCEPT !.at = "send"] /\ UNCHANGED <<live, socket>>
     \/ /\ ~Reuses
        /\ \/ /\ task' = [task EXCEPT !.at = "send"]
              /\ live' = task.endpoint
              /\ socket' = Opened
           \/ /\ task' = [task EXCEPT !.at = "done", !.result = Failed("connect")]
              /\ UNCHANGED <<live, socket>>
  /\ UNCHANGED <<memory, debugger, children>>

\* Fault: the connection of a failed request is kept.
FailKeepsConnection(error) ==
  /\ task' = [task EXCEPT !.at = "done", !.result = Failed(error)]
  /\ UNCHANGED <<live, socket>>

\* The error path of read_memory_live: the cached connection is dropped.
Fail(error) ==
  /\ task' = [task EXCEPT !.at = "done", !.result = Failed(error)]
  /\ live' = NoEndpoint
  /\ socket' = Closed

SendRequest ==
  /\ At("live", "send")
  /\ \/ task.count = 0 /\ Fail("count")
     \/ task.count # 0 /\ Fail("io")
     \/ /\ task.count # 0
        /\ socket' = [socket EXCEPT !.toStub =
             Append(@, [address |-> task.address, count |-> task.count])]
        /\ task' = [task EXCEPT !.at = "receive"]
        /\ UNCHANGED live
  /\ UNCHANGED <<memory, debugger, children>>

\* The checks of read_memory on a packet's payload.
TakeReply(body) ==
  \/ body.is = "error" /\ Fail("target")
  \/ body.is = "other" /\ Fail("protocol")
  \/ body.is = "data" /\ body.count # task.count /\ Fail("protocol")
  \/ /\ body.is = "data" /\ body.count = task.count
     /\ task' = [task EXCEPT !.at = "done", !.result = [ok |-> TRUE, bytes |-> body]]
     /\ socket' = [socket EXCEPT !.toClient = Tail(@)]
     /\ UNCHANGED live

\* read_packet and the acknowledgement that follows it; writing that may fail
\* too, and then the reply is lost.
Receive ==
  /\ At("live", "receive") /\ socket.toClient # <<>>
  /\ LET item == Head(socket.toClient) IN
       \/ /\ item.is = "ack"
          /\ socket' = [socket EXCEPT !.toClient = Tail(@)]
          /\ UNCHANGED <<task, live>>
       \/ item.is \in {"nak", "stray"} /\ Fail("protocol")
       \/ item.is = "packet" /\ ~item.good /\ Fail("protocol")
       \/ item.is = "packet" /\ item.good /\ (TakeReply(item.body) \/ Fail("io"))
  /\ UNCHANGED <<memory, debugger, children>>

\* Fault: the stream has no read timeout, so only the end of the stream ends a
\* read, and the stub does not close it.
ReceiveWaits ==
  /\ At("live", "receive") /\ socket.toClient = <<>>
  /\ ~socket.open
  /\ Fail("io")
  /\ UNCHANGED <<memory, debugger, children>>

\* No byte comes before the deadline of the read, which every byte read sets
\* anew, or the stub has closed the connection.
ReceiveTimesOut ==
  /\ At("live", "receive") /\ socket.toClient = <<>>
  /\ Fail("io")
  /\ UNCHANGED <<memory, debugger, children>>

\* The stub (external) answers a request, once, with the memory as it is, or
\* refuses or garbles it.  (The protocol has no number that tells a second
\* answer from the answer to the next request.)
Delivers(items) ==
  /\ Len(socket.toClient) + Len(items) <= MaxUnread
  /\ socket' = [socket EXCEPT !.toClient = @ \o items, !.toStub = Tail(@)]

StubAnswers ==
  /\ socket.open /\ socket.toStub # <<>>
  /\ LET asked == Head(socket.toStub)
         data == [is |-> "data", endpoint |-> live, address |-> asked.address,
                  count |-> asked.count, version |-> memory[live]]
     IN \E items \in {<<Ack, Packet(TRUE, data)>>, <<Ack, Packet(FALSE, data)>>,
                      <<Ack, Packet(TRUE, [is |-> "error"])>>, <<Nak>>, <<Stray>>} :
          Delivers(items)
  /\ UNCHANGED <<task, live, memory, debugger, children>>

\* It reports a stop nobody asked about.
StubReportsStop ==
  /\ socket.open /\ Len(socket.toClient) < MaxUnread
  /\ socket' = [socket EXCEPT !.toClient = Append(@, Packet(TRUE, [is |-> "other"]))]
  /\ UNCHANGED <<task, live, memory, debugger, children>>

\* It sends a byte that ends no read: one more acknowledgement, or one more
\* byte of a packet whose end does not come.
StubDrips ==
  /\ socket.open /\ socket.toClient = <<>>
  /\ socket' = [socket EXCEPT !.toClient = <<Ack>>]
  /\ UNCHANGED <<task, live, memory, debugger, children>>

\* What the target does while nobody is connected to it cannot be seen.
TargetRuns(e) ==
  /\ live = e /\ memory[e] < MaxVersion
  /\ memory' = [memory EXCEPT ![e] = @ + 1]
  /\ UNCHANGED <<task, live, socket, debugger, children>>

(***************************************************************************)
(* Debugger commands.                                                      *)
(***************************************************************************)

BeginDebug(r) ==
  /\ Idle
  /\ task' = DebugTask(r)
  /\ UNCHANGED <<live, socket, memory, debugger, children>>

\* An invalid count or a debugger that cannot be started ends the command.
SpawnDebugger ==
  /\ At("debug", "spawn")
  /\ \/ /\ task' = [task EXCEPT !.at = "done", !.result = Failed("spawn")]
        /\ UNCHANGED <<debugger, children>>
     \/ /\ task' = [task EXCEPT !.at = "poll"]
        /\ debugger' = [NoChild EXCEPT !.state = "running"]
        /\ children' = children \cup {task.request}
  /\ UNCHANGED <<live, socket, memory>>

\* The child and what it has started (external) write while somebody reads or
\* the pipe has room; of output above the limit no more is counted.
DebuggerWrites ==
  /\ debugger.state = "running" \/ debugger.held
  /\ LET room == IF At("debug", "drain") THEN MaxOutput + 1 ELSE PipeCapacity IN
       \/ /\ debugger.out < room /\ debugger.err <= MaxOutput
          /\ debugger' = [debugger EXCEPT !.out = @ + 1]
       \/ /\ debugger.err < room /\ debugger.out <= MaxOutput
          /\ debugger' = [debugger EXCEPT !.err = @ + 1]
  /\ UNCHANGED <<task, live, socket, memory, children>>

\* The child exits by itself, or never, and the last process that holds its
\* pipes lets go of them later, or never.
DebuggerExits(state, held) ==
  /\ debugger.state = "running"
  /\ debugger' = [debugger EXCEPT !.state = state, !.held = held]
  /\ UNCHANGED <<task, live, socket, memory, children>>

PipesClose ==
  /\ debugger.held
  /\ debugger' = [debugger EXCEPT !.held = FALSE]
  /\ UNCHANGED <<task, live, socket, memory, children>>

\* finish: the limits, then the status.
Finish ==
  IF debugger.out > MaxOutput \/ debugger.err > MaxOutput THEN Failed("too large")
  ELSE IF debugger.state # "succeeded" THEN Failed("status")
  ELSE [ok |-> TRUE, output |-> debugger.out]

\* The call ends with this result, and its ends of the pipes are closed.
EndsDebug(result) ==
  /\ task' = [task EXCEPT !.at = "done", !.result = result]
  /\ debugger' = NoChild

\* try_wait sees the exit and reaps the child.
PollExited ==
  /\ At("debug", "poll") /\ debugger.state \in {"succeeded", "failed"}
  /\ task' = [task EXCEPT !.at = "drain"]
  /\ children' = children \ {task.request}
  /\ UNCHANGED <<live, socket, memory, debugger>>

\* wait_with_output reads both pipes to their end, which has no deadline: it
\* comes when nobody holds them any more.
Drained ==
  /\ At("debug", "drain") /\ ~debugger.held
  /\ EndsDebug(Finish) \/ EndsDebug(Failed("io"))
  /\ UNCHANGED <<live, socket, memory, children>>

\* try_wait fails: its error is returned at once, and the child, if it still
\* runs, goes on, not killed and not waited for.
PollFails ==
  /\ At("debug", "poll")
  /\ EndsDebug(Failed("io"))
  /\ UNCHANGED <<live, socket, memory, children>>

\* Fault: the deadline's error is returned and the child is left running.
PollTimesOutLeaves ==
  /\ At("debug", "poll") /\ debugger.state = "running"
  /\ EndsDebug(Failed("timeout"))
  /\ UNCHANGED <<live, socket, memory, children>>

\* The deadline has passed and the child still runs: it is killed and reaped.
PollTimesOut ==
  /\ At("debug", "poll") /\ debugger.state = "running"
  /\ EndsDebug(Failed("timeout"))
  /\ children' = children \ {task.request}
  /\ UNCHANGED <<live, socket, memory>>

(***************************************************************************)

\* Steps of the serial caller, which always come when they can.
TaskStep ==
  \/ Connect \/ SendRequest \/ Receive \/ ReceiveTimesOut
  \/ SpawnDebugger \/ PollExited \/ Drained \/ PollTimesOut

\* Steps of the stub, the target, the debugger and what it has started.
TargetStep ==
  \/ StubAnswers \/ StubReportsStop \/ StubDrips \/ (\E e \in Endpoints : TargetRuns(e))
  \/ DebuggerWrites \/ PipesClose
  \/ \E state \in {"succeeded", "failed"}, held \in BOOLEAN : DebuggerExits(state, held)

\* A live read returns the bytes its caller asked for, of the endpoint, the
\* address and the count it named, as they were at some moment since it asked:
\* never a late answer to an earlier request on the kept connection
\* (Core::read_memory_live, DolphinGdb::read_memory).
LiveReadsAreOwn ==
  (Finished /\ task.op = "live" /\ task.result.ok) =>
    LET bytes == task.result.bytes IN
      /\ bytes.endpoint = task.endpoint
      /\ bytes.address = task.address
      /\ bytes.count = task.count
      /\ bytes.version >= task.since
=============================================================================
