------------------------------ MODULE ApiServer ------------------------------
(***************************************************************************)
(* The API service (lre-api) with the callers of the Python SDK, over the  *)
(* transport it was started with.  On stdio, the threads of one program    *)
(* share one Client: a lock, one pipe to the server and one back.  On TCP  *)
(* every caller is a Client of its own and every request a connection,     *)
(* served in the order accepted.  Either way the server handles one        *)
(* request at a time; the methods that use a debugger or a live target run *)
(* through DebugTargets.                                                   *)
(*                                                                         *)
(* Requests that need only the Core or the worker pool, modelled in Core   *)
(* and WorkerPool, have whatever outcome those have, in one step when all  *)
(* they wait for is the store.  A decompilation, an import and a native    *)
(* disassembly wait for another process, and nothing says that it comes:   *)
(* they begin and end in two steps.  The identity of a request in its      *)
(* outcome stands for the content of the answer.                           *)
(***************************************************************************)
EXTENDS DebugTargets, FiniteSets

CONSTANTS
  Callers,        \* threads (stdio) or programs (http) that use the SDK
  Shared,         \* the Client the threads share
  Asks,           \* what each of them may ask for
  MaxRequests,    \* bound: requests of one caller
  Failure         \* a transport or protocol error, as its caller sees it

ASSUME CallersAssumption == Shared \notin Callers
ASSUME RequestsAssumption == MaxRequests \in Nat
ASSUME AsksAssumption ==
  \A c \in Callers : \A ask \in Asks[c] :
    ask.method = "memory_live" =>
      ask.endpoint \in Endpoints /\ ask.address \in Addresses /\ ask.count \in Counts

VARIABLES
  transport,   \* "stdio" or "http", by --listen
  nextId,      \* Client._next_id
  caller,      \* where each caller is in Client.request
  lock,        \* the thread that holds _StdioTransport._lock, or Shared
  server,      \* what the service is doing, and the request it handles
  incoming,    \* request lines (stdio) or accepted connections (http)
  outgoing,    \* response lines not read yet (stdio)
  replies,     \* responses on their connections (http)
  issued, performed, returned   \* history: see AtMostOnce

apiVars == <<transport, nextId, caller, lock, server, incoming, outgoing, replies>>
history == <<issued, performed, returned>>
vars == <<targetVars, apiVars, history>>

With(f, r, v) == [q \in DOMAIN f \cup {r} |-> IF q = r THEN v ELSE f[q]]

Client(c) == IF transport = "stdio" THEN Shared ELSE c
Request(c) == [caller |-> c, n |-> caller[c].n]
Ready == [state |-> "ready"]
Busy(line) == [state |-> "busy", line |-> line]

Init ==
  /\ TargetsInit
  /\ transport \in {"stdio", "http"}
  /\ nextId = [k \in Callers \cup {Shared} |-> 1]
  /\ caller = [c \in Callers |-> [at |-> "idle", n |-> 0, id |-> 0]]
  /\ lock = Shared
  /\ server = Ready
  /\ incoming = <<>> /\ outgoing = <<>>
  /\ replies = [r \in {} |-> Failure]
  /\ issued = {}
  /\ performed = [r \in {} |-> Failure]
  /\ returned = [r \in {} |-> Failure]

(***************************************************************************)
(* The SDK.                                                                *)
(***************************************************************************)

\* Client.request takes an id under its own lock.
Number(c, ask) ==
  /\ caller[c].at = "idle" /\ caller[c].n < MaxRequests
  /\ caller' = [caller EXCEPT ![c] =
       [at |-> "numbered", n |-> @.n + 1, id |-> nextId[Client(c)], ask |-> ask]]
  /\ nextId' = [nextId EXCEPT ![Client(c)] = @ + 1]
  /\ issued' = issued \cup {[caller |-> c, n |-> caller[c].n + 1]}
  /\ UNCHANGED <<targetVars, transport, lock, server, incoming, outgoing, replies,
                 performed, returned>>

Returns(c, value) ==
  /\ caller' = [caller EXCEPT ![c] = [at |-> "idle", n |-> @.n, id |-> 0]]
  /\ returned' = With(returned, Request(c), value)

\* cut: where in the request its connection ends, if it does.
Line(c) == [request |-> Request(c), id |-> caller[c].id, ask |-> caller[c].ask,
            cut |-> "no"]

\* _StdioTransport.request up to the flush, under the lock.
WriteLine(c) ==
  /\ transport = "stdio" /\ caller[c].at = "numbered" /\ lock = Shared
  /\ \/ /\ server.state = "exited"
        /\ Returns(c, Failure)
        /\ UNCHANGED <<lock, incoming>>
     \/ /\ server.state # "exited"
        /\ caller' = [caller EXCEPT ![c].at = "reading"]
        /\ lock' = c
        /\ incoming' = Append(incoming, Line(c))
        /\ UNCHANGED returned
  /\ UNCHANGED <<targetVars, transport, nextId, server, outgoing, replies, issued, performed>>

\* Fault: the answer's id is not compared.
TakesAny(response, id) == response.outcome

\* Client.request on an answer: another id is a protocol error.
Takes(response, id) == IF response.id = id THEN response.outcome ELSE Failure

\* readline, and the checks of Client.request; end of file when the server is
\* gone.
ReadLine(c) ==
  /\ transport = "stdio" /\ caller[c].at = "reading"
  /\ \/ /\ outgoing # <<>>
        /\ Returns(c, Takes(Head(outgoing), caller[c].id))
        /\ outgoing' = Tail(outgoing)
     \/ /\ outgoing = <<>> /\ server.state = "exited"
        /\ Returns(c, Failure)
        /\ UNCHANGED outgoing
  /\ lock' = Shared
  /\ UNCHANGED <<targetVars, transport, nextId, server, incoming, replies, issued, performed>>

\* An exception in the thread that waits, an interrupt from the keyboard for
\* one, leaves the lock and the answer behind.
Interrupt(c) ==
  /\ transport = "stdio" /\ caller[c].at = "reading"
  /\ Returns(c, Failure)
  /\ lock' = Shared
  /\ UNCHANGED <<targetVars, transport, nextId, server, incoming, outgoing, replies,
                 issued, performed>>

\* close(): the server is terminated, whatever it is doing; a debugger it has
\* started is not.
CloseClient ==
  /\ transport = "stdio" /\ server.state # "exited"
  /\ server' = [state |-> "exited"]
  /\ task' = NoTask /\ live' = NoEndpoint /\ socket' = Closed /\ debugger' = NoChild
  /\ UNCHANGED <<memory, children, transport, nextId, caller, lock, incoming, outgoing,
                 replies, history>>

\* urlopen: one connection and one whole request.
Post(c) ==
  /\ transport = "http" /\ caller[c].at = "numbered"
  /\ caller' = [caller EXCEPT ![c].at = "waiting"]
  /\ incoming' = Append(incoming, Line(c))
  /\ UNCHANGED <<targetVars, transport, nextId, lock, server, outgoing, replies, history>>

\* The program ends between its connection and the end of its request: inside
\* the headers, or elsewhere, before the request line or in the body.
HangUp(c) ==
  /\ transport = "http" /\ caller[c].at = "numbered"
  /\ caller' = [caller EXCEPT ![c].at = "gone"]
  /\ \E cut \in {"headers", "elsewhere"} :
       incoming' = Append(incoming, [Line(c) EXCEPT !.cut = cut])
  /\ returned' = With(returned, Request(c), Failure)
  /\ UNCHANGED <<targetVars, transport, nextId, lock, server, outgoing, replies,
                 issued, performed>>

HttpAnswer(c) ==
  /\ transport = "http" /\ caller[c].at = "waiting" /\ Request(c) \in DOMAIN replies
  /\ Returns(c, Takes(replies[Request(c)], caller[c].id))
  /\ UNCHANGED <<targetVars, transport, nextId, lock, server, incoming, outgoing, replies,
                 issued, performed>>

\* The client's timeout closes the connection, not the request.
HttpTimesOut(c) ==
  /\ transport = "http" /\ caller[c].at = "waiting"
  /\ Returns(c, Failure)
  /\ UNCHANGED <<targetVars, transport, nextId, lock, server, incoming, outgoing, replies,
                 issued, performed>>

(***************************************************************************)
(* The service.                                                            *)
(***************************************************************************)

\* serve_stdio's next line, serve_tcp's next connection.  A connection that
\* ends inside the headers keeps handle_http in its header loop for ever; one
\* that ends elsewhere is an error, written to nobody, and the server goes on.
TakeRequest ==
  /\ server.state = "ready" /\ incoming # <<>>
  /\ incoming' = Tail(incoming)
  /\ server' = CASE Head(incoming).cut = "no" -> Busy(Head(incoming))
                 [] Head(incoming).cut = "headers" -> [state |-> "spinning"]
                 [] OTHER -> server
  /\ UNCHANGED <<targetVars, transport, nextId, caller, lock, outgoing, replies, history>>

\* Is the caller of this request still at the other end of its connection?
Connected(r) == caller[r.caller].at = "waiting" /\ caller[r.caller].n = r.n

\* handle_line's response, written back; a response to a closed connection is
\* an error serve_tcp drops.
Respond(outcome) ==
  LET line == server.line
      response == [id |-> line.id, outcome |-> [request |-> line.request, result |-> outcome]]
  IN /\ performed' = With(performed, line.request, response.outcome)
     /\ \/ transport = "stdio" /\ outgoing' = Append(outgoing, response) /\ UNCHANGED replies
        \/ /\ transport = "http" /\ UNCHANGED outgoing
           /\ replies' = IF Connected(line.request)
                         THEN With(replies, line.request, response) ELSE replies
     /\ server' = Ready
     /\ UNCHANGED <<transport, nextId, caller, lock, incoming, issued, returned>>

Handles(method) == server.state = "busy" /\ server.line.ask.method = method

\* dispatch, for the methods the store or nobody answers.
Dispatch ==
  /\ \/ Handles("core") /\ (Respond("ok") \/ Respond("core_error"))
     \/ Handles("unknown") /\ Respond("unknown_method")
  /\ UNCHANGED targetVars

\* dispatch, for those that wait for another process: import_native,
\* disasm_native and listing for a console, which nothing bounds; decompile_doc
\* for a worker, whose deadline covers the exchange but neither its spawn nor
\* its drop.
DispatchWork ==
  /\ Handles("native") \/ Handles("decompile_doc")
  /\ server' = [server EXCEPT !.state = "working"]
  /\ UNCHANGED <<targetVars, transport, nextId, caller, lock, incoming, outgoing, replies,
                 history>>

\* The process has answered or is gone, if that happens.
EndWork ==
  /\ server.state = "working"
  /\ \/ Respond("ok")
     \/ server.line.ask.method = "native" /\ Respond("core_error")
     \/ server.line.ask.method = "decompile_doc" /\ Respond("worker_error")
  /\ UNCHANGED targetVars

DispatchLive ==
  /\ Handles("memory_live")
  /\ BeginRead(server.line.ask.endpoint, server.line.ask.address, server.line.ask.count)
  /\ UNCHANGED <<apiVars, history>>

DispatchDebug ==
  /\ Handles("debug") /\ BeginDebug(server.line.request)
  /\ UNCHANGED <<apiVars, history>>

\* The task's result goes back as the request's.
FinishTask ==
  /\ server.state = "busy" /\ Finished
  /\ Respond(task.result)
  /\ task' = NoTask
  /\ UNCHANGED <<live, socket, memory, debugger, children>>

RunTask == TaskStep /\ UNCHANGED <<apiVars, history>>
PollError == PollFails /\ UNCHANGED <<apiVars, history>>
Environment == TargetStep /\ UNCHANGED <<apiVars, history>>

Serve ==
  \/ TakeRequest \/ Dispatch \/ DispatchWork \/ DispatchLive \/ DispatchDebug \/ FinishTask
Sdk(c) == WriteLine(c) \/ ReadLine(c) \/ Post(c) \/ HttpAnswer(c) \/ HttpTimesOut(c)

Next ==
  \/ Serve \/ EndWork \/ RunTask \/ PollError \/ Environment \/ CloseClient
  \/ \E c \in Callers : Sdk(c) \/ Interrupt(c) \/ HangUp(c)
  \/ \E c \in Callers : \E ask \in Asks[c] : Number(c, ask)

\* The server and the SDK run; deadlines pass.  Nothing is asked of stubs,
\* debuggers, consoles, workers and users.
Fairness ==
  /\ WF_vars(Serve)
  /\ WF_vars(RunTask)
  /\ \A c \in Callers : WF_vars(Sdk(c))

Spec == Init /\ [][Next]_vars /\ Fairness

(***************************************************************************)
(* Properties.                                                             *)
(***************************************************************************)

Requests == [caller : Callers, n : 1..MaxRequests]
Abstract == INSTANCE AtMostOnce

\* A request is performed at most once, and a value the SDK returns is the
\* outcome of the caller's own request, over either transport, whatever was
\* interrupted, timed out or closed before (Client.request, handle_line,
\* serve_stdio, serve_tcp).
AnsweredOnce == Abstract!Spec

\* The child a request has started is reaped before the request ends, whatever
\* the child, its output and the deadline do, except that a request whose
\* polling fails ends in that error and leaves its child behind.  A server that
\* is terminated does not get that far (DebugBackend::execute).
Polls(r) == At("debug", "poll") /\ task.request = r
LeftBehind(r) ==
  \/ At("debug", "done") /\ task.request = r /\ task.result = Failed("io")
  \/ r \in DOMAIN performed /\ performed[r].result = Failed("io")
ChildIsSupervised ==
  server.state = "exited" \/ \A r \in children : Polls(r) \/ LeftBehind(r)

\* On stdio, where the SDK has no deadline, the server is in a wait that has
\* none either: for a console or a worker, or for the end of a debugger's pipes,
\* which what it has started may hold.
Waits ==
  /\ transport = "stdio"
  /\ server.state = "working" \/ (At("debug", "drain") /\ debugger.held)

\* On stdio, a stub has sent something while the server reads.
Fed == transport = "stdio" /\ At("live", "receive") /\ socket.toClient # <<>>

\* A call of the SDK ends, in a value or an exception: on http always, by the
\* client's own deadline, also while the server spins on somebody else's
\* connection; on stdio unless the server stays for ever in a wait without a
\* deadline or a stub never stops sending.  The deadlines of execute and of a
\* read from a silent stub are enough for every other call, those that wait for
\* the lock included (Client.request, execute, read_packet).
CallsEnd ==
  \A c \in Callers :
    \/ caller[c].at \in {"numbered", "reading", "waiting"} ~> caller[c].at \in {"idle", "gone"}
    \/ <>[]Waits \/ []<>Fed
=============================================================================
