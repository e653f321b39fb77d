------------------------------ MODULE Desktop -------------------------------
(***************************************************************************)
(* The Qt workstation as a client of the Core:                             *)
(*   desktop/ventris-qt/src/main_window.cpp, function_table_model.cpp,     *)
(*   jobs_dock.cpp, xrefs_dock.cpp, core_bridge.cpp                        *)
(* over core_request of crates/lre-qt-bridge/src/lib.rs.                   *)
(*                                                                         *)
(* Everything the window keeps changes on the UI thread: in a user's       *)
(* action, or when the answer of a request is delivered from the event     *)
(* queue.  A request is a task of the bridge's pool of Threads threads.    *)
(* core_request holds the pool's and the Core's mutex for all of it, so    *)
(* requests run one at a time, but a thread may be overtaken between       *)
(* giving the mutexes back and posting its answer.                         *)
(*                                                                         *)
(* One program is open.  Functions are entries in address order, a filter  *)
(* selects the functions of one name.  What a request only draws (listing, *)
(* references) is not kept, nor is the text an ended job row shows; the    *)
(* status of the decompiler pool, which every ended job asks for and which *)
(* only fills a label, is left out.                                        *)
(***************************************************************************)
EXTENDS Integers, Sequences, FiniteSets, FiniteSetsExt, SequencesExt, Bags

CONSTANTS
  Functions,    \* how many functions the program has
  Names, FirstName, NoName,
  PageSize,     \* rows of a page (256 in the code)
  Threads,      \* threads of the bridge's pool (2 in the code)
  MaxActions,   \* what the user does: a bound of the instance
  MaxInbox      \* answers posted and not delivered: a bound of the instance

ASSUME DesktopAssumption ==
  /\ Functions \in Nat /\ PageSize \in Nat \ {0} /\ Threads \in Nat \ {0}
  /\ MaxActions \in Nat /\ MaxInbox \in Nat /\ MaxInbox >= Threads
  /\ FirstName \in Names /\ NoName \notin Names

Entries == 1 .. Functions

VARIABLES
  window,    \* what the UI thread keeps, and the requests it has made
  returned,  \* the bag of answers whose thread has not posted them yet
  inbox,     \* answers in the UI thread's event queue
  core,      \* the program in the store, its undo journal and its revision
  phase,     \* "open", "closing" in CoreBridge::shutdown, "closed"
  used       \* user actions so far

vars == <<window, returned, inbox, core, phase, used>>

\* The window: the address and the filter in its fields; its table (rows, total,
\* the revision they are of, loading and generation), a row being a function and
\* its name; its pane (a state, and the function and revision of its document);
\* the cache, which maps a function to the revision of its document, 0 for none;
\* the generation of the latest decompilation; its job rows and its requests.

\* The kinds of jobs the window itself begins, decompilations aside.
OwnJobs == {"listing", "rename", "comment", "undo"}

-----------------------------------------------------------------------------
(* What the window's methods do to it.  A request joins the pool's queue.  *)

Send(w, request) == [w EXCEPT !.calls = Append(@, request)]

BeginJob(w, of) == [w EXCEPT !.jobs = Append(@, [of |-> of, running |-> TRUE])]

\* JobsDock::finishJob: the row says how its job ended, or that the user
\* cancelled it, which a later end does not change.
FinishJob(w, job) == [w EXCEPT !.jobs[job].running = FALSE]

\* Fault: a page is requested whatever is loading.
RequestPageAlways(w, reset) ==
  Send([w EXCEPT !.table.loading = TRUE, !.table.generation = @ + 1],
       [kind |-> "functions_page", generation |-> w.table.generation + 1,
        reset |-> reset, offset |-> IF reset THEN 0 ELSE Len(w.table.rows),
        filter |-> w.filter])

\* requestPage: nothing while a page is on its way.
RequestPage(w, reset) ==
  IF w.table.loading
  THEN w
  ELSE Send([w EXCEPT !.table.loading = TRUE, !.table.generation = @ + 1],
            [kind |-> "functions_page", generation |-> w.table.generation + 1,
             reset |-> reset, offset |-> IF reset THEN 0 ELSE Len(w.table.rows),
             filter |-> w.filter])

Refresh(w) ==
  RequestPage([w EXCEPT !.table.rows = <<>>, !.table.total = 0, !.table.revision = 0], TRUE)

CanFetchMore(w) == ~w.table.loading /\ Len(w.table.rows) < w.table.total

ShowDocument(w, entry, revision) ==
  [w EXCEPT !.pane = [state |-> "document", entry |-> entry, revision |-> revision]]

\* Fault: the request captures the generation before it is advanced.
DecompileOldGeneration(w) ==
  IF w.cache[w.entry] # 0
  THEN ShowDocument(w, w.entry, w.cache[w.entry])
  ELSE LET begun == BeginJob(w, "decompile")
       IN Send([begun EXCEPT !.pane.state = "pending", !.generation = @ + 1],
               [kind |-> "decompile_doc", entry |-> w.entry,
                generation |-> w.generation, job |-> Len(begun.jobs)])

\* MainWindow::decompile: from the cache, or a request of a new generation.
Decompile(w) ==
  IF w.cache[w.entry] # 0
  THEN ShowDocument(w, w.entry, w.cache[w.entry])
  ELSE LET begun == BeginJob(w, "decompile")
       IN Send([begun EXCEPT !.pane.state = "pending", !.generation = @ + 1],
               [kind |-> "decompile_doc", entry |-> w.entry,
                generation |-> w.generation + 1, job |-> Len(begun.jobs)])

\* A method that begins a job row and sends a request that knows its index.
SendJob(w, of) ==
  LET begun == BeginJob(w, of)
  IN Send(begun, [kind |-> of, job |-> Len(begun.jobs)])

LoadListing(w) == SendJob(w, "listing")

\* XrefsDock::loadXrefs: two requests, whose rows jobs_dock_ is told of.
LoadXrefs(w) ==
  LET Fill(v) == Send(BeginJob(v, "xrefs"), [kind |-> "xrefs_page"])
  IN Fill(Fill(w))

\* NavigationController::goTo and the window's addressChanged handler.
GoTo(w, entry) == LoadXrefs(LoadListing(Decompile([w EXCEPT !.entry = entry])))

-----------------------------------------------------------------------------
(* The callbacks: what an answer does to the window. *)

PageRows(w, answer) ==
  IF answer.request.reset THEN answer.rows ELSE w.table.rows \o answer.rows

PageAnswered(w, answer) ==
  IF answer.request.generation # w.table.generation THEN w
  ELSE IF ~answer.ok THEN [w EXCEPT !.table.loading = FALSE]
  ELSE [w EXCEPT !.table.loading = FALSE,
                 !.table.rows = PageRows(w, answer),
                 !.table.total = answer.total,
                 !.table.revision = answer.revision]

\* A superseded answer ends here, its job row too.
DocAnswered(w, answer) ==
  LET doc == answer.request
  IN IF doc.generation # w.generation THEN w
     ELSE IF ~answer.ok
     THEN FinishJob([w EXCEPT !.pane.state = "failed"], doc.job)
     ELSE FinishJob(ShowDocument([w EXCEPT !.cache[doc.entry] = answer.revision],
                                 doc.entry, answer.revision),
                    doc.job)

\* What a command that succeeded makes the window ask for again.
Refetched(w, command) ==
  CASE command.kind = "rename" -> Decompile(Refresh([w EXCEPT !.cache[command.entry] = 0]))
    [] command.kind = "comment" -> LoadListing(w)
    [] command.kind = "undo" -> LoadListing(Decompile(Refresh(w)))
    [] command.kind = "listing" -> w

\* Fault: a failed command returns before its row ends.
JobAnsweredIfOk(w, answer) ==
  IF answer.ok THEN FinishJob(Refetched(w, answer.request), answer.request.job) ELSE w

JobAnswered(w, answer) ==
  FinishJob(IF answer.ok THEN Refetched(w, answer.request) ELSE w, answer.request.job)

\* The lambda hook connects: the docks' jobs end the last row of the list.
XrefsAnswered(w) == FinishJob(w, Len(w.jobs))

Answered(w, answer) ==
  CASE answer.request.kind = "functions_page" -> PageAnswered(w, answer)
    [] answer.request.kind = "decompile_doc" -> DocAnswered(w, answer)
    [] answer.request.kind = "xrefs_page" -> XrefsAnswered(w)
    [] OTHER -> JobAnswered(w, answer)

-----------------------------------------------------------------------------
(* What core_request does under its two mutexes, and what it answers. *)

FunctionRows(names, filter) ==
  LET all == [e \in Entries |-> [entry |-> e, name |-> names[e]]]
  IN SelectSeq(all, LAMBDA row : filter = NoName \/ row.name = filter)

FunctionsPage(request) ==
  LET matching == FunctionRows(core.names, request.filter)
      end == Min({request.offset + PageSize, Len(matching)})
  IN [rows |-> SubSeq(matching, request.offset + 1, end), total |-> Len(matching)]

\* A command journals what undo restores; a comment is no name.
Command(names, entry, name) ==
  [names |-> names, revision |-> core.revision + 1,
   journal |-> Append(core.journal, [entry |-> entry, name |-> name])]

Effect(request) ==
  CASE request.kind = "rename" ->
         Command([core.names EXCEPT ![request.entry] = request.name],
                 request.entry, core.names[request.entry])
    [] request.kind = "comment" -> Command(core.names, 0, NoName)
    [] request.kind = "undo" ->
         LET last == Last(core.journal)
         IN [names |-> IF last.entry = 0 THEN core.names
                       ELSE [core.names EXCEPT ![last.entry] = last.name],
             revision |-> core.revision + 1, journal |-> Front(core.journal)]
    [] OTHER -> core

\* There must be something to undo.  Whether what only draws succeeds makes
\* no difference to the window.
Outcomes(request) ==
  CASE request.kind = "undo" /\ core.journal = <<>> -> {FALSE}
    [] request.kind \in {"listing", "xrefs_page"} -> {TRUE}
    [] OTHER -> BOOLEAN

AnswerTo(request, ok) ==
  LET page == IF ok /\ request.kind = "functions_page" THEN FunctionsPage(request)
              ELSE [rows |-> <<>>, total |-> 0]
  IN [request |-> request, ok |-> ok, revision |-> core.revision,
      rows |-> page.rows, total |-> page.total]

-----------------------------------------------------------------------------
(* The program has just been opened: its first page is on the way. *)

ClosedTable == [rows |-> <<>>, total |-> 0, revision |-> 0,
                loading |-> FALSE, generation |-> 0]

Init ==
  /\ window = Refresh([entry |-> 1, filter |-> NoName, table |-> ClosedTable,
                       pane |-> [state |-> "empty", entry |-> 0, revision |-> 0],
                       cache |-> [e \in Entries |-> 0], generation |-> 0,
                       jobs |-> <<>>, calls |-> <<>>])
  /\ returned = EmptyBag /\ inbox = <<>>
  /\ core = [names |-> [e \in Entries |-> FirstName], revision |-> 1, journal |-> <<>>]
  /\ phase = "open" /\ used = 0

\* The user, at the UI thread.
UserDoes(after) ==
  /\ phase = "open" /\ used < MaxActions
  /\ used' = used + 1
  /\ window' = after
  /\ UNCHANGED <<returned, inbox, core, phase>>

Navigate == \E e \in Entries : UserDoes(GoTo(window, e))

DecompileClicked == UserDoes(Decompile(window))

RenameFunction ==
  \E e \in Entries, n \in Names :
    LET begun == BeginJob(window, "rename")
    IN UserDoes(Send(begun, [kind |-> "rename", entry |-> e, name |-> n,
                             job |-> Len(begun.jobs)]))

ApplyComment == UserDoes(SendJob(window, "comment"))

UndoCommand == UserDoes(SendJob(window, "undo"))

SetFilter ==
  \E f \in Names \union {NoName} :
    /\ f # window.filter
    /\ UserDoes(Refresh([window EXCEPT !.filter = f]))

\* The view scrolls to the end of the rows.
FetchMore == CanFetchMore(window) /\ UserDoes(RequestPage(window, FALSE))

CancelJob ==
  \E job \in DOMAIN window.jobs :
    /\ window.jobs[job].running
    /\ UserDoes(FinishJob(window, job))

\* A thread runs the task it took, one of the oldest, and has its answer.
Running == Min({Threads - BagCardinality(returned), Len(window.calls)})

Execute ==
  \E i \in DOMAIN window.calls :
    LET request == window.calls[i]
    IN \E ok \in Outcomes(request) :
       /\ i <= Running
       /\ core' = IF ok THEN Effect(request) ELSE core
       /\ returned' = returned (+) SetToBag({AnswerTo(request, ok)})
       /\ window' = [window EXCEPT !.calls = RemoveAt(@, i)]
       /\ UNCHANGED <<inbox, phase, used>>

\* A thread posts its answer to the UI thread and is free again.
Post ==
  \E answer \in BagToSet(returned) :
    /\ Len(inbox) < MaxInbox
    /\ inbox' = Append(inbox, answer)
    /\ returned' = returned (-) SetToBag({answer})
    /\ UNCHANGED <<window, core, phase, used>>

\* The event loop delivers the oldest answer to its callback.
Deliver ==
  /\ phase = "open" /\ inbox # <<>>
  /\ inbox' = Tail(inbox)
  /\ window' = Answered(window, Head(inbox))
  /\ UNCHANGED <<returned, core, phase, used>>

\* ~MainWindow: shutdown drops the tasks no thread has taken, and waits for
\* the others on the UI thread; then the window and its callbacks are gone.
\* What is in the event queue by then is never delivered.
Shutdown ==
  /\ phase = "open"
  /\ phase' = "closing"
  /\ inbox' = <<>>
  /\ window' = [window EXCEPT !.calls = SubSeq(@, 1, Running)]
  /\ UNCHANGED <<returned, core, used>>

\* Fault: shutdown waits for the callbacks, not for the threads.
ClosedAfterCallbacks ==
  /\ phase = "closing"
  /\ window.calls = <<>> /\ returned = EmptyBag /\ inbox = <<>>
  /\ phase' = "closed"
  /\ UNCHANGED <<window, returned, inbox, core, used>>

Closed ==
  /\ phase = "closing"
  /\ window.calls = <<>> /\ returned = EmptyBag
  /\ phase' = "closed"
  /\ inbox' = <<>>
  /\ UNCHANGED <<window, returned, core, used>>

Next ==
  \/ Navigate \/ DecompileClicked \/ RenameFunction \/ ApplyComment \/ UndoCommand
  \/ SetFilter \/ FetchMore \/ CancelJob
  \/ Execute \/ Post \/ Deliver
  \/ Shutdown \/ Closed

\* The threads and the event loop go on; the user need not do anything.
Fairness == WF_vars(Execute) /\ WF_vars(Post) /\ WF_vars(Deliver) /\ WF_vars(Closed)

Spec == Init /\ [][Next]_vars /\ Fairness

-----------------------------------------------------------------------------
(* Properties. *)

Outstanding == ToSet(window.calls) \union {a.request : a \in BagToSet(returned) \union ToSet(inbox)}

\* What requestPage's loading_ is for: while the window lives, the table is
\* loading exactly when one page is on its way, and it is the page the table
\* will accept.  Two pages at once could append their rows in either order;
\* a flag left behind would freeze the table for good.
OneLoad ==
  phase = "open" =>
    LET pages == {r \in Outstanding : r.kind = "functions_page"}
    IN IF window.table.loading
       THEN /\ \A r \in pages : r.generation = window.table.generation
            /\ Cardinality(pages) = 1
       ELSE pages = {}

\* A row the window itself begins, decompilations aside, runs only while the
\* answer that ends that very row is on its way: callbacks keep the index of
\* their row while rows are added and docks end rows by position.
OwnJobsEnd ==
  phase = "open" =>
    \A job \in DOMAIN window.jobs :
      window.jobs[job].running /\ window.jobs[job].of \in OwnJobs =>
        \E r \in Outstanding : r.kind = window.jobs[job].of /\ r.job = job

\* The pane does not wait for good: it shows a document or why there is none.
PaneSettles ==
  phase = "open" /\ window.pane.state = "pending"
    ~> phase # "open" \/ window.pane.state # "pending"

\* Closing the window ends: the tasks in the pool's threads return without
\* the UI thread, which waits for them.
CloseEnds == phase = "closing" ~> phase = "closed"

\* The UI refetches after mutations (ui_api.md): when everything has been
\* answered, the rows carry the names of the store.
RefetchedAfterMutation ==
  Outstanding = {} /\ phase = "open" =>
    \A i \in DOMAIN window.table.rows :
      LET row == window.table.rows[i] IN row.name = core.names[row.entry]
=============================================================================
