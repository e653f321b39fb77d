--------------------------- MODULE DesktopProofs ----------------------------
(***************************************************************************)
(* Proofs about module Desktop, for any number of functions, names and     *)
(* threads, any page size and any actions of the user.                     *)
(*                                                                         *)
(* A request goes from the window's queue over the answers whose threads   *)
(* have not posted them to the event queue.  The inductive invariant says  *)
(* that the pages on this way are as many as the table's loading_ says,    *)
(* one or none: OneLoad alone speaks of a set of requests, in which two    *)
(* that are equal are one.  That the rows of the window's own jobs are     *)
(* owed an answer is inductive as it stands.                               *)
(*                                                                         *)
(* What the window's methods do to both is a relation between a window and *)
(* the one they make of it, which is transitive: Grows.                    *)
(***************************************************************************)
EXTENDS Desktop, SequenceTheorems, FiniteSetTheorems, TLAPS

Page(request) == request.kind = "functions_page"
CallKinds == {"functions_page", "decompile_doc", "xrefs_page", "listing", "rename", "comment",
              "undo"}
JobKinds == OwnJobs \union {"decompile", "xrefs"}

IsSeq(s) == \E S : s \in Seq(S)

\* The shape of a window, and what its sequences hold.
Fields(w) ==
  w \in [entry : {w.entry}, filter : {w.filter}, table : {w.table}, pane : {w.pane},
         cache : {w.cache}, generation : {w.generation}, jobs : {w.jobs}, calls : {w.calls}]
WindowOK(w) ==
  /\ Fields(w)
  /\ w.table \in [rows : {w.table.rows}, total : {w.table.total},
                  revision : {w.table.revision}, loading : BOOLEAN,
                  generation : {w.table.generation}]
  /\ w.jobs \in Seq([of : JobKinds, running : BOOLEAN])
  /\ IsSeq(w.calls)
  /\ \A i \in 1 .. Len(w.calls) : w.calls[i].kind \in CallKinds

\* The page requests that were sent after the first n requests.
NoPage(w, n) == \A i \in n + 1 .. Len(w.calls) : ~Page(w.calls[i])
OnePage(w, n) ==
  \E i \in n + 1 .. Len(w.calls) :
    /\ Page(w.calls[i]) /\ w.calls[i].generation = w.table.generation
    /\ \A j \in n + 1 .. Len(w.calls) : j # i => ~Page(w.calls[j])

\* The window's methods send requests, and request a page only if none is on
\* its way; a row of an own job they begin has its request.
Sends(w, v) ==
  /\ Len(v.calls) >= Len(w.calls)
  /\ \A i \in 1 .. Len(w.calls) : v.calls[i] = w.calls[i]
Loads(w, v) ==
  \/ /\ v.table.loading = w.table.loading /\ v.table.generation = w.table.generation
     /\ NoPage(v, Len(w.calls))
  \/ /\ ~w.table.loading /\ v.table.loading /\ OnePage(v, Len(w.calls))
Owes(w, v) ==
  \A job \in 1 .. Len(v.jobs) :
    v.jobs[job].running /\ v.jobs[job].of \in OwnJobs =>
      \/ /\ job \in 1 .. Len(w.jobs) /\ w.jobs[job].running
         /\ w.jobs[job].of = v.jobs[job].of
      \/ \E i \in Len(w.calls) + 1 .. Len(v.calls) :
           v.calls[i].kind = v.jobs[job].of /\ v.calls[i].job = job
Grows(w, v) == WindowOK(v) /\ Sends(w, v) /\ Loads(w, v) /\ Owes(w, v)

\* The pages among the answers not posted, a bag, and those posted, a queue.
NoneReturned(bag) == \A a \in DOMAIN bag : ~Page(a.request)
OneReturned(w, bag) ==
  \E a \in DOMAIN bag :
    /\ Page(a.request) /\ a.request.generation = w.table.generation
    /\ bag[a] = 1 /\ \A b \in DOMAIN bag : b # a => ~Page(b.request)
NonePosted(queue) == \A i \in 1 .. Len(queue) : ~Page(queue[i].request)
OnePosted(w, queue) ==
  \E i \in 1 .. Len(queue) :
    /\ Page(queue[i].request) /\ queue[i].request.generation = w.table.generation
    /\ \A j \in 1 .. Len(queue) : j # i => ~Page(queue[j].request)

\* The one page a loading table waits for is at one place of the way.
OnItsWay(w, bag, queue) ==
  IF w.table.loading
  THEN \/ OnePage(w, 0) /\ NoneReturned(bag) /\ NonePosted(queue)
       \/ NoPage(w, 0) /\ OneReturned(w, bag) /\ NonePosted(queue)
       \/ NoPage(w, 0) /\ NoneReturned(bag) /\ OnePosted(w, queue)
  ELSE NoPage(w, 0) /\ NoneReturned(bag) /\ NonePosted(queue)

\* Somewhere on the way is a request of a kind that knows a job.
Owed(w, bag, queue, kind, job) ==
  \/ \E i \in 1 .. Len(w.calls) : w.calls[i].kind = kind /\ w.calls[i].job = job
  \/ \E a \in DOMAIN bag : a.request.kind = kind /\ a.request.job = job
  \/ \E i \in 1 .. Len(queue) : queue[i].request.kind = kind /\ queue[i].request.job = job
JobsOwed(w, bag, queue) ==
  \A job \in 1 .. Len(w.jobs) :
    w.jobs[job].running /\ w.jobs[job].of \in OwnJobs =>
      Owed(w, bag, queue, w.jobs[job].of, job)

AnswersOK(bag, queue) ==
  /\ bag \in [DOMAIN bag -> Nat \ {0}]
  /\ IsSeq(queue)
  /\ \A a \in DOMAIN bag : a.request.kind \in CallKinds
  /\ \A i \in 1 .. Len(queue) : queue[i].request.kind \in CallKinds

OnTheWay(w, bag, queue) ==
  WindowOK(w) /\ AnswersOK(bag, queue) /\ OnItsWay(w, bag, queue) /\ JobsOwed(w, bag, queue)

\* While the window lives; what is on the way when it closes is dropped.
OpenInv == phase = "open" => OnTheWay(window, returned, inbox)

-----------------------------------------------------------------------------
(* Sequences. *)

\* What Append makes of a sequence.
LEMMA Appended ==
  ASSUME NEW s, NEW e, IsSeq(s)
  PROVE  /\ IsSeq(Append(s, e)) /\ Len(Append(s, e)) = Len(s) + 1 /\ Len(s) \in Nat
         /\ \A i \in 1 .. Len(s) : Append(s, e)[i] = s[i]
         /\ Append(s, e)[Len(s) + 1] = e
<1>1. PICK S : s \in Seq(S)
  BY DEF IsSeq
<1>2. s \in Seq(S \union {e}) /\ e \in S \union {e}
  BY <1>1, SeqDef
<1>3. Append(s, e) \in Seq(S \union {e})
  BY <1>2
<1>. QED BY <1>2, <1>3, AppendProperties DEF IsSeq

-----------------------------------------------------------------------------
(* Windows. *)

\* A window that keeps its requests, its rows and what its table waits for has
\* grown, whatever else the method changed.
LEMMA SameGrows ==
  ASSUME NEW w, NEW v, WindowOK(w), WindowOK(v), v.calls = w.calls, v.jobs = w.jobs,
         v.table.loading = w.table.loading, v.table.generation = w.table.generation
  PROVE  Grows(w, v)
<1>1. Len(w.calls) \in Nat
  BY DEF WindowOK, Fields, IsSeq
<1>2. NoPage(v, Len(w.calls))
  BY <1>1 DEF NoPage
<1>3. Len(w.jobs) \in Nat
  BY DEF WindowOK, Fields
<1>4. Owes(w, v)
  BY <1>3 DEF Owes
<1>5. Sends(w, v) /\ Loads(w, v)
  BY <1>1, <1>2 DEF Sends, Loads
<1>. QED BY <1>4, <1>5 DEF Grows

\* Growing is transitive.
LEMMA GrowsOn ==
  ASSUME NEW w, NEW v, NEW u, WindowOK(w), Grows(w, v), Grows(v, u)
  PROVE  Grows(w, u)
<1>. DEFINE n == Len(w.calls)
            m == Len(v.calls)
            k == Len(u.calls)
<1>1. n \in Nat /\ m \in Nat /\ k \in Nat /\ WindowOK(v) /\ WindowOK(u)
  BY DEF Grows, WindowOK, Fields, IsSeq
<1>2. n <= m /\ m <= k
  BY <1>1 DEF Grows, Sends
<1>3. \A i \in 1 .. m : u.calls[i] = v.calls[i]
  BY DEF Grows, Sends
<1>4. Sends(w, u)
  BY <1>1, <1>2, <1>3 DEF Grows, Sends
<1>5. Loads(w, u)
  <2>1. CASE NoPage(v, n) /\ NoPage(u, m)
    <3>1. NoPage(u, n)
      BY <1>1, <1>2, <1>3, <2>1 DEF NoPage
    <3>2. v.table.loading = w.table.loading /\ v.table.generation = w.table.generation
      <4>1. ~OnePage(v, n)
        BY <2>1 DEF OnePage, NoPage
      <4>. QED BY <4>1 DEF Grows, Loads
    <3>3. u.table.loading = v.table.loading /\ u.table.generation = v.table.generation
      <4>1. ~OnePage(u, m)
        BY <2>1 DEF OnePage, NoPage
      <4>. QED BY <4>1 DEF Grows, Loads
    <3>. QED BY <3>1, <3>2, <3>3 DEF Loads
  <2>2. CASE /\ ~w.table.loading /\ v.table.loading /\ OnePage(v, n) /\ NoPage(u, m)
             /\ u.table.loading = v.table.loading
             /\ u.table.generation = v.table.generation
    <3>1. PICK i \in n + 1 .. m :
            /\ Page(v.calls[i]) /\ v.calls[i].generation = v.table.generation
            /\ \A j \in n + 1 .. m : j # i => ~Page(v.calls[j])
      BY <2>2 DEF OnePage
    <3>2. i \in n + 1 .. k /\ u.calls[i] = v.calls[i]
      BY <1>1, <1>2, <1>3, <3>1
    <3>3. \A j \in n + 1 .. k : j # i => ~Page(u.calls[j])
      BY <1>1, <1>2, <1>3, <2>2, <3>1 DEF NoPage
    <3>4. OnePage(u, n)
      BY <2>2, <3>1, <3>2, <3>3 DEF OnePage
    <3>. QED BY <2>2, <3>4 DEF Loads
  <2>3. CASE /\ ~v.table.loading /\ u.table.loading /\ OnePage(u, m) /\ NoPage(v, n)
             /\ v.table.loading = w.table.loading
             /\ v.table.generation = w.table.generation
    <3>1. PICK i \in m + 1 .. k :
            /\ Page(u.calls[i]) /\ u.calls[i].generation = u.table.generation
            /\ \A j \in m + 1 .. k : j # i => ~Page(u.calls[j])
      BY <2>3 DEF OnePage
    <3>2. i \in n + 1 .. k
      BY <1>1, <1>2, <3>1
    <3>3. \A j \in n + 1 .. k : j # i => ~Page(u.calls[j])
      BY <1>1, <1>2, <1>3, <2>3, <3>1 DEF NoPage
    <3>4. OnePage(u, n)
      BY <3>1, <3>2, <3>3 DEF OnePage
    <3>. QED BY <2>3, <3>4 DEF Loads
  <2>. QED BY <2>1, <2>2, <2>3 DEF Grows, Loads
<1>6. Owes(w, u)
  <2>1. SUFFICES ASSUME NEW job \in 1 .. Len(u.jobs), u.jobs[job].running,
                        u.jobs[job].of \in OwnJobs
                 PROVE  \/ /\ job \in 1 .. Len(w.jobs) /\ w.jobs[job].running
                           /\ w.jobs[job].of = u.jobs[job].of
                        \/ \E i \in n + 1 .. k :
                             u.calls[i].kind = u.jobs[job].of /\ u.calls[i].job = job
    BY DEF Owes
  <2>2. CASE \E i \in m + 1 .. k : u.calls[i].kind = u.jobs[job].of /\ u.calls[i].job = job
    BY <1>1, <1>2, <2>2
  <2>3. CASE /\ job \in 1 .. Len(v.jobs) /\ v.jobs[job].running
             /\ v.jobs[job].of = u.jobs[job].of
    <3>1. CASE /\ job \in 1 .. Len(w.jobs) /\ w.jobs[job].running
               /\ w.jobs[job].of = v.jobs[job].of
      BY <2>3, <3>1
    <3>2. CASE \E i \in n + 1 .. m : v.calls[i].kind = v.jobs[job].of /\ v.calls[i].job = job
      BY <1>1, <1>2, <1>3, <2>3, <3>2
    <3>. QED BY <2>1, <2>3, <3>1, <3>2 DEF Grows, Owes
  <2>. QED BY <2>1, <2>2, <2>3 DEF Grows, Owes
<1>. QED BY <1>1, <1>4, <1>5, <1>6 DEF Grows

\* A method's request that asks for no page.
LEMMA SendGrows ==
  ASSUME NEW w, WindowOK(w), NEW request, request.kind \in CallKinds, ~Page(request)
  PROVE  Grows(w, Send(w, request))
<1>. DEFINE v == Send(w, request)
            n == Len(w.calls)
<1>1. /\ v.calls = Append(w.calls, request) /\ v.jobs = w.jobs /\ v.table = w.table
      /\ v = [w EXCEPT !.calls = v.calls]
  BY DEF Send, WindowOK, Fields
<1>2. /\ IsSeq(v.calls) /\ Len(v.calls) = n + 1 /\ n \in Nat
      /\ \A i \in 1 .. n : v.calls[i] = w.calls[i]
      /\ v.calls[n + 1] = request
  BY <1>1, Appended DEF WindowOK, Fields
<1>3. WindowOK(v)
  <2>1. \A i \in 1 .. Len(v.calls) : v.calls[i].kind \in CallKinds
    BY <1>2 DEF WindowOK, Fields
  <2>. QED BY <1>1, <1>2, <2>1 DEF WindowOK, Fields
<1>4. Sends(w, v)
  BY <1>2 DEF Sends
<1>5. Loads(w, v)
  BY <1>1, <1>2 DEF Loads, NoPage
<1>6. Owes(w, v)
  BY <1>1 DEF Owes
<1>. QED BY <1>3, <1>4, <1>5, <1>6 DEF Grows

\* A row, running or not, that is begun, and the request that knows its index.
LEMMA SendsJob ==
  ASSUME NEW w, WindowOK(w), NEW of \in JobKinds, NEW v, NEW request,
         Fields(v), v.calls = w.calls, v.table = w.table,
         v.jobs = Append(w.jobs, [of |-> of, running |-> TRUE]),
         request.kind \in CallKinds, ~Page(request),
         of \in OwnJobs => request.kind = of /\ request.job = Len(w.jobs) + 1
  PROVE  Grows(w, Send(v, request))
<1>. DEFINE row == [of |-> of, running |-> TRUE]
            u == Send(v, request)
            n == Len(w.calls)
            m == Len(w.jobs)
<1>1. /\ v.jobs = Append(w.jobs, row) /\ v.calls = w.calls /\ v.table = w.table
  OBVIOUS
<1>2. row \in [of : JobKinds, running : BOOLEAN]
  OBVIOUS
<1>3. /\ v.jobs \in Seq([of : JobKinds, running : BOOLEAN]) /\ Len(v.jobs) = m + 1
      /\ m \in Nat /\ v.jobs[m + 1] = row /\ \A i \in 1 .. m : v.jobs[i] = w.jobs[i]
  BY <1>1, <1>2, AppendProperties DEF WindowOK, Fields
<1>4. WindowOK(v)
  BY <1>1, <1>3 DEF WindowOK, Fields
<1>5. Grows(v, u)
  BY <1>4, SendGrows
<1>6. u.jobs = v.jobs /\ u.calls = Append(v.calls, request)
  BY <1>4 DEF Send, WindowOK, Fields
<1>7. Len(u.calls) = n + 1 /\ u.calls[n + 1] = request /\ n \in Nat
  BY <1>1, <1>6, Appended DEF WindowOK, Fields
<1>8. row.of = of
  OBVIOUS
<1>. HIDE DEF row, u
<1>9. Owes(w, u)
  <2>1. ASSUME NEW job \in 1 .. Len(u.jobs), u.jobs[job].running, u.jobs[job].of \in OwnJobs
        PROVE  \/ /\ job \in 1 .. Len(w.jobs) /\ w.jobs[job].running
                  /\ w.jobs[job].of = u.jobs[job].of
               \/ \E i \in n + 1 .. Len(u.calls) :
                    u.calls[i].kind = u.jobs[job].of /\ u.calls[i].job = job
    <3>1. CASE job = m + 1
      <4>1. u.jobs[job].of = of
        BY <1>3, <1>6, <1>8, <3>1
      <4>2. n + 1 \in n + 1 .. Len(u.calls)
        BY <1>7
      <4>. QED BY <1>7, <2>1, <3>1, <4>1, <4>2
    <3>2. CASE job \in 1 .. m
      <4>1. u.jobs[job] = w.jobs[job]
        BY <1>3, <1>6, <3>2
      <4>. QED BY <2>1, <3>2, <4>1
    <3>3. job = m + 1 \/ job \in 1 .. m
      BY <1>3, <1>6
    <3>. QED BY <3>1, <3>2, <3>3
  <2>. QED BY <2>1 DEF Owes
<1>10. Sends(w, u) /\ Loads(w, u) /\ WindowOK(u)
  BY <1>1, <1>5 DEF Grows, Sends, Loads
<1>11. Grows(w, u)
  BY <1>9, <1>10 DEF Grows
<1>. QED BY <1>11 DEF u

\* requestPage asks for a page of a new generation, or for nothing.
LEMMA RequestPageGrows ==
  ASSUME NEW w, WindowOK(w), NEW reset
  PROVE  Grows(w, RequestPage(w, reset))
<1>. DEFINE v == RequestPage(w, reset)
            n == Len(w.calls)
<1>1. CASE w.table.loading
  BY <1>1, SameGrows DEF RequestPage
<1>2. CASE ~w.table.loading
  <2>. DEFINE g == w.table.generation + 1
              t == [w EXCEPT !.table.loading = TRUE, !.table.generation = g]
              request == [kind |-> "functions_page", generation |-> g, reset |-> reset,
                          offset |-> IF reset THEN 0 ELSE Len(w.table.rows),
                          filter |-> w.filter]
  <2>1. v = Send(t, request)
    BY <1>2, Zenon DEF RequestPage
  <2>2. /\ t.calls = w.calls /\ t.jobs = w.jobs
        /\ t.table.loading = TRUE /\ t.table.generation = g /\ WindowOK(t)
    BY DEF WindowOK, Fields
  <2>3. request.kind = "functions_page" /\ request.generation = g
    OBVIOUS
  <2>. HIDE DEF t, g, request
  <2>4. /\ v.calls = Append(w.calls, request) /\ v.jobs = w.jobs /\ v.table = t.table
        /\ v = [t EXCEPT !.calls = v.calls]
    BY <2>1, <2>2 DEF Send, WindowOK, Fields
  <2>5. /\ IsSeq(v.calls) /\ Len(v.calls) = n + 1 /\ n \in Nat
        /\ \A i \in 1 .. n : v.calls[i] = w.calls[i]
        /\ v.calls[n + 1] = request
    BY <2>4, Appended DEF WindowOK, Fields
  <2>. HIDE DEF v
  <2>6. WindowOK(v)
    <3>1. \A i \in 1 .. Len(v.calls) : v.calls[i].kind \in CallKinds
      BY <2>3, <2>5 DEF WindowOK, Fields, CallKinds
    <3>. QED BY <2>2, <2>4, <2>5, <3>1 DEF WindowOK, Fields
  <2>7. Sends(w, v)
    BY <2>5 DEF Sends
  <2>8. Loads(w, v)
    <3>1. n + 1 .. Len(v.calls) = {n + 1}
      BY <2>5
    <3>2. OnePage(v, n)
      BY <2>2, <2>3, <2>4, <2>5, <3>1 DEF OnePage, Page
    <3>. QED BY <1>2, <2>2, <2>4, <3>2 DEF Loads
  <2>9. Owes(w, v)
    BY <2>4 DEF Owes
  <2>10. Grows(w, v)
    BY <2>6, <2>7, <2>8, <2>9 DEF Grows
  <2>. QED BY <2>10 DEF v
<1>. QED BY <1>1, <1>2 DEF WindowOK, Fields

LEMMA RefreshGrows ==
  ASSUME NEW w, WindowOK(w)
  PROVE  Grows(w, Refresh(w))
<1>. DEFINE v == [w EXCEPT !.table.rows = <<>>, !.table.total = 0, !.table.revision = 0]
<1>1. /\ WindowOK(v) /\ v.calls = w.calls /\ v.jobs = w.jobs
      /\ v.table.loading = w.table.loading /\ v.table.generation = w.table.generation
  BY DEF WindowOK, Fields
<1>. HIDE DEF v
<1>2. Grows(w, v)
  BY <1>1, SameGrows
<1>3. Grows(v, RequestPage(v, TRUE))
  BY <1>1, RequestPageGrows, Zenon
<1>4. Grows(w, RequestPage(v, TRUE))
  BY <1>2, <1>3, GrowsOn, Zenon
<1>. QED BY <1>4 DEF Refresh, v

\* The rows when one of them ends.
Ended(jobs, job) == [jobs EXCEPT ![job].running = FALSE]

LEMMA RowEnded ==
  ASSUME NEW jobs \in Seq([of : JobKinds, running : BOOLEAN]), NEW job
  PROVE  /\ Ended(jobs, job) \in Seq([of : JobKinds, running : BOOLEAN])
         /\ Len(Ended(jobs, job)) = Len(jobs)
         /\ \A j \in 1 .. Len(jobs) :
              /\ Ended(jobs, job)[j].of = jobs[j].of
              /\ Ended(jobs, job)[j].running => jobs[j].running /\ j # job
<1>. DEFINE Rows == [of : JobKinds, running : BOOLEAN]
            row == [jobs[job] EXCEPT !.running = FALSE]
<1>0. jobs \in Seq(Rows)
  OBVIOUS
<1>1. CASE job \notin 1 .. Len(jobs)
  <2>1. Ended(jobs, job) = jobs
    BY <1>1 DEF Ended
  <2>2. \A j \in 1 .. Len(jobs) : j # job
    BY <1>1
  <2>. QED BY <2>1, <2>2
<1>2. CASE job \in 1 .. Len(jobs)
  <2>1. jobs[job] \in Rows
    BY <1>2, ElementOfSeq
  <2>2. row \in Rows /\ row.of = jobs[job].of /\ row.running = FALSE
    BY <2>1
  <2>3. Ended(jobs, job) = [jobs EXCEPT ![job] = row]
    BY DEF Ended
  <2>. HIDE DEF Rows, row
  <2>4. /\ [jobs EXCEPT ![job] = row] \in Seq(Rows)
        /\ Len([jobs EXCEPT ![job] = row]) = Len(jobs)
        /\ \A j \in 1 .. Len(jobs) :
             [jobs EXCEPT ![job] = row][j] = IF j = job THEN row ELSE jobs[j]
    BY <1>0, <1>2, <2>2, ExceptSeq
  <2>5. /\ Ended(jobs, job) \in Seq(Rows) /\ Len(Ended(jobs, job)) = Len(jobs)
        /\ \A j \in 1 .. Len(jobs) :
             Ended(jobs, job)[j] = IF j = job THEN row ELSE jobs[j]
    BY <2>3, <2>4
  <2>6. \A j \in 1 .. Len(jobs) :
          /\ Ended(jobs, job)[j].of = jobs[j].of
          /\ Ended(jobs, job)[j].running => jobs[j].running /\ j # job
    BY <2>2, <2>5
  <2>. QED BY <2>5, <2>6 DEF Rows
<1>. QED BY <1>1, <1>2

\* A row that ends needs no answer.
LEMMA FinishJobGrows ==
  ASSUME NEW w, WindowOK(w), NEW job
  PROVE  /\ Grows(w, FinishJob(w, job))
         /\ \A j \in 1 .. Len(FinishJob(w, job).jobs) :
              FinishJob(w, job).jobs[j].running => j # job
<1>. DEFINE v == FinishJob(w, job)
<1>a. v.calls = w.calls /\ v.table = w.table /\ v.jobs = Ended(w.jobs, job)
  BY DEF WindowOK, Fields, FinishJob, Ended
<1>b. w.jobs \in Seq([of : JobKinds, running : BOOLEAN])
  BY DEF WindowOK, Fields
<1>1. /\ v.calls = w.calls /\ v.table = w.table /\ Len(v.jobs) = Len(w.jobs)
      /\ v.jobs \in Seq([of : JobKinds, running : BOOLEAN])
      /\ \A j \in 1 .. Len(w.jobs) :
           /\ v.jobs[j].of = w.jobs[j].of
           /\ v.jobs[j].running => w.jobs[j].running /\ j # job
  <2>. HIDE DEF v
  <2>1. /\ Ended(w.jobs, job) \in Seq([of : JobKinds, running : BOOLEAN])
        /\ Len(Ended(w.jobs, job)) = Len(w.jobs)
        /\ \A j \in 1 .. Len(w.jobs) :
             /\ Ended(w.jobs, job)[j].of = w.jobs[j].of
             /\ Ended(w.jobs, job)[j].running => w.jobs[j].running /\ j # job
    BY <1>b, RowEnded, Zenon
  <2>. QED BY <1>a, <2>1, Zenon
<1>2. WindowOK(v)
  BY <1>1 DEF WindowOK, Fields, FinishJob
<1>. HIDE DEF v
<1>3. Len(w.calls) \in Nat
  BY DEF WindowOK, Fields, IsSeq
<1>4. Sends(w, v) /\ Loads(w, v)
  BY <1>1, <1>3 DEF Sends, Loads, NoPage
<1>5. Owes(w, v)
  BY <1>1 DEF Owes
<1>6. Grows(w, v)
  BY <1>2, <1>4, <1>5 DEF Grows
<1>7. \A j \in 1 .. Len(v.jobs) : v.jobs[j].running => j # job
  BY <1>1
<1>. QED BY <1>6, <1>7 DEF v

LEMMA SendJobGrows ==
  ASSUME NEW w, WindowOK(w), NEW of \in OwnJobs
  PROVE  Grows(w, SendJob(w, of))
<1>. DEFINE v == BeginJob(w, of)
            request == [kind |-> of, job |-> Len(v.jobs)]
<1>1. /\ Fields(v) /\ v.calls = w.calls /\ v.table = w.table
      /\ v.jobs = Append(w.jobs, [of |-> of, running |-> TRUE])
  BY DEF BeginJob, WindowOK, Fields
<1>2. Len(v.jobs) = Len(w.jobs) + 1
  <2>1. w.jobs \in Seq([of : JobKinds, running : BOOLEAN])
    BY DEF WindowOK
  <2>2. [of |-> of, running |-> TRUE] \in [of : JobKinds, running : BOOLEAN]
    BY DEF JobKinds
  <2>. QED BY <1>1, <2>1, <2>2, AppendProperties
<1>3. request.kind = of /\ request.job = Len(w.jobs) + 1
  BY <1>2
<1>4. of \in CallKinds /\ of \in JobKinds /\ of # "functions_page"
  BY DEF CallKinds, JobKinds, OwnJobs
<1>5. SendJob(w, of) = Send(v, request)
  BY DEF SendJob
<1>. HIDE DEF v, request
<1>6. request.kind \in CallKinds /\ ~Page(request)
  BY <1>3, <1>4 DEF Page
<1>7. Grows(w, Send(v, request))
  BY <1>1, <1>3, <1>4, <1>6, SendsJob
<1>. QED BY <1>5, <1>7

\* A decompilation is no job of the window's own; it may be answered from the cache.
LEMMA DecompileGrows ==
  ASSUME NEW w, WindowOK(w)
  PROVE  Grows(w, Decompile(w))
<1>1. CASE w.cache[w.entry] # 0
  <2>. DEFINE v == ShowDocument(w, w.entry, w.cache[w.entry])
  <2>1. /\ WindowOK(v) /\ v.calls = w.calls /\ v.jobs = w.jobs /\ v.table = w.table
    BY DEF ShowDocument, WindowOK, Fields
  <2>2. Decompile(w) = v
    BY <1>1 DEF Decompile
  <2>. HIDE DEF v
  <2>. QED BY <2>1, <2>2, SameGrows
<1>2. CASE ~(w.cache[w.entry] # 0)
  <2>. DEFINE begun == BeginJob(w, "decompile")
              v == [begun EXCEPT !.pane.state = "pending", !.generation = @ + 1]
              request == [kind |-> "decompile_doc", entry |-> w.entry,
                          generation |-> w.generation + 1, job |-> Len(begun.jobs)]
  <2>1. /\ Fields(v) /\ v.calls = w.calls /\ v.table = w.table
        /\ v.jobs = Append(w.jobs, [of |-> "decompile", running |-> TRUE])
    BY DEF BeginJob, WindowOK, Fields
  <2>2. Decompile(w) = Send(v, request)
    BY <1>2 DEF Decompile
  <2>3. request.kind = "decompile_doc"
    OBVIOUS
  <2>4. /\ "decompile_doc" \in CallKinds /\ "decompile_doc" # "functions_page"
        /\ "decompile" \in JobKinds /\ "decompile" \notin OwnJobs
    BY DEF CallKinds, JobKinds, OwnJobs
  <2>. HIDE DEF begun, v, request
  <2>5. request.kind \in CallKinds /\ ~Page(request)
    BY <2>3, <2>4 DEF Page
  <2>6. Grows(w, Send(v, request))
    BY <2>1, <2>4, <2>5, SendsJob
  <2>. QED BY <2>2, <2>6
<1>. QED BY <1>1, <1>2

LEMMA LoadXrefsGrows ==
  ASSUME NEW w, WindowOK(w)
  PROVE  Grows(w, LoadXrefs(w))
<1>. DEFINE request == [kind |-> "xrefs_page"]
            Fill(v) == Send(BeginJob(v, "xrefs"), request)
<1>1. ASSUME NEW u, WindowOK(u)
      PROVE  Grows(u, Fill(u))
  <2>. DEFINE v == BeginJob(u, "xrefs")
  <2>1. /\ Fields(v) /\ v.calls = u.calls /\ v.table = u.table
        /\ v.jobs = Append(u.jobs, [of |-> "xrefs", running |-> TRUE])
    BY <1>1 DEF BeginJob, WindowOK, Fields
  <2>2. request.kind = "xrefs_page"
    OBVIOUS
  <2>3. /\ "xrefs_page" \in CallKinds /\ "xrefs_page" # "functions_page"
        /\ "xrefs" \in JobKinds /\ "xrefs" \notin OwnJobs
    BY DEF CallKinds, JobKinds, OwnJobs
  <2>. HIDE DEF v, request
  <2>4. request.kind \in CallKinds /\ ~Page(request)
    BY <2>2, <2>3 DEF Page
  <2>5. Grows(u, Send(v, request))
    BY <1>1, <2>1, <2>3, <2>4, SendsJob
  <2>. QED BY <2>5 DEF v
<1>2. LoadXrefs(w) = Fill(Fill(w))
  BY DEF LoadXrefs
<1>. HIDE DEF Fill
<1>3. Grows(w, Fill(w)) /\ WindowOK(Fill(w))
  BY <1>1 DEF Grows
<1>4. Grows(Fill(w), Fill(Fill(w)))
  BY <1>1, <1>3
<1>5. Grows(w, Fill(Fill(w)))
  BY <1>3, <1>4, GrowsOn
<1>. QED BY <1>2, <1>5

LEMMA GoToGrows ==
  ASSUME NEW w, WindowOK(w), NEW entry
  PROVE  Grows(w, GoTo(w, entry))
<1>. DEFINE a == [w EXCEPT !.entry = entry]
            b == Decompile(a)
            c == LoadListing(b)
            d == LoadXrefs(c)
<1>1. WindowOK(a) /\ a.calls = w.calls /\ a.jobs = w.jobs /\ a.table = w.table
  BY DEF WindowOK, Fields
<1>2. GoTo(w, entry) = d
  BY DEF GoTo
<1>. HIDE DEF a
<1>3. Grows(w, a)
  BY <1>1, SameGrows
<1>4. Grows(a, b)
  BY <1>1, DecompileGrows
<1>. HIDE DEF b
<1>5. Grows(b, c)
  <2>1. WindowOK(b) /\ "listing" \in OwnJobs
    BY <1>4 DEF Grows, OwnJobs
  <2>. QED BY <2>1, SendJobGrows DEF LoadListing
<1>. HIDE DEF c
<1>6. Grows(c, d)
  BY <1>5, LoadXrefsGrows DEF Grows
<1>. HIDE DEF d
<1>7. Grows(w, b)
  BY <1>3, <1>4, GrowsOn
<1>8. Grows(w, c)
  BY <1>5, <1>7, GrowsOn
<1>9. Grows(w, d)
  BY <1>6, <1>8, GrowsOn
<1>. QED BY <1>2, <1>9

-----------------------------------------------------------------------------
(* The callbacks of answers that are no pages. *)

LEMMA RefetchedGrows ==
  ASSUME NEW w, WindowOK(w), NEW command, command.kind \in OwnJobs
  PROVE  Grows(w, Refetched(w, command))
<1>1. ASSUME NEW v, WindowOK(v)
      PROVE  Grows(v, Decompile(Refresh(v)))
  <2>1. Grows(v, Refresh(v))
    BY <1>1, RefreshGrows
  <2>2. Grows(Refresh(v), Decompile(Refresh(v)))
    BY <2>1, DecompileGrows DEF Grows
  <2>. QED BY <1>1, <2>1, <2>2, GrowsOn
<1>2. ASSUME NEW v, WindowOK(v)
      PROVE  Grows(v, LoadListing(v))
  <2>1. "listing" \in OwnJobs
    BY DEF OwnJobs
  <2>. QED BY <1>2, <2>1, SendJobGrows DEF LoadListing
<1>3. CASE command.kind = "rename"
  <2>. DEFINE v == [w EXCEPT !.cache[command.entry] = 0]
  <2>1. WindowOK(v) /\ v.calls = w.calls /\ v.jobs = w.jobs /\ v.table = w.table
    BY DEF WindowOK, Fields
  <2>2. Refetched(w, command) = Decompile(Refresh(v))
    BY <1>3 DEF Refetched
  <2>. HIDE DEF v
  <2>3. Grows(w, v) /\ Grows(v, Decompile(Refresh(v)))
    BY <1>1, <2>1, SameGrows
  <2>. QED BY <2>2, <2>3, GrowsOn
<1>4. CASE command.kind = "comment"
  <2>1. Refetched(w, command) = LoadListing(w)
    BY <1>4 DEF Refetched
  <2>. QED BY <1>2, <2>1
<1>5. CASE command.kind = "undo"
  <2>. DEFINE v == Decompile(Refresh(w))
  <2>1. Refetched(w, command) = LoadListing(v)
    BY <1>5 DEF Refetched
  <2>2. Grows(w, v)
    BY <1>1
  <2>. HIDE DEF v
  <2>3. Grows(v, LoadListing(v))
    BY <1>2, <2>2 DEF Grows
  <2>. QED BY <2>1, <2>2, <2>3, GrowsOn
<1>6. CASE command.kind = "listing"
  <2>1. Refetched(w, command) = w
    BY <1>6 DEF Refetched
  <2>. QED BY <2>1, SameGrows
<1>. QED BY <1>3, <1>4, <1>5, <1>6 DEF OwnJobs

LEMMA DocAnsweredGrows ==
  ASSUME NEW w, WindowOK(w), NEW answer
  PROVE  Grows(w, DocAnswered(w, answer))
<1>. DEFINE doc == answer.request
<1>1. CASE doc.generation # w.generation
  BY <1>1, SameGrows DEF DocAnswered
<1>2. CASE doc.generation = w.generation /\ ~answer.ok
  <2>. DEFINE v == [w EXCEPT !.pane.state = "failed"]
  <2>1. WindowOK(v) /\ v.calls = w.calls /\ v.jobs = w.jobs /\ v.table = w.table
    BY DEF WindowOK, Fields
  <2>2. DocAnswered(w, answer) = FinishJob(v, doc.job)
    BY <1>2 DEF DocAnswered
  <2>. HIDE DEF v, doc
  <2>3. Grows(w, v) /\ Grows(v, FinishJob(v, doc.job))
    BY <2>1, SameGrows, FinishJobGrows
  <2>. QED BY <2>2, <2>3, GrowsOn
<1>3. CASE doc.generation = w.generation /\ answer.ok
  <2>. DEFINE v == ShowDocument([w EXCEPT !.cache[doc.entry] = answer.revision],
                                doc.entry, answer.revision)
  <2>1. WindowOK(v) /\ v.calls = w.calls /\ v.jobs = w.jobs /\ v.table = w.table
    BY DEF WindowOK, Fields, ShowDocument
  <2>2. DocAnswered(w, answer) = FinishJob(v, doc.job)
    BY <1>3 DEF DocAnswered
  <2>. HIDE DEF v, doc
  <2>3. Grows(w, v) /\ Grows(v, FinishJob(v, doc.job))
    BY <2>1, SameGrows, FinishJobGrows
  <2>. QED BY <2>2, <2>3, GrowsOn
<1>. QED BY <1>1, <1>2, <1>3

\* The callback of an own job ends the very row it was begun with.
LEMMA JobAnsweredGrows ==
  ASSUME NEW w, WindowOK(w), NEW answer, answer.request.kind \in OwnJobs
  PROVE  /\ Grows(w, JobAnswered(w, answer))
         /\ \A j \in 1 .. Len(JobAnswered(w, answer).jobs) :
              JobAnswered(w, answer).jobs[j].running => j # answer.request.job
<1>. DEFINE v == IF answer.ok THEN Refetched(w, answer.request) ELSE w
            job == answer.request.job
<1>1. Grows(w, v)
  BY RefetchedGrows, SameGrows
<1>2. JobAnswered(w, answer) = FinishJob(v, job)
  BY DEF JobAnswered
<1>. HIDE DEF v, job
<1>3. /\ Grows(v, FinishJob(v, job))
      /\ \A j \in 1 .. Len(FinishJob(v, job).jobs) :
           FinishJob(v, job).jobs[j].running => j # job
  BY <1>1, FinishJobGrows DEF Grows
<1>4. Grows(w, FinishJob(v, job))
  BY <1>1, <1>3, GrowsOn
<1>. QED BY <1>2, <1>3, <1>4 DEF job

LEMMA AnsweredGrows ==
  ASSUME NEW w, WindowOK(w), NEW answer, answer.request.kind \in CallKinds,
         ~Page(answer.request)
  PROVE  /\ Grows(w, Answered(w, answer))
         /\ \A j \in 1 .. Len(Answered(w, answer).jobs) :
              Answered(w, answer).jobs[j].running /\ answer.request.kind \in OwnJobs =>
                j # answer.request.job
<1>1. CASE answer.request.kind = "decompile_doc"
  <2>1. Answered(w, answer) = DocAnswered(w, answer)
    BY <1>1 DEF Answered
  <2>2. answer.request.kind \notin OwnJobs
    BY <1>1 DEF OwnJobs
  <2>. QED BY <2>1, <2>2, DocAnsweredGrows
<1>2. CASE answer.request.kind = "xrefs_page"
  <2>1. Answered(w, answer) = FinishJob(w, Len(w.jobs))
    BY <1>2 DEF Answered, XrefsAnswered
  <2>2. answer.request.kind \notin OwnJobs
    BY <1>2 DEF OwnJobs
  <2>. QED BY <2>1, <2>2, FinishJobGrows
<1>3. CASE answer.request.kind \in OwnJobs
  <2>1. Answered(w, answer) = JobAnswered(w, answer)
    BY <1>3 DEF Answered, OwnJobs
  <2>. QED BY <1>3, <2>1, JobAnsweredGrows
<1>. QED BY <1>1, <1>2, <1>3 DEF CallKinds, OwnJobs, Page

\* The page a table waits for ends its waiting.
LEMMA PageIsAnswered ==
  ASSUME NEW w, WindowOK(w), NEW answer, Page(answer.request),
         answer.request.generation = w.table.generation,
         NEW v, v = Answered(w, answer)
  PROVE  /\ WindowOK(v) /\ v.calls = w.calls /\ v.jobs = w.jobs
         /\ v.table.loading = FALSE
<1>1. v = PageAnswered(w, answer)
  BY DEF Answered, Page
<1>2. CASE ~answer.ok
  <2>1. v = [w EXCEPT !.table.loading = FALSE]
    BY <1>1, <1>2 DEF PageAnswered
  <2>. QED BY <2>1 DEF WindowOK, Fields
<1>3. CASE answer.ok
  <2>. DEFINE rows == PageRows(w, answer)
  <2>1. v = [w EXCEPT !.table.loading = FALSE, !.table.rows = rows,
                      !.table.total = answer.total, !.table.revision = answer.revision]
    BY <1>1, <1>3 DEF PageAnswered
  <2>2. PICK t : t = [w.table EXCEPT !.loading = FALSE, !.rows = rows,
                                     !.total = answer.total, !.revision = answer.revision]
    OBVIOUS
  <2>3. t.loading = FALSE
    BY <2>2 DEF WindowOK
  <2>4. t \in [rows : {t.rows}, total : {t.total}, revision : {t.revision},
               loading : BOOLEAN, generation : {t.generation}]
    BY <2>2 DEF WindowOK
  <2>5. v = [w EXCEPT !.table = t]
    BY <2>1, <2>2
  <2>6. v.table = t /\ v.calls = w.calls /\ v.jobs = w.jobs /\ Fields(v)
    BY <2>5 DEF WindowOK, Fields
  <2>. QED BY <2>3, <2>4, <2>6 DEF WindowOK
<1>. QED BY <1>2, <1>3

-----------------------------------------------------------------------------
(* The way of a request. *)

\* A window that grows keeps the way; answers stay where they are.
LEMMA GrownWay ==
  ASSUME NEW w, NEW v, NEW bag, NEW queue, OnTheWay(w, bag, queue), Grows(w, v)
  PROVE  OnTheWay(v, bag, queue)
<1>. DEFINE n == Len(w.calls)
            m == Len(v.calls)
<1>1. /\ WindowOK(w) /\ WindowOK(v) /\ AnswersOK(bag, queue)
      /\ n \in Nat /\ m \in Nat /\ n <= m
      /\ \A i \in 1 .. n : v.calls[i] = w.calls[i]
  BY DEF OnTheWay, Grows, Sends, WindowOK, IsSeq
<1>2. JobsOwed(v, bag, queue)
  <2>1. SUFFICES ASSUME NEW job \in 1 .. Len(v.jobs), v.jobs[job].running,
                        v.jobs[job].of \in OwnJobs
                 PROVE  Owed(v, bag, queue, v.jobs[job].of, job)
    BY DEF JobsOwed
  <2>2. CASE /\ job \in 1 .. Len(w.jobs) /\ w.jobs[job].running
             /\ w.jobs[job].of = v.jobs[job].of
    <3>1. Owed(w, bag, queue, v.jobs[job].of, job)
      BY <2>1, <2>2 DEF OnTheWay, JobsOwed
    <3>. QED BY <1>1, <3>1 DEF Owed
  <2>3. CASE \E i \in n + 1 .. m : v.calls[i].kind = v.jobs[job].of /\ v.calls[i].job = job
    BY <1>1, <2>3 DEF Owed
  <2>. QED BY <2>1, <2>2, <2>3 DEF Grows, Owes
<1>3. OnItsWay(v, bag, queue)
  <2>0. NoPage(w, 0) /\ NoPage(v, n) => NoPage(v, 0)
    BY <1>1 DEF NoPage
  <2>1. CASE /\ v.table.loading = w.table.loading
             /\ v.table.generation = w.table.generation /\ NoPage(v, n)
    <3>1. OnePage(w, 0) => OnePage(v, 0)
      <4>1. SUFFICES ASSUME NEW i \in 1 .. n, Page(w.calls[i]),
                            w.calls[i].generation = w.table.generation,
                            \A j \in 1 .. n : j # i => ~Page(w.calls[j])
                     PROVE  OnePage(v, 0)
        BY <1>1 DEF OnePage
      <4>2. i \in 1 .. m /\ v.calls[i] = w.calls[i]
        BY <1>1
      <4>3. \A j \in 1 .. m : j # i => ~Page(v.calls[j])
        BY <1>1, <2>1, <4>1 DEF NoPage
      <4>. QED BY <1>1, <2>1, <4>1, <4>2, <4>3 DEF OnePage
    <3>2. OneReturned(w, bag) => OneReturned(v, bag)
      BY <2>1 DEF OneReturned
    <3>3. OnePosted(w, queue) => OnePosted(v, queue)
      BY <2>1 DEF OnePosted
    <3>. QED BY <2>0, <2>1, <3>1, <3>2, <3>3 DEF OnTheWay, OnItsWay
  <2>2. CASE ~w.table.loading /\ v.table.loading /\ OnePage(v, n)
    <3>1. NoPage(w, 0) /\ NoneReturned(bag) /\ NonePosted(queue)
      BY <2>2 DEF OnTheWay, OnItsWay
    <3>2. PICK i \in n + 1 .. m :
            /\ Page(v.calls[i]) /\ v.calls[i].generation = v.table.generation
            /\ \A j \in n + 1 .. m : j # i => ~Page(v.calls[j])
      BY <2>2 DEF OnePage
    <3>3. i \in 1 .. m /\ \A j \in 1 .. m : j # i => ~Page(v.calls[j])
      BY <1>1, <3>1, <3>2 DEF NoPage
    <3>4. OnePage(v, 0)
      BY <1>1, <3>2, <3>3 DEF OnePage
    <3>. QED BY <2>2, <3>1, <3>4 DEF OnItsWay
  <2>. QED BY <2>1, <2>2 DEF Grows, Loads
<1>. QED BY <1>1, <1>2, <1>3 DEF OnTheWay

\* The rest of a queue.
LEMMA TailOf ==
  ASSUME NEW queue, IsSeq(queue), queue # <<>>
  PROVE  /\ IsSeq(Tail(queue)) /\ Len(queue) \in Nat /\ Len(queue) >= 1
         /\ Len(Tail(queue)) = Len(queue) - 1 /\ Head(queue) = queue[1]
         /\ \A i \in 1 .. Len(Tail(queue)) : Tail(queue)[i] = queue[i + 1]
<1>1. PICK S : queue \in Seq(S)
  BY DEF IsSeq
<1>. QED BY <1>1, HeadTailProperties, EmptySeq, LenProperties DEF IsSeq

\* The oldest answer leaves the queue.
LEMMA HeadDelivered ==
  ASSUME NEW w, NEW bag, NEW queue, OnTheWay(w, bag, queue), queue # <<>>,
         ~Page(Head(queue).request),
         \A j \in 1 .. Len(w.jobs) :
           w.jobs[j].running /\ Head(queue).request.kind \in OwnJobs =>
             j # Head(queue).request.job
  PROVE  OnTheWay(w, bag, Tail(queue))
<1>. DEFINE rest == Tail(queue)
            n == Len(queue)
<1>1. /\ IsSeq(rest) /\ n \in Nat /\ n >= 1 /\ Len(rest) = n - 1 /\ Head(queue) = queue[1]
      /\ \A i \in 1 .. Len(rest) : rest[i] = queue[i + 1]
  BY TailOf DEF OnTheWay, AnswersOK
<1>. HIDE DEF rest
<1>2. AnswersOK(bag, rest)
  BY <1>1 DEF OnTheWay, AnswersOK
<1>3. JobsOwed(w, bag, rest)
  <2>1. SUFFICES ASSUME NEW job \in 1 .. Len(w.jobs), w.jobs[job].running,
                        w.jobs[job].of \in OwnJobs
                 PROVE  Owed(w, bag, rest, w.jobs[job].of, job)
    BY DEF JobsOwed
  <2>2. Owed(w, bag, queue, w.jobs[job].of, job)
    BY <2>1 DEF OnTheWay, JobsOwed
  <2>3. CASE \E i \in 1 .. n :
               queue[i].request.kind = w.jobs[job].of /\ queue[i].request.job = job
    <3>1. PICK i \in 1 .. n :
            queue[i].request.kind = w.jobs[job].of /\ queue[i].request.job = job
      BY <2>3
    <3>2. i # 1
      BY <1>1, <2>1, <3>1
    <3>3. i - 1 \in 1 .. Len(rest) /\ rest[i - 1] = queue[i]
      BY <1>1, <3>1, <3>2
    <3>. QED BY <3>1, <3>3 DEF Owed
  <2>. QED BY <2>2, <2>3 DEF Owed
<1>4. NonePosted(queue) => NonePosted(rest)
  BY <1>1 DEF NonePosted
<1>5. OnePosted(w, queue) => OnePosted(w, rest)
  <2>1. SUFFICES ASSUME NEW i \in 1 .. n, Page(queue[i].request),
                        queue[i].request.generation = w.table.generation,
                        \A j \in 1 .. n : j # i => ~Page(queue[j].request)
                 PROVE  OnePosted(w, rest)
    BY DEF OnePosted
  <2>2. i # 1
    BY <1>1, <2>1
  <2>3. i - 1 \in 1 .. Len(rest) /\ rest[i - 1] = queue[i]
    BY <1>1, <2>2
  <2>4. \A j \in 1 .. Len(rest) : j # i - 1 => ~Page(rest[j].request)
    BY <1>1, <2>1
  <2>. QED BY <2>1, <2>3, <2>4 DEF OnePosted
<1>6. OnItsWay(w, bag, rest)
  BY <1>4, <1>5 DEF OnTheWay, OnItsWay
<1>7. OnTheWay(w, bag, rest)
  BY <1>2, <1>3, <1>6 DEF OnTheWay
<1>. QED BY <1>7 DEF rest

\* The page the table waits for is delivered; a page that is delivered is that one.
LEMMA PageDelivered ==
  ASSUME NEW w, NEW bag, NEW queue, OnTheWay(w, bag, queue), queue # <<>>,
         Page(Head(queue).request)
  PROVE  OnTheWay(Answered(w, Head(queue)), bag, Tail(queue))
<1>. DEFINE rest == Tail(queue)
            n == Len(queue)
            v == Answered(w, Head(queue))
<1>1. /\ IsSeq(rest) /\ n \in Nat /\ n >= 1 /\ Len(rest) = n - 1 /\ Head(queue) = queue[1]
      /\ \A i \in 1 .. Len(rest) : rest[i] = queue[i + 1]
  BY TailOf DEF OnTheWay, AnswersOK
<1>2. ~NonePosted(queue)
  BY <1>1 DEF NonePosted
<1>3. /\ NoPage(w, 0) /\ NoneReturned(bag)
      /\ queue[1].request.generation = w.table.generation
      /\ \A j \in 1 .. n : j # 1 => ~Page(queue[j].request)
  BY <1>1, <1>2 DEF OnTheWay, OnItsWay, OnePosted
<1>4. /\ WindowOK(v) /\ v.calls = w.calls /\ v.jobs = w.jobs
      /\ v.table.loading = FALSE
  <2>1. WindowOK(w) /\ Head(queue).request.generation = w.table.generation
    BY <1>1, <1>3 DEF OnTheWay
  <2>. QED BY <2>1, PageIsAnswered, Zenon
<1>. HIDE DEF rest, v
<1>5. AnswersOK(bag, rest)
  BY <1>1 DEF OnTheWay, AnswersOK
<1>6. NoPage(v, 0) /\ NonePosted(rest)
  BY <1>1, <1>3, <1>4 DEF NoPage, NonePosted
<1>7. JobsOwed(v, bag, rest)
  <2>1. SUFFICES ASSUME NEW job \in 1 .. Len(w.jobs), w.jobs[job].running,
                        w.jobs[job].of \in OwnJobs
                 PROVE  Owed(v, bag, rest, w.jobs[job].of, job)
    BY <1>4 DEF JobsOwed
  <2>2. Owed(w, bag, queue, w.jobs[job].of, job)
    BY <2>1 DEF OnTheWay, JobsOwed
  <2>3. CASE \E i \in 1 .. n :
               queue[i].request.kind = w.jobs[job].of /\ queue[i].request.job = job
    <3>1. PICK i \in 1 .. n :
            queue[i].request.kind = w.jobs[job].of /\ queue[i].request.job = job
      BY <2>3
    <3>2. i # 1
      BY <1>1, <2>1, <3>1 DEF OwnJobs, Page
    <3>3. i - 1 \in 1 .. Len(rest) /\ rest[i - 1] = queue[i]
      BY <1>1, <3>1, <3>2
    <3>. QED BY <3>1, <3>3 DEF Owed
  <2>. QED BY <1>4, <2>2, <2>3 DEF Owed
<1>8. OnTheWay(v, bag, rest)
  BY <1>3, <1>4, <1>5, <1>6, <1>7 DEF OnTheWay, OnItsWay
<1>. QED BY <1>8 DEF v, rest

\* RemoveAt leaves out one position.
LEMMA Removed ==
  ASSUME NEW s, IsSeq(s), NEW i \in 1 .. Len(s)
  PROVE  /\ IsSeq(RemoveAt(s, i)) /\ Len(s) \in Nat /\ Len(RemoveAt(s, i)) = Len(s) - 1
         /\ \A j \in 1 .. Len(s) - 1 :
              RemoveAt(s, i)[j] = IF j < i THEN s[j] ELSE s[j + 1]
<1>. DEFINE a == SubSeq(s, 1, i - 1)
            b == SubSeq(s, i + 1, Len(s))
<1>1. PICK S : s \in Seq(S)
  BY DEF IsSeq
<1>2. i \in Int /\ Len(s) \in Nat /\ \A j \in 1 .. Len(s) : s[j] \in S
  BY <1>1, ElementOfSeq
<1>3. a \in Seq(S) /\ Len(a) = i - 1 /\ \A j \in 1 .. i - 1 : a[j] = s[j]
  <2>1. 1 \in Int /\ i - 1 \in Int /\ \A j \in 1 .. i - 1 : s[j] \in S
    BY <1>2
  <2>2. /\ a \in Seq(S) /\ Len(a) = IF 1 <= i - 1 THEN i - 1 - 1 + 1 ELSE 0
        /\ \A j \in 1 .. i - 1 - 1 + 1 : a[j] = s[1 + j - 1]
    BY <2>1, SubSeqProperties
  <2>. HIDE DEF a
  <2>. QED BY <1>2, <2>2
<1>4. b \in Seq(S) /\ Len(b) = Len(s) - i /\ \A j \in 1 .. Len(s) - i : b[j] = s[i + j]
  <2>1. i + 1 \in Int /\ Len(s) \in Int /\ \A j \in i + 1 .. Len(s) : s[j] \in S
    BY <1>2
  <2>2. /\ b \in Seq(S) /\ Len(b) = IF i + 1 <= Len(s) THEN Len(s) - (i + 1) + 1 ELSE 0
        /\ \A j \in 1 .. Len(s) - (i + 1) + 1 : b[j] = s[i + 1 + j - 1]
    BY <2>1, SubSeqProperties
  <2>. HIDE DEF b
  <2>. QED BY <1>2, <2>2
<1>5. RemoveAt(s, i) = a \o b
  BY DEF RemoveAt
<1>. HIDE DEF a, b
<1>6. /\ a \o b \in Seq(S) /\ Len(a \o b) = Len(a) + Len(b)
      /\ \A j \in 1 .. Len(a) + Len(b) :
           (a \o b)[j] = IF j <= Len(a) THEN a[j] ELSE b[j - Len(a)]
  BY <1>3, <1>4, ConcatProperties
<1>7. Len(a \o b) = Len(s) - 1
  BY <1>2, <1>3, <1>4, <1>6
<1>8. ASSUME NEW j \in 1 .. Len(s) - 1
      PROVE  (a \o b)[j] = IF j < i THEN s[j] ELSE s[j + 1]
  <2>1. j \in 1 .. Len(a) + Len(b)
    BY <1>2, <1>3, <1>4
  <2>2. CASE j < i
    BY <1>2, <1>3, <1>6, <2>1, <2>2
  <2>3. CASE ~(j < i)
    <3>1. j - Len(a) \in 1 .. Len(s) - i /\ i + (j - Len(a)) = j + 1 /\ ~(j <= Len(a))
      BY <1>2, <1>3, <2>3
    <3>2. (a \o b)[j] = b[j - Len(a)]
      BY <1>6, <2>1, <3>1
    <3>. QED BY <1>4, <2>3, <3>1, <3>2
  <2>. QED BY <2>2, <2>3
<1>. QED BY <1>2, <1>5, <1>6, <1>7, <1>8 DEF IsSeq

\* A bag with one more, or one less, of an element.
LEMMA OneMore ==
  ASSUME NEW bag, NEW a, bag \in [DOMAIN bag -> Nat \ {0}]
  PROVE  /\ bag (+) SetToBag({a}) \in [DOMAIN bag \union {a} -> Nat \ {0}]
         /\ \A b \in DOMAIN bag : b # a => (bag (+) SetToBag({a}))[b] = bag[b]
         /\ a \notin DOMAIN bag => (bag (+) SetToBag({a}))[a] = 1
<1>1. DOMAIN SetToBag({a}) = {a} /\ SetToBag({a})[a] = 1
  BY DEF SetToBag
<1>2. bag (+) SetToBag({a})
        = [e \in DOMAIN bag \union DOMAIN SetToBag({a}) |->
             (IF e \in DOMAIN bag THEN bag[e] ELSE 0)
               + (IF e \in DOMAIN SetToBag({a}) THEN SetToBag({a})[e] ELSE 0)]
  BY Zenon DEF (+)
<1>3. DOMAIN (bag (+) SetToBag({a})) = DOMAIN bag \union {a}
  BY <1>1, <1>2
<1>4. \A e \in DOMAIN bag \union {a} :
        (bag (+) SetToBag({a}))[e]
          = (IF e \in DOMAIN bag THEN bag[e] ELSE 0) + (IF e = a THEN 1 ELSE 0)
  BY <1>1, <1>2
<1>. QED BY <1>2, <1>3, <1>4

LEMMA OneLess ==
  ASSUME NEW bag, NEW a \in DOMAIN bag, bag \in [DOMAIN bag -> Nat \ {0}]
  PROVE  /\ bag (-) SetToBag({a}) \in [DOMAIN (bag (-) SetToBag({a})) -> Nat \ {0}]
         /\ DOMAIN (bag (-) SetToBag({a})) \subseteq DOMAIN bag
         /\ \A b \in DOMAIN bag : b # a => /\ b \in DOMAIN (bag (-) SetToBag({a}))
                                            /\ (bag (-) SetToBag({a}))[b] = bag[b]
         /\ bag[a] = 1 => a \notin DOMAIN (bag (-) SetToBag({a}))
<1>. DEFINE left == [e \in DOMAIN bag |-> IF e \in {a} THEN bag[e] - 1 ELSE bag[e]]
<1>1. DOMAIN SetToBag({a}) = {a} /\ SetToBag({a})[a] = 1
  BY DEF SetToBag
<1>2. bag (-) SetToBag({a}) = [e \in {d \in DOMAIN bag : left[d] > 0} |-> left[e]]
  BY <1>1 DEF (-), SetToBag
<1>3. \A e \in DOMAIN bag : left[e] \in Nat /\ (e # a => left[e] = bag[e] /\ left[e] > 0)
  OBVIOUS
<1>4. bag[a] = 1 => ~(left[a] > 0)
  OBVIOUS
<1>. HIDE DEF left
<1>. QED BY <1>2, <1>3, <1>4

\* A thread that ran a request has its answer.
LEMMA ExecutedWay ==
  ASSUME NEW w, NEW bag, NEW queue, OnTheWay(w, bag, queue), NEW i \in 1 .. Len(w.calls),
         NEW a, a.request = w.calls[i]
  PROVE  OnTheWay([w EXCEPT !.calls = RemoveAt(@, i)], bag (+) SetToBag({a}), queue)
<1>. DEFINE v == [w EXCEPT !.calls = RemoveAt(@, i)]
            more == bag (+) SetToBag({a})
            n == Len(w.calls)
<1>1. /\ v.calls = RemoveAt(w.calls, i) /\ v.jobs = w.jobs /\ v.table = w.table
      /\ Fields(v)
  BY DEF OnTheWay, WindowOK, Fields
<1>2. /\ IsSeq(v.calls) /\ n \in Nat /\ Len(v.calls) = n - 1
      /\ \A j \in 1 .. n - 1 : v.calls[j] = IF j < i THEN w.calls[j] ELSE w.calls[j + 1]
  BY <1>1, Removed DEF OnTheWay, WindowOK
<1>3. /\ DOMAIN more = DOMAIN bag \union {a} /\ more \in [DOMAIN more -> Nat \ {0}]
      /\ \A b \in DOMAIN bag : b # a => more[b] = bag[b]
      /\ a \notin DOMAIN bag => more[a] = 1
  BY OneMore DEF OnTheWay, AnswersOK
<1>. HIDE DEF v, more
<1>4. \A j \in 1 .. n - 1 : \E k \in 1 .. n : k # i /\ v.calls[j] = w.calls[k]
  <2>1. SUFFICES ASSUME NEW j \in 1 .. n - 1
                 PROVE  \E k \in 1 .. n : k # i /\ v.calls[j] = w.calls[k]
    OBVIOUS
  <2>2. CASE j < i
    <3>1. j \in 1 .. n /\ j # i /\ v.calls[j] = w.calls[j]
      BY <1>2, <2>2
    <3>. QED BY <3>1
  <2>3. CASE ~(j < i)
    <3>1. j + 1 \in 1 .. n /\ j + 1 # i /\ v.calls[j] = w.calls[j + 1]
      BY <1>2, <2>3
    <3>. QED BY <3>1
  <2>. QED BY <2>2, <2>3
<1>5. \A k \in 1 .. n : k # i => \E j \in 1 .. n - 1 : v.calls[j] = w.calls[k]
  <2>1. SUFFICES ASSUME NEW k \in 1 .. n, k # i
                 PROVE  \E j \in 1 .. n - 1 : v.calls[j] = w.calls[k]
    OBVIOUS
  <2>2. CASE k < i
    <3>1. k \in 1 .. n - 1 /\ v.calls[k] = w.calls[k]
      BY <1>2, <2>2
    <3>. QED BY <3>1
  <2>3. CASE k > i
    <3>1. k - 1 \in 1 .. n - 1 /\ ~(k - 1 < i) /\ (k - 1) + 1 = k
      BY <1>2, <2>3
    <3>2. v.calls[k - 1] = w.calls[k]
      BY <1>2, <3>1
    <3>. QED BY <3>1, <3>2
  <2>. QED BY <1>2, <2>1, <2>2, <2>3
<1>6. /\ n > 0
      /\ \A k \in 1 .. n : w.calls[k].kind \in CallKinds
  BY <1>2 DEF OnTheWay, WindowOK
<1>7. WindowOK(v)
  <2>1. \A j \in 1 .. Len(v.calls) : v.calls[j].kind \in CallKinds
    BY <1>2, <1>4, <1>6
  <2>. QED BY <1>1, <1>2, <2>1 DEF OnTheWay, WindowOK
<1>8. AnswersOK(more, queue)
  <2>1. \A b \in DOMAIN more : b.request.kind \in CallKinds
    BY <1>3, <1>6 DEF OnTheWay, AnswersOK
  <2>. QED BY <1>3, <2>1 DEF OnTheWay, AnswersOK
<1>9. JobsOwed(v, more, queue)
  <2>1. SUFFICES ASSUME NEW job \in 1 .. Len(w.jobs), w.jobs[job].running,
                        w.jobs[job].of \in OwnJobs
                 PROVE  Owed(v, more, queue, w.jobs[job].of, job)
    BY <1>1 DEF JobsOwed
  <2>2. Owed(w, bag, queue, w.jobs[job].of, job)
    BY <2>1 DEF OnTheWay, JobsOwed
  <2>3. ASSUME NEW k \in 1 .. n, w.calls[k].kind = w.jobs[job].of, w.calls[k].job = job
        PROVE  Owed(v, more, queue, w.jobs[job].of, job)
    <3>1. CASE k = i
      <4>1. a \in DOMAIN more /\ a.request.kind = w.jobs[job].of /\ a.request.job = job
        BY <1>3, <2>3, <3>1
      <4>. QED BY <4>1 DEF Owed
    <3>2. CASE k # i
      BY <1>2, <1>5, <2>3, <3>2 DEF Owed
    <3>. QED BY <3>1, <3>2
  <2>. QED BY <1>3, <2>2, <2>3 DEF Owed
<1>10. OnItsWay(v, more, queue)
  <2>1. NoPage(w, 0) => NoPage(v, 0)
    BY <1>2, <1>4 DEF NoPage
  <2>2. ~Page(a.request) /\ NoneReturned(bag) => NoneReturned(more)
    BY <1>3 DEF NoneReturned
  <2>3. NoPage(w, 0) => ~Page(a.request)
    BY <1>2 DEF NoPage
  <2>4. CASE w.table.loading /\ OnePage(w, 0) /\ NoneReturned(bag) /\ NonePosted(queue)
    <3>1. PICK k \in 1 .. n :
            /\ Page(w.calls[k]) /\ w.calls[k].generation = w.table.generation
            /\ \A j \in 1 .. n : j # k => ~Page(w.calls[j])
      BY <1>2, <2>4 DEF OnePage
    <3>2. CASE k = i
      <4>1. NoPage(v, 0)
        BY <1>2, <1>4, <3>1, <3>2 DEF NoPage
      <4>2. a \notin DOMAIN bag
        BY <2>4, <3>1, <3>2 DEF NoneReturned
      <4>3. OneReturned(v, more)
        <5>1. a \in DOMAIN more /\ more[a] = 1 /\ Page(a.request)
          BY <1>3, <3>1, <3>2, <4>2
        <5>2. a.request.generation = v.table.generation
          BY <1>1, <3>1, <3>2
        <5>3. \A b \in DOMAIN more : b # a => ~Page(b.request)
          BY <1>3, <2>4 DEF NoneReturned
        <5>. QED BY <5>1, <5>2, <5>3 DEF OneReturned
      <4>. QED BY <1>1, <2>4, <4>1, <4>3 DEF OnItsWay
    <3>3. CASE k # i
      <4>1. ~Page(a.request)
        BY <3>1, <3>3
      <4>2. \E j \in 1 .. n - 1 :
              /\ Page(v.calls[j]) /\ v.calls[j].generation = v.table.generation
              /\ \A l \in 1 .. n - 1 : l # j => ~Page(v.calls[l])
        <5>1. CASE k < i
          <6>1. k \in 1 .. n - 1 /\ v.calls[k] = w.calls[k]
            BY <1>2, <5>1
          <6>2. ASSUME NEW l \in 1 .. n - 1, l # k
                PROVE  ~Page(v.calls[l])
            <7>1. l \in 1 .. n /\ l + 1 \in 1 .. n /\ (~(l < i) => l + 1 # k)
              BY <1>2, <5>1
            <7>. QED BY <1>2, <3>1, <6>2, <7>1
          <6>. QED BY <1>1, <3>1, <6>1, <6>2
        <5>2. CASE k > i
          <6>1. k - 1 \in 1 .. n - 1 /\ ~(k - 1 < i) /\ (k - 1) + 1 = k
            BY <1>2, <5>2
          <6>2. v.calls[k - 1] = w.calls[k]
            BY <1>2, <6>1
          <6>3. ASSUME NEW l \in 1 .. n - 1, l # k - 1
                PROVE  ~Page(v.calls[l])
            <7>1. /\ l \in 1 .. n /\ l + 1 \in 1 .. n /\ l + 1 # k
                  /\ l < i => l # k
              BY <1>2, <5>2, <6>3
            <7>. QED BY <1>2, <3>1, <7>1
          <6>. QED BY <1>1, <3>1, <6>1, <6>2, <6>3
        <5>. QED BY <1>2, <3>3, <5>1, <5>2
      <4>3. OnePage(v, 0)
        BY <1>2, <4>2 DEF OnePage
      <4>. QED BY <1>1, <2>2, <2>4, <4>1, <4>3 DEF OnItsWay
    <3>. QED BY <3>2, <3>3
  <2>5. CASE w.table.loading /\ NoPage(w, 0) /\ OneReturned(w, bag) /\ NonePosted(queue)
    <3>1. PICK b \in DOMAIN bag :
            /\ Page(b.request) /\ b.request.generation = w.table.generation
            /\ bag[b] = 1 /\ \A c \in DOMAIN bag : c # b => ~Page(c.request)
      BY <2>5 DEF OneReturned
    <3>2. b # a /\ b \in DOMAIN more /\ more[b] = 1
      BY <1>3, <2>3, <2>5, <3>1
    <3>3. \A c \in DOMAIN more : c # b => ~Page(c.request)
      BY <1>3, <2>3, <2>5, <3>1
    <3>4. OneReturned(v, more)
      BY <1>1, <3>1, <3>2, <3>3 DEF OneReturned
    <3>. QED BY <1>1, <2>1, <2>5, <3>4 DEF OnItsWay
  <2>6. CASE w.table.loading /\ NoPage(w, 0) /\ NoneReturned(bag) /\ OnePosted(w, queue)
    <3>1. OnePosted(v, queue)
      BY <1>1, <2>6 DEF OnePosted
    <3>. QED BY <1>1, <2>1, <2>2, <2>3, <2>6, <3>1 DEF OnItsWay
  <2>7. CASE ~w.table.loading
    BY <1>1, <2>1, <2>2, <2>3, <2>7 DEF OnTheWay, OnItsWay
  <2>. QED BY <2>4, <2>5, <2>6, <2>7 DEF OnTheWay, OnItsWay
<1>11. OnTheWay(v, more, queue)
  BY <1>7, <1>8, <1>9, <1>10 DEF OnTheWay
<1>. QED BY <1>11 DEF v, more

\* A thread posts its answer.
LEMMA PostedWay ==
  ASSUME NEW w, NEW bag, NEW queue, OnTheWay(w, bag, queue), NEW a \in DOMAIN bag
  PROVE  OnTheWay(w, bag (-) SetToBag({a}), Append(queue, a))
<1>. DEFINE less == bag (-) SetToBag({a})
            posted == Append(queue, a)
            n == Len(queue)
<1>1. /\ less \in [DOMAIN less -> Nat \ {0}] /\ DOMAIN less \subseteq DOMAIN bag
      /\ \A b \in DOMAIN bag : b # a => b \in DOMAIN less /\ less[b] = bag[b]
      /\ bag[a] = 1 => a \notin DOMAIN less
  BY OneLess DEF OnTheWay, AnswersOK
<1>2. /\ IsSeq(posted) /\ Len(posted) = n + 1 /\ n \in Nat
      /\ \A i \in 1 .. n : posted[i] = queue[i]
      /\ posted[n + 1] = a
  BY Appended DEF OnTheWay, AnswersOK
<1>. HIDE DEF less, posted
<1>3. AnswersOK(less, posted)
  BY <1>1, <1>2 DEF OnTheWay, AnswersOK
<1>4. JobsOwed(w, less, posted)
  <2>1. SUFFICES ASSUME NEW job \in 1 .. Len(w.jobs), w.jobs[job].running,
                        w.jobs[job].of \in OwnJobs
                 PROVE  Owed(w, less, posted, w.jobs[job].of, job)
    BY DEF JobsOwed
  <2>2. Owed(w, bag, queue, w.jobs[job].of, job)
    BY <2>1 DEF OnTheWay, JobsOwed
  <2>3. ASSUME NEW b \in DOMAIN bag, b.request.kind = w.jobs[job].of, b.request.job = job
        PROVE  Owed(w, less, posted, w.jobs[job].of, job)
    <3>1. CASE b = a
      <4>1. n + 1 \in 1 .. Len(posted)
        BY <1>2
      <4>. QED BY <1>2, <2>3, <3>1, <4>1 DEF Owed
    <3>2. CASE b # a
      BY <1>1, <2>3, <3>2 DEF Owed
    <3>. QED BY <3>1, <3>2
  <2>. QED BY <1>2, <2>2, <2>3 DEF Owed
<1>5. OnItsWay(w, less, posted)
  <2>1. NoneReturned(bag) => NoneReturned(less) /\ ~Page(a.request)
    BY <1>1 DEF NoneReturned
  <2>2. ~Page(a.request) /\ NonePosted(queue) => NonePosted(posted)
    BY <1>2 DEF NonePosted
  <2>3. ~Page(a.request) /\ OnePosted(w, queue) => OnePosted(w, posted)
    <3>1. SUFFICES ASSUME ~Page(a.request), NEW i \in 1 .. n, Page(queue[i].request),
                          queue[i].request.generation = w.table.generation,
                          \A j \in 1 .. n : j # i => ~Page(queue[j].request)
                   PROVE  OnePosted(w, posted)
      BY DEF OnePosted
    <3>2. i \in 1 .. Len(posted) /\ posted[i] = queue[i]
      BY <1>2
    <3>3. \A j \in 1 .. Len(posted) : j # i => ~Page(posted[j].request)
      BY <1>2, <3>1
    <3>. QED BY <3>1, <3>2, <3>3 DEF OnePosted
  <2>4. CASE w.table.loading /\ NoPage(w, 0) /\ OneReturned(w, bag) /\ NonePosted(queue)
    <3>1. PICK b \in DOMAIN bag :
            /\ Page(b.request) /\ b.request.generation = w.table.generation
            /\ bag[b] = 1 /\ \A c \in DOMAIN bag : c # b => ~Page(c.request)
      BY <2>4 DEF OneReturned
    <3>2. CASE b = a
      <4>1. NoneReturned(less)
        BY <1>1, <3>1, <3>2 DEF NoneReturned
      <4>2. n + 1 \in 1 .. Len(posted)
        BY <1>2
      <4>3. \A j \in 1 .. Len(posted) : j # n + 1 => ~Page(posted[j].request)
        BY <1>2, <2>4 DEF NonePosted
      <4>4. OnePosted(w, posted)
        BY <1>2, <3>1, <3>2, <4>2, <4>3 DEF OnePosted
      <4>. QED BY <2>4, <4>1, <4>4 DEF OnItsWay
    <3>3. CASE b # a
      <4>1. OneReturned(w, less)
        <5>1. b \in DOMAIN less /\ less[b] = 1
          BY <1>1, <3>1, <3>3
        <5>. QED BY <1>1, <3>1, <5>1 DEF OneReturned
      <4>2. ~Page(a.request)
        BY <3>1, <3>3
      <4>. QED BY <2>2, <2>4, <4>1, <4>2 DEF OnItsWay
    <3>. QED BY <3>2, <3>3
  <2>5. CASE ~(w.table.loading /\ NoPage(w, 0) /\ OneReturned(w, bag) /\ NonePosted(queue))
    BY <2>1, <2>2, <2>3, <2>5 DEF OnTheWay, OnItsWay
  <2>. QED BY <2>4, <2>5
<1>6. OnTheWay(w, less, posted)
  BY <1>3, <1>4, <1>5 DEF OnTheWay
<1>. QED BY <1>6 DEF less, posted

-----------------------------------------------------------------------------
(* The steps. *)

LEMMA OpenInit == Init => OpenInv
<1>. SUFFICES ASSUME Init PROVE OnTheWay(window, returned, inbox)
  BY DEF OpenInv
<1>. DEFINE w == [entry |-> 1, filter |-> NoName, table |-> ClosedTable,
                  pane |-> [state |-> "empty", entry |-> 0, revision |-> 0],
                  cache |-> [e \in Entries |-> 0], generation |-> 0,
                  jobs |-> <<>>, calls |-> <<>>]
<1>1. window = Refresh(w) /\ returned = EmptyBag /\ inbox = <<>>
  BY DEF Init
<1>2. Fields(w) /\ w.table = ClosedTable /\ w.jobs = <<>> /\ w.calls = <<>>
  BY DEF Fields
<1>. HIDE DEF w
<1>3. /\ ClosedTable \in [rows : {ClosedTable.rows}, total : {ClosedTable.total},
                          revision : {ClosedTable.revision}, loading : BOOLEAN,
                          generation : {ClosedTable.generation}]
      /\ ClosedTable.loading = FALSE
  BY DEF ClosedTable
<1>4. Len(<<>>) = 0 /\ IsSeq(<<>>) /\ 1 .. 0 = {}
  BY DEF IsSeq
<1>5. WindowOK(w)
  BY <1>2, <1>3, <1>4 DEF WindowOK
<1>6. DOMAIN EmptyBag = {} /\ EmptyBag \in [DOMAIN EmptyBag -> Nat \ {0}]
  BY DEF EmptyBag, SetToBag
<1>7. OnTheWay(w, EmptyBag, <<>>)
  <2>1. AnswersOK(EmptyBag, <<>>)
    BY <1>4, <1>6 DEF AnswersOK
  <2>2. OnItsWay(w, EmptyBag, <<>>)
    BY <1>2, <1>3, <1>4, <1>6 DEF OnItsWay, NoPage, NoneReturned, NonePosted
  <2>3. JobsOwed(w, EmptyBag, <<>>)
    BY <1>2, <1>4 DEF JobsOwed
  <2>. QED BY <1>5, <2>1, <2>2, <2>3 DEF OnTheWay
<1>8. Grows(w, Refresh(w))
  BY <1>5, RefreshGrows
<1>. QED BY <1>1, <1>7, <1>8, GrownWay

\* What the user does makes the window grow.
LEMMA UserStep ==
  ASSUME OpenInv, phase = "open",
         Navigate \/ DecompileClicked \/ RenameFunction \/ ApplyComment \/ UndoCommand
         \/ SetFilter \/ FetchMore \/ CancelJob
  PROVE  OpenInv'
<1>. DEFINE Stays == returned' = returned /\ inbox' = inbox /\ phase' = phase
<1>1. WindowOK(window)
  BY DEF OpenInv, OnTheWay
<1>2. SUFFICES Grows(window, window') /\ Stays
  <2>1. OnTheWay(window, returned, inbox)
    BY DEF OpenInv
  <2>2. OnTheWay(window', returned, inbox)
    BY <1>2, <2>1, GrownWay
  <2>. QED BY <1>2, <2>2 DEF OpenInv
<1>3. CASE Navigate
  <2>1. PICK e \in Entries : window' = GoTo(window, e) /\ Stays
    BY <1>3 DEF Navigate, UserDoes
  <2>. QED BY <1>1, <2>1, GoToGrows
<1>4. CASE DecompileClicked
  BY <1>1, <1>4, DecompileGrows DEF DecompileClicked, UserDoes
<1>5. CASE RenameFunction
  <2>1. PICK e \in Entries, n \in Names :
          /\ window' = Send(BeginJob(window, "rename"),
                            [kind |-> "rename", entry |-> e, name |-> n,
                             job |-> Len(BeginJob(window, "rename").jobs)])
          /\ Stays
    BY <1>5 DEF RenameFunction, UserDoes
  <2>. DEFINE v == BeginJob(window, "rename")
              request == [kind |-> "rename", entry |-> e, name |-> n, job |-> Len(v.jobs)]
  <2>2. /\ Fields(v) /\ v.calls = window.calls /\ v.table = window.table
        /\ v.jobs = Append(window.jobs, [of |-> "rename", running |-> TRUE])
    BY <1>1 DEF BeginJob, WindowOK, Fields
  <2>3. Len(v.jobs) = Len(window.jobs) + 1
    <3>1. window.jobs \in Seq([of : JobKinds, running : BOOLEAN])
      BY <1>1 DEF WindowOK
    <3>2. [of |-> "rename", running |-> TRUE] \in [of : JobKinds, running : BOOLEAN]
      BY DEF JobKinds, OwnJobs
    <3>. QED BY <2>2, <3>1, <3>2, AppendProperties
  <2>4. request.kind = "rename" /\ request.job = Len(window.jobs) + 1
    BY <2>3
  <2>5. /\ "rename" \in CallKinds /\ "rename" # "functions_page"
        /\ "rename" \in JobKinds
    BY DEF CallKinds, JobKinds, OwnJobs
  <2>6. window' = Send(v, request)
    BY <2>1
  <2>. HIDE DEF v, request
  <2>7. request.kind \in CallKinds /\ ~Page(request)
    BY <2>4, <2>5 DEF Page
  <2>8. Grows(window, Send(v, request))
    BY <1>1, <2>2, <2>4, <2>5, <2>7, SendsJob
  <2>. QED BY <2>1, <2>6, <2>8
<1>6. CASE ApplyComment
  <2>1. "comment" \in OwnJobs
    BY DEF OwnJobs
  <2>. QED BY <1>1, <1>6, <2>1, SendJobGrows DEF ApplyComment, UserDoes
<1>7. CASE UndoCommand
  <2>1. "undo" \in OwnJobs
    BY DEF OwnJobs
  <2>. QED BY <1>1, <1>7, <2>1, SendJobGrows DEF UndoCommand, UserDoes
<1>8. CASE SetFilter
  <2>1. PICK f : window' = Refresh([window EXCEPT !.filter = f]) /\ Stays
    BY <1>8 DEF SetFilter, UserDoes
  <2>. DEFINE v == [window EXCEPT !.filter = f]
  <2>2. WindowOK(v) /\ v.calls = window.calls /\ v.jobs = window.jobs
        /\ v.table = window.table
    BY <1>1 DEF WindowOK, Fields
  <2>. HIDE DEF v
  <2>3. Grows(window, v) /\ Grows(v, Refresh(v))
    BY <1>1, <2>2, SameGrows, RefreshGrows
  <2>4. Grows(window, Refresh(v))
    BY <1>1, <2>3, GrowsOn
  <2>. QED BY <2>1, <2>4 DEF v
<1>9. CASE FetchMore
  BY <1>1, <1>9, RequestPageGrows DEF FetchMore, UserDoes
<1>10. CASE CancelJob
  <2>1. PICK job : window' = FinishJob(window, job) /\ Stays
    BY <1>10 DEF CancelJob, UserDoes
  <2>. QED BY <1>1, <2>1, FinishJobGrows
<1>. QED BY <1>3, <1>4, <1>5, <1>6, <1>7, <1>8, <1>9, <1>10

\* What a thread does takes an answer one place further.
LEMMA ThreadStep ==
  ASSUME OpenInv, phase = "open", Execute \/ Post
  PROVE  OpenInv'
<1>1. OnTheWay(window, returned, inbox)
  BY DEF OpenInv
<1>2. CASE Execute
  <2>1. PICK i \in DOMAIN window.calls :
          \E ok \in Outcomes(window.calls[i]) :
            /\ returned' = returned (+) SetToBag({AnswerTo(window.calls[i], ok)})
            /\ window' = [window EXCEPT !.calls = RemoveAt(@, i)]
            /\ inbox' = inbox
    BY <1>2 DEF Execute
  <2>2. PICK ok : /\ returned' = returned (+) SetToBag({AnswerTo(window.calls[i], ok)})
                  /\ window' = [window EXCEPT !.calls = RemoveAt(@, i)]
                  /\ inbox' = inbox
    BY <2>1
  <2>3. PICK a : a = AnswerTo(window.calls[i], ok)
    OBVIOUS
  <2>4. a.request = window.calls[i]
    BY <2>3 DEF AnswerTo
  <2>5. i \in 1 .. Len(window.calls)
    <3>1. PICK S : window.calls \in Seq(S)
      BY <1>1 DEF OnTheWay, WindowOK, IsSeq
    <3>. QED BY <3>1, LenProperties
  <2>6. returned' = returned (+) SetToBag({a})
    BY <2>2, <2>3
  <2>7. OnTheWay([window EXCEPT !.calls = RemoveAt(@, i)], returned (+) SetToBag({a}), inbox)
    BY <1>1, <2>4, <2>5, ExecutedWay
  <2>. QED BY <2>2, <2>6, <2>7 DEF OpenInv
<1>3. CASE Post
  <2>1. PICK a \in DOMAIN returned :
          /\ inbox' = Append(inbox, a) /\ returned' = returned (-) SetToBag({a})
          /\ window' = window
    BY <1>3 DEF Post, BagToSet
  <2>2. OnTheWay(window, returned (-) SetToBag({a}), Append(inbox, a))
    BY <1>1, PostedWay
  <2>. QED BY <2>1, <2>2 DEF OpenInv
<1>. QED BY <1>2, <1>3

LEMMA DeliverStep ==
  ASSUME OpenInv, Deliver
  PROVE  OpenInv'
<1>1. /\ OnTheWay(window, returned, inbox) /\ inbox # <<>>
      /\ inbox' = Tail(inbox) /\ window' = Answered(window, Head(inbox))
      /\ returned' = returned
  BY DEF OpenInv, Deliver
<1>2. CASE Page(Head(inbox).request)
  BY <1>1, <1>2, PageDelivered DEF OpenInv
<1>3. CASE ~Page(Head(inbox).request)
  <2>1. Head(inbox).request.kind \in CallKinds /\ WindowOK(window)
    <3>1. /\ IsSeq(inbox) /\ WindowOK(window)
          /\ \A i \in 1 .. Len(inbox) : inbox[i].request.kind \in CallKinds
      BY <1>1 DEF OnTheWay, AnswersOK
    <3>2. Head(inbox) = inbox[1] /\ 1 \in 1 .. Len(inbox)
      BY <1>1, <3>1, TailOf
    <3>. QED BY <3>1, <3>2
  <2>2. PICK a, v : a = Head(inbox) /\ v = Answered(window, a)
    OBVIOUS
  <2>3. /\ Grows(window, v)
        /\ \A j \in 1 .. Len(v.jobs) :
             v.jobs[j].running /\ a.request.kind \in OwnJobs => j # a.request.job
    BY <1>3, <2>1, <2>2, AnsweredGrows
  <2>4. OnTheWay(v, returned, inbox)
    BY <1>1, <2>3, GrownWay
  <2>5. OnTheWay(v, returned, Tail(inbox))
    BY <1>1, <1>3, <2>2, <2>3, <2>4, HeadDelivered
  <2>. QED BY <1>1, <2>2, <2>5 DEF OpenInv
<1>. QED BY <1>2, <1>3

LEMMA OpenStep == OpenInv /\ [Next]_vars => OpenInv'
<1>. SUFFICES ASSUME OpenInv, [Next]_vars PROVE OpenInv'
  OBVIOUS
<1>1. CASE UNCHANGED vars
  BY <1>1 DEF vars, OpenInv
<1>2. CASE Navigate \/ DecompileClicked \/ RenameFunction \/ ApplyComment \/ UndoCommand
           \/ SetFilter \/ FetchMore \/ CancelJob
  <2>1. phase = "open"
    BY <1>2 DEF Navigate, DecompileClicked, RenameFunction, ApplyComment, UndoCommand,
                SetFilter, FetchMore, CancelJob, UserDoes
  <2>. QED BY <1>2, <2>1, UserStep
<1>3. CASE Execute \/ Post
  <2>1. phase' = phase
    BY <1>3 DEF Execute, Post
  <2>2. CASE phase = "open"
    BY <1>3, <2>2, ThreadStep
  <2>3. CASE phase # "open"
    BY <2>1, <2>3 DEF OpenInv
  <2>. QED BY <2>2, <2>3
<1>4. CASE Deliver
  BY <1>4, DeliverStep
<1>5. CASE Shutdown \/ Closed
  <2>1. phase' \in {"closing", "closed"}
    BY <1>5 DEF Shutdown, Closed
  <2>. QED BY <2>1 DEF OpenInv
<1>. QED BY <1>1, <1>2, <1>3, <1>4, <1>5 DEF Next

-----------------------------------------------------------------------------
(* Theorems. *)

\* While the window lives, what is on the way between it and the pool's
\* threads is what its table's loading_ and its rows say.
THEOREM WayIsInvariant == Spec => []OpenInv
<1>. QED BY OpenInit, OpenStep, PTL DEF Spec

\* requestPage's loading_ does what it is for: the table of a window that
\* lives is loading exactly when one page is on its way, the one it accepts.
THEOREM PagesComeOneByOne == Spec => []OneLoad
<1>1. OpenInv => OneLoad
  <2>. SUFFICES ASSUME OpenInv, phase = "open" PROVE OneLoad
    BY DEF OneLoad
  <2>. DEFINE pages == {r \in Outstanding : r.kind = "functions_page"}
  <2>1. /\ OnItsWay(window, returned, inbox)
        /\ window.table.loading \in BOOLEAN
    BY DEF OpenInv, OnTheWay, WindowOK
  <2>2. \A r : r \in Outstanding <=>
          \/ \E i \in 1 .. Len(window.calls) : r = window.calls[i]
          \/ \E a \in DOMAIN returned : r = a.request
          \/ \E i \in 1 .. Len(inbox) : r = inbox[i].request
    <3>1. DOMAIN window.calls = 1 .. Len(window.calls) /\ DOMAIN inbox = 1 .. Len(inbox)
      <4>1. PICK S, T : window.calls \in Seq(S) /\ inbox \in Seq(T)
        BY DEF OpenInv, OnTheWay, WindowOK, AnswersOK, IsSeq
      <4>. QED BY <4>1, LenProperties
    <3>. QED BY <3>1 DEF Outstanding, ToSet, BagToSet
  <2>3. NoPage(window, 0) => \A i \in 1 .. Len(window.calls) : ~Page(window.calls[i])
    BY DEF NoPage
  <2>4. CASE ~window.table.loading
    BY <2>1, <2>2, <2>3, <2>4 DEF OneLoad, OnItsWay, NoneReturned, NonePosted, Page
  <2>5. CASE window.table.loading
    <3>1. PICK r \in Outstanding :
            /\ Page(r) /\ r.generation = window.table.generation
            /\ \A q \in Outstanding : Page(q) => q = r
      <4>1. CASE OnePage(window, 0) /\ NoneReturned(returned) /\ NonePosted(inbox)
        <5>1. PICK i \in 1 .. Len(window.calls) :
                /\ Page(window.calls[i])
                /\ window.calls[i].generation = window.table.generation
                /\ \A j \in 1 .. Len(window.calls) : j # i => ~Page(window.calls[j])
          BY <4>1 DEF OnePage
        <5>2. window.calls[i] \in Outstanding
          BY <2>2
        <5>3. \A q \in Outstanding : Page(q) => q = window.calls[i]
          BY <2>2, <4>1, <5>1 DEF NoneReturned, NonePosted
        <5>. QED BY <5>1, <5>2, <5>3
      <4>2. CASE NoPage(window, 0) /\ OneReturned(window, returned) /\ NonePosted(inbox)
        <5>1. PICK a \in DOMAIN returned :
                /\ Page(a.request) /\ a.request.generation = window.table.generation
                /\ \A b \in DOMAIN returned : b # a => ~Page(b.request)
          BY <4>2 DEF OneReturned
        <5>2. a.request \in Outstanding
          BY <2>2
        <5>3. \A q \in Outstanding : Page(q) => q = a.request
          BY <2>2, <2>3, <4>2, <5>1 DEF NonePosted
        <5>. QED BY <5>1, <5>2, <5>3
      <4>3. CASE NoPage(window, 0) /\ NoneReturned(returned) /\ OnePosted(window, inbox)
        <5>1. PICK i \in 1 .. Len(inbox) :
                /\ Page(inbox[i].request)
                /\ inbox[i].request.generation = window.table.generation
                /\ \A j \in 1 .. Len(inbox) : j # i => ~Page(inbox[j].request)
          BY <4>3 DEF OnePosted
        <5>2. inbox[i].request \in Outstanding
          BY <2>2
        <5>3. \A q \in Outstanding : Page(q) => q = inbox[i].request
          BY <2>2, <2>3, <4>3, <5>1 DEF NoneReturned
        <5>. QED BY <5>1, <5>2, <5>3
      <4>. QED BY <2>1, <2>5, <4>1, <4>2, <4>3 DEF OnItsWay
    <3>2. pages = {r}
      BY <3>1 DEF Page
    <3>3. Cardinality(pages) = 1
      BY <3>2, FS_Singleton
    <3>. QED BY <2>5, <3>1, <3>2, <3>3 DEF OneLoad
  <2>. QED BY <2>4, <2>5
<1>. QED BY <1>1, WayIsInvariant, PTL

\* A running row of the window's own jobs has its answer on the way, the one
\* whose callback ends that very row.
THEOREM OwnJobsAreOwed == Spec => []OwnJobsEnd
<1>1. OpenInv => OwnJobsEnd
  <2>. SUFFICES ASSUME OpenInv, phase = "open", NEW job \in DOMAIN window.jobs,
                       window.jobs[job].running, window.jobs[job].of \in OwnJobs
                PROVE  \E r \in Outstanding : r.kind = window.jobs[job].of /\ r.job = job
    BY DEF OwnJobsEnd
  <2>1. /\ DOMAIN window.jobs = 1 .. Len(window.jobs)
        /\ DOMAIN window.calls = 1 .. Len(window.calls) /\ DOMAIN inbox = 1 .. Len(inbox)
    <3>1. PICK S, T : window.calls \in Seq(S) /\ inbox \in Seq(T)
      BY DEF OpenInv, OnTheWay, WindowOK, AnswersOK, IsSeq
    <3>2. window.jobs \in Seq([of : JobKinds, running : BOOLEAN])
      BY DEF OpenInv, OnTheWay, WindowOK
    <3>. QED BY <3>1, <3>2, LenProperties
  <2>2. Owed(window, returned, inbox, window.jobs[job].of, job)
    BY <2>1 DEF OpenInv, OnTheWay, JobsOwed
  <2>. QED BY <2>1, <2>2 DEF Owed, Outstanding, ToSet, BagToSet
<1>. QED BY <1>1, WayIsInvariant, PTL
=============================================================================
