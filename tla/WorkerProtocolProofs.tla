------------------------ MODULE WorkerProtocolProofs ------------------------
(***************************************************************************)
(* Proofs about module WorkerProtocol, for every set of queries, every     *)
(* program and any number of commands and queries.                         *)
(*                                                                         *)
(* The inductive invariant Sync says, for each place where run_command can *)
(* be, what the client has kept of the response so far and what is still   *)
(* to come: what is left in the pipe, and what the child is then about to  *)
(* write.  What an answer to a query says is irrelevant to it: answer_query *)
(* is left undefined.                                                      *)
(***************************************************************************)
EXTENDS WorkerProtocol, SequenceTheorems, TLAPS

ClientPcs == Reading \union {"idle", "failed", "dropping", "gone"}
ChildPcs == {"ready", "run", "result", "await", "starved", "exited"}

TypeOK ==
  /\ client \in [pc : ClientPcs, inResponse : BOOLEAN, after : {"loop", "payload"},
                 text : Seq(Nat),
                 error : {"none", "io", "protocol", "decompiler", "process"}]
  /\ child \in [pc : ChildPcs, back : {"run", "result"},
                query : Queries \union {NoQuery}, asked : Nat, command : Nat]
  /\ sent \in Nat
  /\ results \in Seq([ok : BOOLEAN, text : Seq(Nat)])

-----------------------------------------------------------------------------
(* The parts of the response to the command in progress, number sent.      *)

Half(k) == Data(<<sent, k>>)

\* What can end it, and what is left of that as it is read.
Closed == <<Burst("responseEnd")>>
WarningsEnded == <<Burst("warningsEnd")>> \o Closed
Warning == <<Half(3)>> \o WarningsEnded
Warnings == <<Burst("warnings")>> \o Warning
ResultEnded == <<Burst("stringEnd")>> \o Warnings
SecondHalf == <<Half(2)>> \o ResultEnded

\* The response from its first burst, from its result, and from the first
\* half of that, tail being what follows; mode is "result" once the child has
\* opened the result and "run" until then.
FromHalf(tail) == <<Half(1)>> \o tail
FromString(tail) == <<Burst("string")>> \o FromHalf(tail)
FromBody(mode, tail) == IF mode = "run" THEN tail ELSE FromString(tail)
FromResponse(mode, tail) == <<Burst("response")>> \o FromBody(mode, tail)

Exited == child.pc = "exited"
\* The child has written all of its response.
Over == ~Exited => child.pc = "ready" /\ toChild = <<>>

\* What the child wrote last, and where it is then.
Writes(mode, tail) ==
  \/ /\ tail = <<>>
     /\ ~Exited => \/ child.pc = mode /\ toChild = <<>>
                   \/ child.pc = "await" /\ child.back = mode
                   \/ child.pc = "starved" /\ toChild = <<>>
  \/ /\ tail = QueryFrame(child.query)
     /\ ~Exited => child.pc = "await" /\ child.back = mode /\ toChild = <<>>
  \/ tail = Warnings /\ Over
  \/ tail = JavaException /\ Over
  \/ tail = SecondHalf /\ mode = "result" /\ Over

\* The client is before it, or inside the result.
Follows(mode, tail) ==
  /\ client.pc = "loop" => client.text = <<>>
  /\ \/ client.pc = "loop" /\ ~client.inResponse /\ fromChild = FromResponse(mode, tail)
     \/ client.pc = "loop" /\ client.inResponse /\ fromChild = FromBody(mode, tail)
     \/ /\ client.pc = "payload" /\ mode = "result"
        /\ \/ client.text = <<>> /\ fromChild = FromHalf(tail)
           \/ client.text = <<sent, 1>> /\ fromChild = tail

Following ==
  \E mode \in {"run", "result"},
     tail \in {<<>>, QueryFrame(child.query), Warnings, JavaException, SecondHalf} :
    Writes(mode, tail) /\ Follows(mode, tail)

Sending ==
  /\ client.pc = "loop" /\ ~client.inResponse /\ client.text = <<>>
  /\ fromChild = <<>>
  /\ ~Exited => child.pc = "ready" /\ toChild = CommandFrame(sent)

Querying ==
  /\ client.pc = "query" /\ fromChild = Tail(QueryFrame(child.query))
  /\ ~Exited => child.pc = "await" /\ toChild = <<>>
  /\ \/ /\ client.after = "loop" /\ client.inResponse /\ client.text = <<>>
        /\ ~Exited => child.back = "run"
     \/ /\ client.after = "payload" /\ client.text = <<sent, 1>>
        /\ ~Exited => child.back = "result"

\* The client is past it.
Ending ==
  \/ client.pc = "exception" /\ fromChild = Tail(JavaException)
  \/ /\ client.text = <<sent, 1, sent, 2>>
     /\ \/ client.pc = "payload" /\ fromChild = ResultEnded
        \/ client.pc = "warnings" /\ fromChild = Warnings
        \/ client.pc = "close" /\ fromChild \in {Warning, WarningsEnded, Closed}
  \/ client.pc = "text" /\ client.text = <<>> /\ fromChild = Warning
  \/ client.pc = "text" /\ client.text = <<sent, 3>> /\ fromChild = WarningsEnded
  \/ client.pc = "close" /\ client.text = <<sent, 3>> /\ fromChild = Closed

Sync ==
  /\ client.pc \notin Reading /\ child.pc \in {"ready", "run", "result"} => toChild = <<>>
  /\ client.pc = "idle" /\ ~Exited =>
       toChild = <<>> /\ fromChild = <<>> /\ child.pc = "ready"
  /\ client.pc \in Reading =>
       \/ Sending
       \/ child.command = sent /\ (Following \/ Querying)
       \/ Ending /\ Over

Owned ==
  /\ Len(results) = IF client.pc \in Reading THEN sent - 1 ELSE sent
  /\ ResultsAreOwn

ProtocolInv == TypeOK /\ Sync /\ Owned

-----------------------------------------------------------------------------
(* Reading the parts.  All of them are sequences of items.                 *)

BurstNames ==
  {"command", "commandEnd", "query", "queryEnd", "response", "responseEnd", "string",
   "stringEnd", "warnings", "warningsEnd", "exception", "exceptionEnd", "data"}

Item ==
  [burst : BurstNames,
   data : Seq(Nat) \union {Payload(q) : q \in Queries \union {NoQuery}}]

\* The client reads item a, and rest is left.
Begins(part, a, rest) ==
  /\ part \in Seq(Item) /\ part # <<>> /\ Len(part) = Len(rest) + 1
  /\ part[1] = a /\ Tail(part) = rest

LEMMA ItemTypes ==
  /\ \A name \in BurstNames : Burst(name) \in Item /\ Burst(name).burst = name
  /\ \A content \in Seq(Nat) :
       Data(content) \in Item /\ Data(content).burst = "data" /\ Data(content).data = content
  /\ \A q \in Queries \union {NoQuery} :
       Data(Payload(q)) \in Item /\ Data(Payload(q)).burst = "data"
<1>1. <<>> \in Seq(Nat)
  OBVIOUS
<1> QED
  BY <1>1 DEF Burst, Data, Item, BurstNames

LEMMA Prepend ==
  ASSUME NEW a \in Item, NEW rest \in Seq(Item)
  PROVE  Begins(<<a>> \o rest, a, rest)
<1>1. <<a>> \in Seq(Item) /\ Len(<<a>>) = 1 /\ <<a>>[1] = a
  OBVIOUS
<1> DEFINE f == <<a>> \o rest
<1>2. /\ f \in Seq(Item) /\ Len(f) = Len(rest) + 1 /\ Len(rest) \in Nat
      /\ \A i \in 1 .. Len(rest) + 1 : f[i] = IF i <= 1 THEN a ELSE rest[i - 1]
  BY <1>1, ConcatProperties, LenProperties
<1> HIDE DEF f
<1>3. f # <<>>
  BY <1>2
<1>4. /\ Tail(f) \in Seq(Item) /\ Len(Tail(f)) = Len(rest)
      /\ \A i \in 1 .. Len(rest) : Tail(f)[i] = f[i + 1]
  BY <1>2, <1>3, HeadTailProperties
<1>5. \A i \in 1 .. Len(rest) : Tail(f)[i] = rest[i]
  BY <1>2, <1>4
<1>6. Tail(f) = rest
  BY <1>4, <1>5, SeqEqual
<1>7. f[1] = a
  BY <1>2
<1> QED
  BY <1>2, <1>3, <1>6, <1>7 DEF Begins, f

LEMMA Joined ==
  ASSUME NEW p \in Seq(Item), NEW r \in Seq(Item)
  PROVE  /\ p \o r \in Seq(Item) /\ Len(p \o r) = Len(p) + Len(r)
         /\ Len(p) \in Nat /\ Len(r) \in Nat
         /\ \A i \in 1 .. Len(p) : (p \o r)[i] = p[i]
         /\ \A i \in 1 .. Len(r) : (p \o r)[Len(p) + i] = r[i]
<1>1. /\ p \o r \in Seq(Item) /\ Len(p \o r) = Len(p) + Len(r)
      /\ Len(p) \in Nat /\ Len(r) \in Nat
      /\ \A i \in 1 .. Len(p) + Len(r) :
           (p \o r)[i] = IF i <= Len(p) THEN p[i] ELSE r[i - Len(p)]
  BY ConcatProperties, LenProperties
<1> QED
  BY <1>1

\* What follows a burst or a piece of data in a part.
LEMMA Parts ==
  ASSUME sent \in Nat
  PROVE  /\ Closed \in Seq(Item) /\ Begins(Closed, Burst("responseEnd"), <<>>)
         /\ Begins(WarningsEnded, Burst("warningsEnd"), Closed)
         /\ Begins(Warning, Half(3), WarningsEnded)
         /\ Begins(Warnings, Burst("warnings"), Warning)
         /\ Begins(ResultEnded, Burst("stringEnd"), Warnings)
         /\ Begins(SecondHalf, Half(2), ResultEnded)
         /\ \A tail \in Seq(Item) :
              /\ Begins(FromHalf(tail), Half(1), tail)
              /\ Begins(FromString(tail), Burst("string"), FromHalf(tail))
              /\ \A mode : Begins(FromResponse(mode, tail), Burst("response"), FromBody(mode, tail))
<1>1. <<>> \in Seq(Item)
  OBVIOUS
<1>2. /\ Burst("responseEnd") \in Item /\ Burst("warningsEnd") \in Item
      /\ Burst("warnings") \in Item /\ Burst("stringEnd") \in Item
      /\ Burst("string") \in Item /\ Burst("response") \in Item
  BY ItemTypes DEF BurstNames
<1>3. Half(1) \in Item /\ Half(2) \in Item /\ Half(3) \in Item
  <2>1. <<sent, 1>> \in Seq(Nat) /\ <<sent, 2>> \in Seq(Nat) /\ <<sent, 3>> \in Seq(Nat)
    OBVIOUS
  <2> QED
    BY <2>1, ItemTypes DEF Half
<1>4. Begins(Closed, Burst("responseEnd"), <<>>)
  <2>1. Begins(<<Burst("responseEnd")>> \o <<>>, Burst("responseEnd"), <<>>)
    BY <1>1, <1>2, Prepend
  <2>2. <<Burst("responseEnd")>> \in Seq(Item)
    BY <1>2
  <2> QED
    BY <2>1, <2>2, ConcatEmptySeq DEF Closed
<1>5. Begins(WarningsEnded, Burst("warningsEnd"), Closed)
  BY <1>2, <1>4, Prepend DEF WarningsEnded, Begins
<1>6. Begins(Warning, Half(3), WarningsEnded)
  BY <1>3, <1>5, Prepend DEF Warning, Begins
<1>7. Begins(Warnings, Burst("warnings"), Warning)
  BY <1>2, <1>6, Prepend DEF Warnings, Begins
<1>8. Begins(ResultEnded, Burst("stringEnd"), Warnings)
  BY <1>2, <1>7, Prepend DEF ResultEnded, Begins
<1>9. Begins(SecondHalf, Half(2), ResultEnded)
  BY <1>3, <1>8, Prepend DEF SecondHalf, Begins
<1>10. ASSUME NEW tail \in Seq(Item)
       PROVE  /\ Begins(FromHalf(tail), Half(1), tail)
              /\ Begins(FromString(tail), Burst("string"), FromHalf(tail))
              /\ \A mode : Begins(FromResponse(mode, tail), Burst("response"), FromBody(mode, tail))
  <2>1. Begins(FromHalf(tail), Half(1), tail)
    BY <1>3, Prepend DEF FromHalf
  <2>2. Begins(FromString(tail), Burst("string"), FromHalf(tail))
    BY <1>2, <2>1, Prepend DEF FromString, Begins
  <2>3. ASSUME NEW mode
        PROVE  Begins(FromResponse(mode, tail), Burst("response"), FromBody(mode, tail))
    <3>1. FromBody(mode, tail) \in Seq(Item)
      BY <2>2 DEF FromBody, Begins
    <3> QED
      BY <1>2, <3>1, Prepend DEF FromResponse
  <2> QED
    BY <2>1, <2>2, <2>3
<1> QED
  BY <1>4, <1>5, <1>6, <1>7, <1>8, <1>9, <1>10 DEF Begins

LEMMA StringStreams ==
  ASSUME NEW content, Data(content) \in Item
  PROVE  /\ StringStream(content) \in Seq(Item) /\ Len(StringStream(content)) = 3
         /\ StringStream(content)[1] = Burst("string")
         /\ StringStream(content)[2] = Data(content)
         /\ StringStream(content)[3] = Burst("stringEnd")
<1>1. Burst("string") \in Item /\ Burst("stringEnd") \in Item
  BY ItemTypes DEF BurstNames
<1> QED
  BY <1>1 DEF StringStream

\* A frame of a string between two bursts: a command or a query.
LEMMA FramedString ==
  ASSUME NEW content, Data(content) \in Item, NEW a \in Item, NEW b \in Item
  PROVE  LET frame == <<a>> \o StringStream(content) \o <<b>>
         IN  /\ frame \in Seq(Item) /\ Len(frame) = 5
             /\ frame[1] = a /\ frame[2] = Burst("string") /\ frame[3] = Data(content)
             /\ frame[4] = Burst("stringEnd") /\ frame[5] = b
<1> DEFINE s == StringStream(content)
           one == <<a>>
           last == <<b>>
           f == one \o s
           frame == f \o last
<1>1. /\ s \in Seq(Item) /\ Len(s) = 3
      /\ s[1] = Burst("string") /\ s[2] = Data(content) /\ s[3] = Burst("stringEnd")
  BY StringStreams
<1>2. /\ one \in Seq(Item) /\ Len(one) = 1 /\ one[1] = a
      /\ last \in Seq(Item) /\ Len(last) = 1 /\ last[1] = b
  OBVIOUS
<1> HIDE DEF s, one, last
<1>3. /\ f \in Seq(Item) /\ Len(f) = Len(one) + Len(s)
      /\ \A i \in 1 .. Len(one) : f[i] = one[i]
      /\ \A i \in 1 .. Len(s) : f[Len(one) + i] = s[i]
  BY <1>1, <1>2, Joined, Zenon
<1> HIDE DEF f
<1>4. Len(f) = 4 /\ f[1] = a /\ f[2] = s[1] /\ f[3] = s[2] /\ f[4] = s[3]
  BY <1>1, <1>2, <1>3
<1>5. /\ frame \in Seq(Item) /\ Len(frame) = Len(f) + Len(last)
      /\ \A i \in 1 .. Len(f) : frame[i] = f[i]
      /\ \A i \in 1 .. Len(last) : frame[Len(f) + i] = last[i]
  BY <1>2, <1>3, Joined, Zenon
<1> HIDE DEF frame
<1>6. Len(frame) = 5 /\ frame[1] = f[1] /\ frame[2] = f[2] /\ frame[3] = f[3]
      /\ frame[4] = f[4] /\ frame[5] = b
  BY <1>2, <1>4, <1>5
<1>7. frame = <<a>> \o StringStream(content) \o <<b>>
  BY DEF frame, f, s, one, last
<1> QED
  BY <1>1, <1>4, <1>5, <1>6, <1>7

LEMMA QueryFrames ==
  ASSUME NEW q \in Queries \union {NoQuery}
  PROVE  /\ QueryFrame(q) \in Seq(Item) /\ Len(QueryFrame(q)) = 5
         /\ Begins(QueryFrame(q), Burst("query"), Tail(QueryFrame(q)))
         /\ Tail(QueryFrame(q)) \in Seq(Item) /\ Len(Tail(QueryFrame(q))) = 4
<1>1. Data(Payload(q)) \in Item /\ Burst("query") \in Item /\ Burst("queryEnd") \in Item
  BY ItemTypes DEF BurstNames
<1> DEFINE f == QueryFrame(q)
<1>2. f \in Seq(Item) /\ Len(f) = 5 /\ f[1] = Burst("query")
  BY <1>1, FramedString DEF QueryFrame
<1> HIDE DEF f
<1>3. f # <<>>
  BY <1>2, EmptySeq
<1>4. Tail(f) \in Seq(Item) /\ Len(Tail(f)) = 4
  BY <1>2, <1>3, HeadTailProperties
<1> QED
  BY <1>2, <1>3, <1>4 DEF Begins, f

\* The only command burst of a command is its first.
LEMMA CommandFrames ==
  ASSUME NEW n \in Nat
  PROVE  /\ CommandFrame(n) \in Seq(Item) /\ Len(CommandFrame(n)) = 5
         /\ CommandFrame(n)[3].data = <<n>>
         /\ \A i \in 1 .. 5 : CommandFrame(n)[i].burst = "command" <=> i = 1
<1>1. Data(<<n>>) \in Item /\ Data(<<n>>).data = <<n>> /\ Data(<<n>>).burst = "data"
  <2>1. <<n>> \in Seq(Nat)
    OBVIOUS
  <2> QED
    BY <2>1, ItemTypes
<1>2. Burst("command") \in Item /\ Burst("commandEnd") \in Item
  BY ItemTypes DEF BurstNames
<1> DEFINE f == CommandFrame(n)
<1>3. /\ f \in Seq(Item) /\ Len(f) = 5
      /\ f[1] = Burst("command") /\ f[2] = Burst("string") /\ f[3] = Data(<<n>>)
      /\ f[4] = Burst("stringEnd") /\ f[5] = Burst("commandEnd")
  BY <1>1, <1>2, FramedString DEF CommandFrame
<1> HIDE DEF f
<1>4. \A i \in 1 .. 5 : i = 1 \/ i = 2 \/ i = 3 \/ i = 4 \/ i = 5
  OBVIOUS
<1>5. \A i \in 1 .. 5 : f[i].burst = "command" <=> i = 1
  BY <1>1, <1>3, <1>4 DEF Burst
<1> QED
  BY <1>1, <1>3, <1>5 DEF f

LEMMA Exceptions ==
  /\ JavaException \in Seq(Item) /\ Len(JavaException) = 8
  /\ Begins(JavaException, Burst("exception"), Tail(JavaException))
  /\ Tail(JavaException) \in Seq(Item) /\ Len(Tail(JavaException)) = 7
<1> DEFINE s == StringStream(<<0>>)
           one == <<Burst("exception")>>
           last == <<Burst("exceptionEnd")>>
           f == one \o s
           g == f \o s
           h == g \o last
<1>1. s \in Seq(Item) /\ Len(s) = 3
  <2>1. <<0>> \in Seq(Nat)
    OBVIOUS
  <2> QED
    BY <2>1, ItemTypes, StringStreams
<1>2. /\ one \in Seq(Item) /\ Len(one) = 1 /\ one[1] = Burst("exception")
      /\ last \in Seq(Item) /\ Len(last) = 1
  BY ItemTypes DEF BurstNames
<1> HIDE DEF s, one, last
<1>3. f \in Seq(Item) /\ Len(f) = 4 /\ f[1] = one[1]
  <2>1. /\ f \in Seq(Item) /\ Len(f) = Len(one) + Len(s)
        /\ \A i \in 1 .. Len(one) : f[i] = one[i]
    BY <1>1, <1>2, Joined, Zenon
  <2> QED
    BY <1>1, <1>2, <2>1
<1> HIDE DEF f
<1>4. g \in Seq(Item) /\ Len(g) = 7 /\ g[1] = f[1]
  <2>1. /\ g \in Seq(Item) /\ Len(g) = Len(f) + Len(s)
        /\ \A i \in 1 .. Len(f) : g[i] = f[i]
    BY <1>1, <1>3, Joined, Zenon
  <2> QED
    BY <1>1, <1>3, <2>1
<1> HIDE DEF g
<1>5. h \in Seq(Item) /\ Len(h) = 8 /\ h[1] = g[1]
  <2>1. /\ h \in Seq(Item) /\ Len(h) = Len(g) + Len(last)
        /\ \A i \in 1 .. Len(g) : h[i] = g[i]
    BY <1>2, <1>4, Joined, Zenon
  <2> QED
    BY <1>2, <1>4, <2>1
<1>6. JavaException = h
  BY DEF JavaException, h, g, f, s, one, last
<1> HIDE DEF h
<1>7. h # <<>> /\ h[1] = Burst("exception")
  <2>1. h # <<>>
    <3>1. Len(h) # 0
      BY <1>5
    <3> QED
      BY <3>1, EmptySeq, Zenon
  <2>2. h[1] = Burst("exception")
    BY <1>2, <1>3, <1>4, <1>5, Zenon
  <2> QED
    BY <2>1, <2>2
<1>8. Tail(h) \in Seq(Item) /\ Len(Tail(h)) = 7
  BY <1>5, <1>7, HeadTailProperties
<1>9. 8 = 7 + 1
  OBVIOUS
<1> QED
  BY <1>5, <1>6, <1>7, <1>8, <1>9, Zenon DEF Begins

-----------------------------------------------------------------------------
(* What the client sees of a part: its first burst and what it leaves.     *)

Starts(part, name, rest) ==
  part \in Seq(Item) /\ part # <<>> /\ part[1].burst = name /\ Tail(part) = rest /\ rest \in Seq(Item)

LEMMA BeginStarts ==
  ASSUME NEW name \in BurstNames, NEW part, NEW rest \in Seq(Item), Begins(part, Burst(name), rest)
  PROVE  Starts(part, name, rest)
BY ItemTypes DEF Begins, Starts

LEMMA HalfStarts ==
  ASSUME NEW k \in Nat, sent \in Nat, NEW part, NEW rest \in Seq(Item), Begins(part, Half(k), rest)
  PROVE  Starts(part, "data", rest) /\ part[1].data = <<sent, k>>
<1>1. <<sent, k>> \in Seq(Nat)
  OBVIOUS
<1>2. Half(k).burst = "data" /\ Half(k).data = <<sent, k>>
  BY <1>1, ItemTypes DEF Half
<1> QED
  BY <1>2 DEF Begins, Starts

LEMMA Endings ==
  ASSUME sent \in Nat
  PROVE  /\ Starts(Closed, "responseEnd", <<>>)
         /\ Starts(WarningsEnded, "warningsEnd", Closed)
         /\ Starts(Warning, "data", WarningsEnded) /\ Warning[1].data = <<sent, 3>>
         /\ Starts(Warnings, "warnings", Warning)
         /\ Starts(ResultEnded, "stringEnd", Warnings)
         /\ Starts(SecondHalf, "data", ResultEnded) /\ SecondHalf[1].data = <<sent, 2>>
<1>1. /\ "responseEnd" \in BurstNames /\ "warningsEnd" \in BurstNames
      /\ "warnings" \in BurstNames /\ "stringEnd" \in BurstNames
  BY DEF BurstNames
<1>2. /\ Begins(Closed, Burst("responseEnd"), <<>>)
      /\ Begins(WarningsEnded, Burst("warningsEnd"), Closed)
      /\ Begins(Warning, Half(3), WarningsEnded)
      /\ Begins(Warnings, Burst("warnings"), Warning)
      /\ Begins(ResultEnded, Burst("stringEnd"), Warnings)
      /\ Begins(SecondHalf, Half(2), ResultEnded)
  BY Parts
<1>3. /\ <<>> \in Seq(Item) /\ Closed \in Seq(Item) /\ WarningsEnded \in Seq(Item)
      /\ Warning \in Seq(Item) /\ Warnings \in Seq(Item) /\ ResultEnded \in Seq(Item)
  BY <1>2, Zenon, EmptySeq DEF Begins
<1>4. /\ Starts(Closed, "responseEnd", <<>>)
      /\ Starts(WarningsEnded, "warningsEnd", Closed)
      /\ Starts(Warnings, "warnings", Warning)
      /\ Starts(ResultEnded, "stringEnd", Warnings)
  BY <1>1, <1>2, <1>3, BeginStarts, Zenon
<1>5. 2 \in Nat /\ 3 \in Nat
  OBVIOUS
<1>6. Starts(Warning, "data", WarningsEnded) /\ Warning[1].data = <<sent, 3>>
  BY <1>2, <1>3, <1>5, HalfStarts, Zenon
<1>7. Starts(SecondHalf, "data", ResultEnded) /\ SecondHalf[1].data = <<sent, 2>>
  BY <1>2, <1>3, <1>5, HalfStarts, Zenon
<1> QED
  BY <1>4, <1>6, <1>7

LEMMA Beginnings ==
  ASSUME sent \in Nat, NEW tail \in Seq(Item), NEW mode
  PROVE  /\ Starts(FromHalf(tail), "data", tail) /\ FromHalf(tail)[1].data = <<sent, 1>>
         /\ Starts(FromString(tail), "string", FromHalf(tail))
         /\ Starts(FromResponse(mode, tail), "response", FromBody(mode, tail))
<1>1. "response" \in BurstNames /\ "string" \in BurstNames
  BY DEF BurstNames
<1>2. /\ Begins(FromHalf(tail), Half(1), tail)
      /\ Begins(FromString(tail), Burst("string"), FromHalf(tail))
      /\ Begins(FromResponse(mode, tail), Burst("response"), FromBody(mode, tail))
  BY Parts
<1>3. FromHalf(tail) \in Seq(Item) /\ FromString(tail) \in Seq(Item)
  BY <1>2, Zenon DEF Begins
<1>4. FromBody(mode, tail) \in Seq(Item)
  BY <1>3 DEF FromBody
<1>5. Starts(FromHalf(tail), "data", tail) /\ FromHalf(tail)[1].data = <<sent, 1>>
  <2>1. 1 \in Nat
    OBVIOUS
  <2> QED
    BY <1>2, <2>1, HalfStarts, Zenon
<1>6. /\ Starts(FromString(tail), "string", FromHalf(tail))
      /\ Starts(FromResponse(mode, tail), "response", FromBody(mode, tail))
  BY <1>1, <1>2, <1>3, <1>4, BeginStarts, Zenon
<1> QED
  BY <1>5, <1>6

LEMMA Interruptions ==
  /\ \A q \in Queries \union {NoQuery} :
       /\ Starts(QueryFrame(q), "query", Tail(QueryFrame(q)))
       /\ Len(Tail(QueryFrame(q))) = 4
  /\ Starts(JavaException, "exception", Tail(JavaException))
  /\ Len(Tail(JavaException)) = 7
<1>1. "query" \in BurstNames /\ "exception" \in BurstNames
  BY DEF BurstNames
<1>2. ASSUME NEW q \in Queries \union {NoQuery}
      PROVE  /\ Starts(QueryFrame(q), "query", Tail(QueryFrame(q)))
             /\ Len(Tail(QueryFrame(q))) = 4
  BY <1>1, QueryFrames, BeginStarts, Zenon
<1>3. Starts(JavaException, "exception", Tail(JavaException)) /\ Len(Tail(JavaException)) = 7
  BY <1>1, Exceptions, BeginStarts, Zenon
<1> QED
  BY <1>2, <1>3

LEMMA ReadsFirst ==
  ASSUME NEW name, NEW burst, NEW rest, Starts(fromChild, name, rest), Read(burst)
  PROVE  burst = name /\ fromChild' = rest
BY DEF Starts, Read

-----------------------------------------------------------------------------
(* Writing the parts.                                                      *)

LEMMA Prefixed ==
  ASSUME NEW a \in Item, NEW s \in Seq(Item), NEW t \in Seq(Item)
  PROVE  /\ (<<a>> \o s) \o t = <<a>> \o (s \o t)
         /\ <<a>> \o s \in Seq(Item)
<1>1. <<a>> \in Seq(Item)
  OBVIOUS
<1>2. (<<a>> \o s) \o t = <<a>> \o (s \o t)
  BY <1>1, ConcatAssociative
<1>3. <<a>> \o s \in Seq(Item)
  BY <1>1, ConcatProperties
<1> QED
  BY <1>2, <1>3

\* What the child writes next comes after what the client has not read.
LEMMA WrittenAfter ==
  ASSUME sent \in Nat, NEW more \in Seq(Item)
  PROVE  /\ FromHalf(<<>>) \o more = FromHalf(more)
         /\ FromString(<<>>) \o more = FromString(more)
         /\ \A mode : FromBody(mode, <<>>) \o more = FromBody(mode, more)
         /\ \A mode : FromResponse(mode, <<>>) \o more = FromResponse(mode, more)
         /\ FromBody("run", <<>>) \o FromString(more) = FromBody("result", more)
         /\ FromResponse("run", <<>>) \o FromString(more) = FromResponse("result", more)
<1>1. <<>> \in Seq(Item) /\ <<>> \o more = more
  BY EmptySeq, ConcatEmptySeq, Zenon
<1>2. Half(1) \in Item /\ Burst("string") \in Item /\ Burst("response") \in Item
  <2>1. <<sent, 1>> \in Seq(Nat)
    OBVIOUS
  <2>2. Half(1) \in Item
    BY <2>1, ItemTypes DEF Half
  <2> QED
    BY <2>2, ItemTypes DEF BurstNames
<1>3. FromHalf(<<>>) \o more = FromHalf(more) /\ FromHalf(<<>>) \in Seq(Item) /\ FromHalf(more) \in Seq(Item)
  BY <1>1, <1>2, Prefixed DEF FromHalf
<1>4. /\ FromString(<<>>) \o more = FromString(more)
      /\ FromString(<<>>) \in Seq(Item) /\ FromString(more) \in Seq(Item)
  <2>1. (<<Burst("string")>> \o FromHalf(<<>>)) \o more
          = <<Burst("string")>> \o (FromHalf(<<>>) \o more)
    BY <1>2, <1>3, Prefixed, Zenon
  <2>2. FromString(<<>>) \in Seq(Item) /\ FromString(more) \in Seq(Item)
    BY <1>2, <1>3, Prefixed, Zenon DEF FromString
  <2> QED
    BY <1>3, <2>1, <2>2, Zenon DEF FromString
<1>5. ASSUME NEW mode
      PROVE  FromBody(mode, <<>>) \o more = FromBody(mode, more) /\ FromBody(mode, <<>>) \in Seq(Item)
  BY <1>1, <1>4 DEF FromBody
<1>6. ASSUME NEW mode
      PROVE  FromResponse(mode, <<>>) \o more = FromResponse(mode, more)
  <2>1. (<<Burst("response")>> \o FromBody(mode, <<>>)) \o more
          = <<Burst("response")>> \o (FromBody(mode, <<>>) \o more)
    BY <1>2, <1>5, Prefixed, Zenon
  <2> QED
    BY <1>5, <2>1, Zenon DEF FromResponse
<1>7. FromBody("run", <<>>) \o FromString(more) = FromBody("result", more)
  <2>1. <<>> \o FromString(more) = FromString(more)
    BY <1>4, ConcatEmptySeq, Zenon
  <2> QED
    BY <2>1 DEF FromBody
<1>8. FromResponse("run", <<>>) \o FromString(more) = FromResponse("result", more)
  <2> DEFINE body == FromBody("run", <<>>)
             text == FromString(more)
             first == Burst("response")
  <2>1. body \in Seq(Item) /\ text \in Seq(Item) /\ first \in Item
    BY <1>2, <1>4, <1>5
  <2> HIDE DEF body, text, first
  <2>2. (<<first>> \o body) \o text = <<first>> \o (body \o text)
    BY <2>1, Prefixed
  <2> USE DEF body, text, first
  <2> QED
    BY <1>7, <2>2, Zenon DEF FromResponse
<1> QED
  BY <1>3, <1>4, <1>5, <1>6, <1>7, <1>8

LEMMA Listed ==
  ASSUME NEW a \in Item, NEW s \in Seq(Item), NEW t \in Seq(Item),
         Len(t) = Len(s) + 1, t[1] = a, \A i \in 1 .. Len(s) : t[i + 1] = s[i]
  PROVE  <<a>> \o s = t
<1> DEFINE c == <<a>> \o s
<1>1. <<a>> \in Seq(Item) /\ Len(<<a>>) = 1 /\ <<a>>[1] = a
  OBVIOUS
<1>2. /\ c \in Seq(Item) /\ Len(c) = Len(s) + 1 /\ Len(s) \in Nat
      /\ \A i \in 1 .. Len(s) + 1 : c[i] = IF i <= 1 THEN a ELSE s[i - 1]
  BY <1>1, ConcatProperties, LenProperties
<1> HIDE DEF c
<1>3. ASSUME NEW i \in 1 .. Len(c)
      PROVE  c[i] = t[i]
  <2>1. CASE i = 1
    BY <1>2, <2>1
  <2>2. CASE i # 1
    <3>1. i - 1 \in 1 .. Len(s) /\ (i - 1) + 1 = i
      BY <1>2, <2>2
    <3>2. t[(i - 1) + 1] = s[i - 1]
      BY <3>1
    <3> QED
      BY <1>2, <2>2, <3>1, <3>2
  <2> QED
    BY <2>1, <2>2
<1>4. c = t
  BY <1>2, <1>3, SeqEqual
<1> QED
  BY <1>4 DEF c

FourItems(a, b, c, d) == <<a, b, c, d>>
OneByOne(a, b, c, d) == <<a>> \o (<<b>> \o (<<c>> \o <<d>>))

LEMMA Tuples ==
  ASSUME NEW a \in Item, NEW b \in Item, NEW c \in Item, NEW d \in Item
  PROVE  /\ <<a, b>> = <<a>> \o <<b>>
         /\ FourItems(a, b, c, d) = OneByOne(a, b, c, d)
<1>1. <<a>> \o <<b>> = <<a, b>>
  <2> DEFINE s == <<b>>
             t == <<a, b>>
  <2>1. \A i \in 1 .. 1 : i = 1
    OBVIOUS
  <2>2. s \in Seq(Item) /\ t \in Seq(Item) /\ Len(t) = Len(s) + 1 /\ t[1] = a
    OBVIOUS
  <2>3. \A i \in 1 .. Len(s) : t[i + 1] = s[i]
    BY <2>1
  <2> HIDE DEF s, t
  <2>4. <<a>> \o s = t
    BY <2>2, <2>3, Listed
  <2> QED
    BY <2>4 DEF s, t
<1>2. <<c>> \o <<d>> = <<c, d>>
  <2> DEFINE s == <<d>>
             t == <<c, d>>
  <2>1. \A i \in 1 .. 1 : i = 1
    OBVIOUS
  <2>2. s \in Seq(Item) /\ t \in Seq(Item) /\ Len(t) = Len(s) + 1 /\ t[1] = c
    OBVIOUS
  <2>3. \A i \in 1 .. Len(s) : t[i + 1] = s[i]
    BY <2>1
  <2> HIDE DEF s, t
  <2>4. <<c>> \o s = t
    BY <2>2, <2>3, Listed
  <2> QED
    BY <2>4 DEF s, t
<1>3. <<b>> \o <<c, d>> = <<b, c, d>>
  <2> DEFINE s == <<c, d>>
             t == <<b, c, d>>
  <2>1. \A i \in 1 .. 2 : i = 1 \/ i = 2
    OBVIOUS
  <2>2. s \in Seq(Item) /\ t \in Seq(Item) /\ Len(t) = Len(s) + 1 /\ t[1] = b
    OBVIOUS
  <2>3. \A i \in 1 .. Len(s) : t[i + 1] = s[i]
    BY <2>1
  <2> HIDE DEF s, t
  <2>4. <<b>> \o s = t
    BY <2>2, <2>3, Listed
  <2> QED
    BY <2>4 DEF s, t
<1>4. <<a>> \o <<b, c, d>> = <<a, b, c, d>>
  <2> DEFINE s == <<b, c, d>>
             t == <<a, b, c, d>>
  <2>1. \A i \in 1 .. 3 : i = 1 \/ i = 2 \/ i = 3
    OBVIOUS
  <2>2. s \in Seq(Item) /\ t \in Seq(Item) /\ Len(t) = Len(s) + 1 /\ t[1] = a
    OBVIOUS
  <2>3. \A i \in 1 .. Len(s) : t[i + 1] = s[i]
    BY <2>1
  <2> HIDE DEF s, t
  <2>4. <<a>> \o s = t
    BY <2>2, <2>3, Listed
  <2> QED
    BY <2>4 DEF s, t
<1> QED
  BY <1>1, <1>2, <1>3, <1>4, Zenon DEF FourItems, OneByOne

LEMMA FourTuples ==
  ASSUME NEW a \in Item, NEW b \in Item, NEW c \in Item, NEW d \in Item
  PROVE  FourItems(a, b, c, d) = OneByOne(a, b, c, d)
BY Tuples, Zenon

\* The frames the child writes are parts of the response.
LEMMA ChildFrames ==
  ASSUME sent \in Nat, child.command = sent
  PROVE  /\ WarningFrame = Warnings
         /\ <<Data(<<child.command, 2>>), Burst("stringEnd")>> \o WarningFrame = SecondHalf
         /\ <<Burst("string"), Data(<<child.command, 1>>)>> = FromString(<<>>)
         /\ <<Burst("response")>> = FromResponse("run", <<>>)
<1> DEFINE e == Burst("stringEnd")
           w == Burst("warnings")
           we == Burst("warningsEnd")
           re == Burst("responseEnd")
           st == Burst("string")
           rs == Burst("response")
<1>1. e \in Item /\ w \in Item /\ we \in Item /\ re \in Item /\ st \in Item /\ rs \in Item
  BY ItemTypes DEF BurstNames
<1>2. /\ Data(<<child.command, 1>>) = Half(1)
      /\ Data(<<child.command, 2>>) = Half(2)
      /\ Data(<<child.command, 3>>) = Half(3)
  BY DEF Half
<1>3. Half(1) \in Item /\ Half(2) \in Item /\ Half(3) \in Item
  <2>1. <<sent, 1>> \in Seq(Nat) /\ <<sent, 2>> \in Seq(Nat) /\ <<sent, 3>> \in Seq(Nat)
    OBVIOUS
  <2> QED
    BY <2>1, ItemTypes DEF Half
<1>4. WarningFrame = <<w, Half(3), we, re>>
  BY <1>2, Zenon DEF WarningFrame
<1>5. Warnings = <<w>> \o (<<Half(3)>> \o (<<we>> \o <<re>>))
  BY DEF Warnings, Warning, WarningsEnded, Closed
<1>6. SecondHalf = <<Half(2)>> \o (<<e>> \o Warnings)
  BY DEF SecondHalf, ResultEnded
<1>7. FromString(<<>>) = <<st>> \o (<<Half(1)>> \o <<>>)
  BY DEF FromString, FromHalf
<1>8. FromResponse("run", <<>>) = <<rs>> \o <<>>
  BY DEF FromResponse, FromBody
<1>9. Warnings \in Seq(Item)
  BY Parts, Zenon DEF Begins
<1> HIDE DEF e, w, we, re, st, rs
<1>10. WarningFrame = Warnings
  <2> DEFINE h == Half(3)
  <2>1. h \in Item
    BY <1>3
  <2> HIDE DEF h
  <2>2. <<w, h, we, re>> = <<w>> \o (<<h>> \o (<<we>> \o <<re>>))
    <3>1. FourItems(w, h, we, re) = OneByOne(w, h, we, re)
      <4>1. \A p2, p3, p4 \in Item : FourItems(w, p2, p3, p4) = OneByOne(w, p2, p3, p4)
        BY <1>1, FourTuples, Zenon
      <4>2. \A p3, p4 \in Item : FourItems(w, h, p3, p4) = OneByOne(w, h, p3, p4)
        BY <2>1, <4>1, Zenon
      <4>3. \A p4 \in Item : FourItems(w, h, we, p4) = OneByOne(w, h, we, p4)
        BY <1>1, <4>2, Zenon
      <4> QED
        BY <1>1, <4>3, Zenon
    <3> QED
      BY <3>1, Zenon DEF FourItems, OneByOne
  <2> QED
    BY <1>4, <1>5, <2>2, Zenon DEF h
<1>11. <<Half(2), e>> \o Warnings = SecondHalf
  <2>1. <<Half(2), e>> = <<Half(2)>> \o <<e>> /\ <<e>> \in Seq(Item)
    BY <1>1, <1>3, Tuples
  <2>2. (<<Half(2)>> \o <<e>>) \o Warnings = <<Half(2)>> \o (<<e>> \o Warnings)
    BY <1>3, <1>9, <2>1, Prefixed
  <2> QED
    BY <1>6, <2>1, <2>2
<1>12. <<st, Half(1)>> = FromString(<<>>)
  <2>1. <<Half(1)>> \o <<>> = <<Half(1)>>
    BY <1>3
  <2> QED
    BY <1>1, <1>3, <1>7, <2>1, Tuples
<1>13. <<rs>> = FromResponse("run", <<>>)
  BY <1>1, <1>8
<1> QED
  BY <1>2, <1>10, <1>11, <1>12, <1>13, Zenon DEF e, st, rs

\* The parts change only with the number of the command.
LEMMA PartsStay ==
  ASSUME sent' = sent
  PROVE  /\ Closed' = Closed /\ WarningsEnded' = WarningsEnded /\ Warning' = Warning
         /\ Warnings' = Warnings /\ ResultEnded' = ResultEnded /\ SecondHalf' = SecondHalf
         /\ \A tail : FromHalf(tail)' = FromHalf(tail) /\ FromString(tail)' = FromString(tail)
         /\ \A mode, tail : FromBody(mode, tail)' = FromBody(mode, tail)
         /\ \A mode, tail : FromResponse(mode, tail)' = FromResponse(mode, tail)
BY Zenon DEF Closed, WarningsEnded, Warning, Warnings, ResultEnded, SecondHalf, FromHalf,
       FromString, FromBody, FromResponse, Half

-----------------------------------------------------------------------------
(* The steps of the child.                                                 *)

LEMMA FirstCommand ==
  ASSUME sent \in Nat, toChild = CommandFrame(sent), ReadCommand
  PROVE  /\ toChild' = <<>> /\ fromChild' = fromChild \o <<Burst("response")>>
         /\ child' = [child EXCEPT !.pc = "run", !.asked = 0, !.command = sent]
         /\ UNCHANGED <<stdin, client, sent, results>>
<1> DEFINE begins == {i \in DOMAIN toChild : toChild[i].burst = "command"}
           i == CHOOSE j \in begins : \A k \in begins : j <= k
<1>1. /\ toChild \in Seq(Item) /\ Len(toChild) = 5 /\ toChild[3].data = <<sent>>
      /\ \A j \in 1 .. 5 : toChild[j].burst = "command" <=> j = 1
  BY CommandFrames
<1>2. begins = {1}
  <2>1. DOMAIN toChild = 1 .. 5
    BY <1>1, LenProperties
  <2> QED
    BY <1>1, <2>1
<1>3. i = 1
  BY <1>2
<1> HIDE DEF i
<1>4. SubSeq(toChild, i + 5, Len(toChild)) = <<>>
  <2>1. i + 5 = 6
    BY <1>3
  <2>2. SubSeq(toChild, 6, 5) = <<>>
    BY <1>1, SubSeqProperties, EmptySeq
  <2> QED
    BY <1>1, <2>1, <2>2
<1>5. toChild[i + 2].data[1] = sent
  <2>1. i + 2 = 3 /\ <<sent>>[1] = sent
    BY <1>3
  <2> QED
    BY <1>1, <2>1
<1>6. begins # {} /\ ~(begins = {})
  BY <1>2
<1>7. /\ \/ begins = {} /\ toChild' = <<>> /\ UNCHANGED <<fromChild, child>>
         \/ /\ begins # {}
            /\ toChild' = SubSeq(toChild, i + 5, Len(toChild))
            /\ child' = [child EXCEPT !.pc = "run", !.asked = 0,
                                      !.command = toChild[i + 2].data[1]]
            /\ Write(<<Burst("response")>>)
      /\ UNCHANGED <<stdin, client, sent, results>>
  BY Zenon DEF ReadCommand, i
<1> HIDE DEF begins
<1> QED
  BY <1>4, <1>5, <1>6, <1>7, Zenon DEF Write

\* The child computes, or has an answer to read.
LEMMA Computing ==
  ASSUME ProtocolInv, client.pc \in Reading, child.pc \in {"run", "result"}
  PROVE  child.command = sent /\ toChild = <<>> /\ Follows(child.pc, <<>>)
<1>1. child.command = sent /\ Following
  BY DEF ProtocolInv, Sync, Sending, Querying, Over, Exited
<1>2. PICK mode \in {"run", "result"},
           tail \in {<<>>, QueryFrame(child.query), Warnings, JavaException, SecondHalf} :
             Writes(mode, tail) /\ Follows(mode, tail)
  BY <1>1, Zenon DEF Following
<1>3. tail = <<>> /\ child.pc = mode /\ toChild = <<>>
  BY <1>2 DEF Writes, Over, Exited
<1> QED
  BY <1>1, <1>2, <1>3, Zenon

LEMMA Awaiting ==
  ASSUME ProtocolInv, client.pc \in Reading, child.pc = "await", toChild # <<>>
  PROVE  child.command = sent /\ Follows(child.back, <<>>)
<1>1. child.command = sent /\ Following
  BY DEF ProtocolInv, Sync, Sending, Querying, Over, Exited
<1>2. PICK mode \in {"run", "result"},
           tail \in {<<>>, QueryFrame(child.query), Warnings, JavaException, SecondHalf} :
             Writes(mode, tail) /\ Follows(mode, tail)
  BY <1>1, Zenon DEF Following
<1>3. tail = <<>> /\ child.back = mode
  BY <1>2 DEF Writes, Over, Exited
<1> QED
  BY <1>1, <1>2, <1>3, Zenon

\* A child that reads, or has gone, leaves the client where it is.
LEMMA FollowsMore ==
  ASSUME sent \in Nat, NEW mode, NEW more \in Seq(Item), Follows(mode, <<>>),
         fromChild' = fromChild \o more, UNCHANGED <<client, sent>>
  PROVE  Follows(mode, more)'
<1>1. /\ FromHalf(more)' = FromHalf(more)
      /\ FromBody(mode, more)' = FromBody(mode, more)
      /\ FromResponse(mode, more)' = FromResponse(mode, more)
  BY PartsStay, Zenon
<1>2. /\ FromHalf(<<>>) \o more = FromHalf(more)
      /\ FromBody(mode, <<>>) \o more = FromBody(mode, more)
      /\ FromResponse(mode, <<>>) \o more = FromResponse(mode, more)
      /\ <<>> \o more = more
  BY WrittenAfter, ConcatEmptySeq, Zenon
<1> QED
  BY <1>1, <1>2, Zenon DEF Follows

LEMMA OpensAfter ==
  ASSUME sent \in Nat, Follows("run", <<>>),
         fromChild' = fromChild \o FromString(<<>>), UNCHANGED <<client, sent>>
  PROVE  Follows("result", <<>>)'
<1>1. /\ FromBody("result", <<>>)' = FromBody("result", <<>>)
      /\ FromResponse("result", <<>>)' = FromResponse("result", <<>>)
  BY PartsStay, Zenon
<1>2. /\ FromBody("run", <<>>) \o FromString(<<>>) = FromBody("result", <<>>)
      /\ FromResponse("run", <<>>) \o FromString(<<>>) = FromResponse("result", <<>>)
  BY EmptySeq, WrittenAfter, Zenon
<1>3. "run" # "result"
  OBVIOUS
<1>4. /\ client.pc = "loop" => client.text = <<>>
      /\ \/ client.pc = "loop" /\ ~client.inResponse /\ fromChild = FromResponse("run", <<>>)
         \/ client.pc = "loop" /\ client.inResponse /\ fromChild = FromBody("run", <<>>)
  BY <1>3, Zenon DEF Follows
<1> QED
  BY <1>1, <1>2, <1>4, Zenon DEF Follows

\* The client is reading the response of the command in progress.
LEMMA StillFollows ==
  ASSUME client.pc' \in Reading, child.command' = sent', NEW mode \in {"run", "result"}, NEW tail,
         tail \in {<<>>, QueryFrame(child.query), Warnings, JavaException, SecondHalf}',
         Writes(mode, tail)', Follows(mode, tail)'
  PROVE  Sync'
<1>1. Following'
  BY Zenon DEF Following
<1>2. client'.pc # "idle"
  BY DEF Reading
<1> QED
  BY <1>1, <1>2, Zenon DEF Sync

LEMMA ChildKeeps ==
  ASSUME ProtocolInv, UNCHANGED <<client, sent, results>>, Sync',
         child' \in [pc : ChildPcs, back : {"run", "result"},
                     query : Queries \union {NoQuery}, asked : Nat, command : Nat]
  PROVE  ProtocolInv'
<1>1. TypeOK'
  BY DEF ProtocolInv, TypeOK
<1>2. Owned'
  BY Zenon DEF ProtocolInv, Owned, ResultsAreOwn
<1> QED
  BY <1>1, <1>2 DEF ProtocolInv

\* The response is over: more ends it.
LEMMA ChildEnds ==
  ASSUME ProtocolInv, client.pc \in Reading, NEW mode \in {"run", "result"}, Follows(mode, <<>>),
         NEW more \in {Warnings, JavaException, SecondHalf}, more = SecondHalf => mode = "result",
         fromChild' = fromChild \o more, child'.pc = "ready", child'.command = sent,
         toChild' = <<>>, UNCHANGED <<client, sent, results>>
  PROVE  Sync'
<1>1. sent \in Nat
  BY DEF ProtocolInv, TypeOK
<1>2. more \in Seq(Item)
  <2>1. Warnings \in Seq(Item) /\ SecondHalf \in Seq(Item) /\ JavaException \in Seq(Item)
    BY <1>1, Endings, Interruptions, Zenon DEF Starts
  <2> QED
    BY <2>1
<1>3. Follows(mode, more)'
  BY <1>1, <1>2, FollowsMore, Zenon
<1>4. Over'
  BY Zenon DEF Over
<1>5. Warnings' = Warnings /\ SecondHalf' = SecondHalf
  BY PartsStay, Zenon
<1>6. JavaException' = JavaException
  BY Zenon DEF JavaException
<1>7. Writes(mode, more)'
  BY <1>4, <1>5, <1>6, Zenon DEF Writes
<1>8. more \in {<<>>, QueryFrame(child.query), Warnings, JavaException, SecondHalf}'
  BY <1>5, <1>6, Zenon
<1> QED
  BY <1>3, <1>7, <1>8, StillFollows, Zenon

LEMMA ReadCommandStep ==
  ASSUME ProtocolInv, ReadCommand
  PROVE  ProtocolInv'
<1>1. child.pc = "ready" /\ toChild # <<>>
  BY Zenon DEF ReadCommand
<1>2. client.pc \in Reading
  BY <1>1 DEF ProtocolInv, Sync
<1>3. Sending
  <2>1. ~Querying /\ ~Over
    BY <1>1, Zenon DEF Querying, Over, Exited
  <2>2. ASSUME NEW mode \in {"run", "result"}, NEW tail
        PROVE  ~Writes(mode, tail)
    BY <1>1, <2>1 DEF Writes, Exited
  <2>3. ~Following
    BY <2>2, Zenon DEF Following
  <2> QED
    BY <1>2, <2>1, <2>3, Zenon DEF ProtocolInv, Sync
<1>4. sent \in Nat /\ toChild = CommandFrame(sent) /\ fromChild = <<>>
  BY <1>1, <1>3, Zenon DEF ProtocolInv, TypeOK, Sending, Exited
<1>5. /\ toChild' = <<>> /\ fromChild' = fromChild \o <<Burst("response")>>
      /\ child' = [child EXCEPT !.pc = "run", !.asked = 0, !.command = sent]
      /\ UNCHANGED <<stdin, client, sent, results>>
  BY <1>4, FirstCommand, Zenon
<1>6. child' \in [pc : ChildPcs, back : {"run", "result"},
                  query : Queries \union {NoQuery}, asked : Nat, command : Nat]
  BY <1>4, <1>5 DEF ProtocolInv, TypeOK, ChildPcs
<1>7. child'.pc = "run" /\ child'.command = sent
  BY <1>5 DEF ProtocolInv, TypeOK
<1>8. Writes("run", <<>>)'
  BY <1>5, <1>7, Zenon DEF Writes
<1>9. Follows("run", <<>>)'
  <2>1. Burst("response") \in Item
    BY ItemTypes DEF BurstNames
  <2>2. <<Burst("response")>> = FromResponse("run", <<>>)
    <3> DEFINE one == Burst("response")
    <3>1. <<one>> \in Seq(Item)
      BY <2>1
    <3> HIDE DEF one
    <3>2. <<one>> \o <<>> = <<one>>
      BY <3>1, ConcatEmptySeq
    <3> QED
      BY <3>2 DEF FromResponse, FromBody, one
  <2>3. fromChild' = FromResponse("run", <<>>)
    <3>1. <<Burst("response")>> \in Seq(Item)
      BY <2>1
    <3> QED
      BY <1>4, <1>5, <2>2, <3>1, ConcatEmptySeq
  <2>4. FromResponse("run", <<>>)' = FromResponse("run", <<>>)
    BY <1>5, PartsStay, Zenon
  <2> QED
    BY <1>3, <1>5, <2>3, <2>4, Zenon DEF Sending, Follows
<1>10. Sync'
  BY <1>2, <1>5, <1>7, <1>8, <1>9, StillFollows, Zenon
<1> QED
  BY <1>5, <1>6, <1>10, ChildKeeps, Zenon

LEMMA AskStep ==
  ASSUME ProtocolInv, NEW q \in Queries, Ask(q)
  PROVE  ProtocolInv'
<1>1. /\ child.pc \in {"run", "result"}
      /\ child' = [child EXCEPT !.pc = "await", !.back = child.pc, !.query = q, !.asked = @ + 1]
      /\ fromChild' = fromChild \o QueryFrame(q)
      /\ UNCHANGED <<toChild, client, sent, results>>
  BY Zenon DEF Ask, Write
<1>2. /\ child'.pc = "await" /\ child'.back = child.pc /\ child'.query = q
      /\ child'.command = child.command
      /\ child' \in [pc : ChildPcs, back : {"run", "result"},
                     query : Queries \union {NoQuery}, asked : Nat, command : Nat]
  <2> DEFINE queries == Queries \union {NoQuery}
             Child == [pc : ChildPcs, back : {"run", "result"}, query : queries,
                       asked : Nat, command : Nat]
  <2>1. child \in Child /\ q \in queries
    BY DEF ProtocolInv, TypeOK
  <2> HIDE DEF queries
  <2>2. PICK n \in Nat, b \in {"run", "result"} :
          child' = [child EXCEPT !.pc = "await", !.back = b, !.query = q, !.asked = n]
    <3>1. child.asked + 1 \in Nat
      BY <2>1
    <3> QED
      BY <1>1, <3>1, Zenon
  <2>3. b = child.pc
    <3>1. child'.back = b /\ child'.back = child.pc
      BY <1>1, <2>1, <2>2
    <3> QED
      BY <3>1
  <2>4. /\ child'.pc = "await" /\ child'.back = b /\ child'.query = q
        /\ child'.command = child.command
    BY <2>1, <2>2
  <2>5. child' \in Child
    BY <2>1, <2>2 DEF ChildPcs
  <2> QED
    BY <2>3, <2>4, <2>5, Zenon DEF queries
<1>3. CASE client.pc \notin Reading
  <2>1. Sync'
    BY <1>1, <1>2, <1>3 DEF ProtocolInv, Sync, Exited
  <2> QED
    BY <1>1, <1>2, <2>1, ChildKeeps, Zenon
<1>4. CASE client.pc \in Reading
  <2>1. child.command = sent /\ toChild = <<>> /\ Follows(child.pc, <<>>)
    BY <1>1, <1>4, Computing, Zenon
  <2>2. PICK mode \in {"run", "result"} : mode = child.pc
    BY <1>1, Zenon
  <2>3. sent \in Nat /\ QueryFrame(q) \in Seq(Item)
    BY QueryFrames, Zenon DEF ProtocolInv, TypeOK
  <2>4. Follows(mode, QueryFrame(q))'
    BY <1>1, <2>1, <2>2, <2>3, FollowsMore, Zenon
  <2>5. QueryFrame(child.query)' = QueryFrame(q)
    BY <1>2, Zenon
  <2>6. Writes(mode, QueryFrame(q))'
    BY <1>1, <1>2, <2>1, <2>2, <2>5, Zenon DEF Writes
  <2>7. Sync'
    BY <1>1, <1>2, <1>4, <2>1, <2>4, <2>5, <2>6, StillFollows, Zenon
  <2> QED
    BY <1>1, <1>2, <2>7, ChildKeeps, Zenon
<1> QED
  BY <1>3, <1>4

LEMMA OpenResultStep ==
  ASSUME ProtocolInv, OpenResult
  PROVE  ProtocolInv'
<1>1. /\ child.pc = "run" /\ child' = [child EXCEPT !.pc = "result"]
      /\ fromChild' = fromChild \o <<Burst("string"), Data(<<child.command, 1>>)>>
      /\ UNCHANGED <<toChild, client, sent, results>>
  BY Zenon DEF OpenResult, Write, ToPc
<1>2. /\ child'.pc = "result" /\ child'.command = child.command
      /\ child' \in [pc : ChildPcs, back : {"run", "result"},
                     query : Queries \union {NoQuery}, asked : Nat, command : Nat]
  BY <1>1 DEF ProtocolInv, TypeOK, ChildPcs
<1>3. CASE client.pc \notin Reading
  <2>1. Sync'
    BY <1>1, <1>2, <1>3 DEF ProtocolInv, Sync, Exited
  <2> QED
    BY <1>1, <1>2, <2>1, ChildKeeps, Zenon
<1>4. CASE client.pc \in Reading
  <2>1. child.command = sent /\ toChild = <<>> /\ Follows("run", <<>>) /\ sent \in Nat
    BY <1>1, <1>4, Computing DEF ProtocolInv, TypeOK
  <2>2. fromChild' = fromChild \o FromString(<<>>)
    BY <1>1, <2>1, ChildFrames, Zenon
  <2>3. Follows("result", <<>>)'
    BY <1>1, <2>1, <2>2, OpensAfter, Zenon
  <2>4. Writes("result", <<>>)'
    BY <1>1, <1>2, <2>1, Zenon DEF Writes
  <2>5. Sync'
    BY <1>1, <1>2, <1>4, <2>1, <2>3, <2>4, StillFollows, Zenon
  <2> QED
    BY <1>1, <1>2, <2>5, ChildKeeps, Zenon
<1> QED
  BY <1>3, <1>4

LEMMA CloseResultStep ==
  ASSUME ProtocolInv, CloseResult
  PROVE  ProtocolInv'
<1>1. /\ child.pc = "result" /\ child' = [child EXCEPT !.pc = "ready"]
      /\ fromChild' = fromChild \o (<<Data(<<child.command, 2>>), Burst("stringEnd")>> \o WarningFrame)
      /\ UNCHANGED <<toChild, client, sent, results>>
  BY Zenon DEF CloseResult, Write, ToPc
<1>2. /\ child'.pc = "ready" /\ child'.command = child.command
      /\ child' \in [pc : ChildPcs, back : {"run", "result"},
                     query : Queries \union {NoQuery}, asked : Nat, command : Nat]
  BY <1>1 DEF ProtocolInv, TypeOK, ChildPcs
<1>3. CASE client.pc \notin Reading
  <2>1. Sync'
    BY <1>1, <1>2, <1>3 DEF ProtocolInv, Sync, Exited
  <2> QED
    BY <1>1, <1>2, <2>1, ChildKeeps, Zenon
<1>4. CASE client.pc \in Reading
  <2>1. child.command = sent /\ toChild = <<>> /\ Follows("result", <<>>) /\ sent \in Nat
    BY <1>1, <1>4, Computing DEF ProtocolInv, TypeOK
  <2>2. fromChild' = fromChild \o SecondHalf
    BY <1>1, <2>1, ChildFrames, Zenon
  <2>3. PICK more \in {Warnings, JavaException, SecondHalf} : more = SecondHalf
    BY Zenon
  <2>4. Sync'
    BY <1>1, <1>2, <1>4, <2>1, <2>2, <2>3, ChildEnds, Zenon
  <2> QED
    BY <1>1, <1>2, <2>4, ChildKeeps, Zenon
<1> QED
  BY <1>3, <1>4

\* The child gives up its response, from either half of it.
LEMMA GivesUp ==
  ASSUME ProtocolInv, client.pc \in Reading, NEW mode \in {"run", "result"}, Follows(mode, <<>>),
         child.command = sent, child' = [child EXCEPT !.pc = "ready"], toChild' = <<>>,
         Write(WarningFrame) \/ Write(JavaException), UNCHANGED <<client, sent, results>>
  PROVE  Sync'
<1>1. child'.pc = "ready" /\ child'.command = sent /\ sent \in Nat
  BY DEF ProtocolInv, TypeOK
<1>2. WarningFrame = Warnings
  BY <1>1, ChildFrames, Zenon
<1>3. PICK more \in {Warnings, JavaException} : fromChild' = fromChild \o more
  BY <1>2, Zenon DEF Write
<1>4. more \in {Warnings, JavaException, SecondHalf} /\ (more = SecondHalf => mode = "result")
  <2>1. sent \in Nat
    BY <1>1
  <2>2. /\ Warnings[1].burst = "warnings" /\ JavaException[1].burst = "exception"
        /\ SecondHalf[1].burst = "data"
    BY <2>1, Endings, Interruptions, Zenon DEF Starts
  <2>3. "warnings" # "data" /\ "exception" # "data"
    OBVIOUS
  <2>4. more # SecondHalf
    BY <2>2, <2>3, Zenon
  <2> QED
    BY <2>4, Zenon
<1> QED
  BY <1>1, <1>3, <1>4, ChildEnds, Zenon

LEMMA ThrowsStep ==
  ASSUME ProtocolInv, Throws
  PROVE  ProtocolInv'
<1>1. /\ child.pc \in {"run", "result"} /\ child' = [child EXCEPT !.pc = "ready"]
      /\ Write(WarningFrame) \/ Write(JavaException)
      /\ UNCHANGED <<toChild, client, sent, results>>
  BY Zenon DEF Throws, ToPc
<1>2. /\ child'.pc = "ready" /\ child'.command = child.command
      /\ child' \in [pc : ChildPcs, back : {"run", "result"},
                     query : Queries \union {NoQuery}, asked : Nat, command : Nat]
  BY <1>1 DEF ProtocolInv, TypeOK, ChildPcs
<1>3. CASE client.pc \notin Reading
  <2>1. Sync'
    BY <1>1, <1>2, <1>3 DEF ProtocolInv, Sync, Exited
  <2> QED
    BY <1>1, <1>2, <2>1, ChildKeeps, Zenon
<1>4. CASE client.pc \in Reading
  <2>1. child.command = sent /\ toChild = <<>> /\ Follows(child.pc, <<>>)
    BY <1>1, <1>4, Computing, Zenon
  <2>2. PICK mode \in {"run", "result"} : mode = child.pc
    BY <1>1, Zenon
  <2>3. Sync'
    BY <1>1, <1>4, <2>1, <2>2, GivesUp, Zenon
  <2> QED
    BY <1>1, <1>2, <2>3, ChildKeeps, Zenon
<1> QED
  BY <1>3, <1>4

LEMMA TakeAnswerStep ==
  ASSUME ProtocolInv, TakeAnswer
  PROVE  ProtocolInv'
<1>1. /\ child.pc = "await" /\ toChild # <<>> /\ toChild' = <<>>
      /\ UNCHANGED <<client, sent, results>>
  BY Zenon DEF TakeAnswer
<1>2. \/ child' = [child EXCEPT !.pc = child.back] /\ UNCHANGED fromChild
      \/ child' = [child EXCEPT !.pc = "starved"] /\ UNCHANGED fromChild
      \/ /\ child' = [child EXCEPT !.pc = "ready"]
         /\ Write(WarningFrame) \/ Write(JavaException)
  BY Zenon DEF TakeAnswer, ToPc
<1>3. /\ child' \in [pc : ChildPcs, back : {"run", "result"},
                     query : Queries \union {NoQuery}, asked : Nat, command : Nat]
      /\ child'.command = child.command /\ child'.back = child.back
      /\ child'.query = child.query /\ child.back \in {"run", "result"}
  BY <1>2 DEF ProtocolInv, TypeOK, ChildPcs
<1>4. CASE client.pc \notin Reading
  <2>1. client.pc # "idle"
    BY <1>1 DEF ProtocolInv, Sync, Exited
  <2>2. Sync'
    BY <1>1, <1>4, <2>1, Zenon DEF Sync
  <2> QED
    BY <1>1, <1>3, <2>2, ChildKeeps, Zenon
<1>5. CASE client.pc \in Reading
  <2>1. child.command = sent /\ Follows(child.back, <<>>)
    BY <1>1, <1>5, Awaiting, Zenon
  <2>2. PICK mode \in {"run", "result"} : mode = child.back
    BY <1>3, Zenon
  <2>3. ASSUME child'.pc \in {mode, "starved"}, UNCHANGED fromChild
        PROVE  Sync'
    <3>1. Writes(mode, <<>>)'
      BY <1>1, <2>3 DEF Writes
    <3>2. UNCHANGED <<client, fromChild, sent>>
      BY <1>1, <2>3, Zenon
    <3>3. /\ FromHalf(<<>>)' = FromHalf(<<>>)
          /\ FromBody(mode, <<>>)' = FromBody(mode, <<>>)
          /\ FromResponse(mode, <<>>)' = FromResponse(mode, <<>>)
      BY <3>2, PartsStay, Zenon
    <3>4. Follows(mode, <<>>)'
      BY <2>1, <2>2, <3>2, <3>3, Zenon DEF Follows
    <3> QED
      BY <1>1, <1>3, <1>5, <2>1, <3>1, <3>4, StillFollows, Zenon
  <2>4. Sync'
    <3>1. CASE child' = [child EXCEPT !.pc = child.back] /\ UNCHANGED fromChild
      <4>1. child'.pc = mode
        BY <2>2, <3>1 DEF ProtocolInv, TypeOK
      <4> QED
        BY <2>3, <3>1, <4>1
    <3>2. CASE child' = [child EXCEPT !.pc = "starved"] /\ UNCHANGED fromChild
      <4>1. child'.pc = "starved"
        BY <3>2 DEF ProtocolInv, TypeOK
      <4> QED
        BY <2>3, <3>2, <4>1
    <3>3. CASE /\ child' = [child EXCEPT !.pc = "ready"]
               /\ Write(WarningFrame) \/ Write(JavaException)
      BY <1>1, <1>5, <2>1, <2>2, <3>3, GivesUp, Zenon
    <3> QED
      BY <1>2, <3>1, <3>2, <3>3, Zenon
  <2> QED
    BY <1>1, <1>3, <2>4, ChildKeeps, Zenon
<1> QED
  BY <1>4, <1>5

\* The child is gone, at the end of its input or at any other time.
LEMMA ExitStep ==
  ASSUME ProtocolInv, child' = [child EXCEPT !.pc = "exited"],
         UNCHANGED <<fromChild, client, sent, results>>
  PROVE  ProtocolInv'
<1>1. /\ Exited' /\ child'.command = child.command /\ child'.query = child.query
      /\ child' \in [pc : ChildPcs, back : {"run", "result"},
                     query : Queries \union {NoQuery}, asked : Nat, command : Nat]
  BY DEF ProtocolInv, TypeOK, ChildPcs, Exited
<1>2. Over'
  BY <1>1, Zenon DEF Over
<1>3. /\ QueryFrame(child.query)' = QueryFrame(child.query)
      /\ JavaException' = JavaException
  BY <1>1, Zenon DEF JavaException
<1>4. /\ Closed' = Closed /\ WarningsEnded' = WarningsEnded /\ Warning' = Warning
      /\ Warnings' = Warnings /\ ResultEnded' = ResultEnded /\ SecondHalf' = SecondHalf
      /\ \A tail : FromHalf(tail)' = FromHalf(tail)
      /\ \A mode, tail : FromBody(mode, tail)' = FromBody(mode, tail)
      /\ \A mode, tail : FromResponse(mode, tail)' = FromResponse(mode, tail)
  BY PartsStay, Zenon
<1>5. ASSUME client.pc \in Reading
      PROVE  Sync'
  <2>1. CASE Sending
    <3>1. Sending'
      BY <1>1, <2>1, Zenon DEF Sending
    <3>2. client'.pc # "idle"
      BY <1>5 DEF Reading
    <3> QED
      BY <1>5, <3>1, <3>2, Zenon DEF Sync
  <2>2. CASE child.command = sent /\ Following
    <3>1. PICK mode \in {"run", "result"},
               tail \in {<<>>, QueryFrame(child.query), Warnings, JavaException, SecondHalf} :
                 Writes(mode, tail) /\ Follows(mode, tail)
      BY <2>2, Zenon DEF Following
    <3>2. Follows(mode, tail)'
      BY <1>4, <3>1, Zenon DEF Follows
    <3>3. Writes(mode, tail)'
      BY <1>1, <1>2, <1>3, <1>4, <3>1, Zenon DEF Writes
    <3>4. tail \in {<<>>, QueryFrame(child.query), Warnings, JavaException, SecondHalf}'
      BY <1>3, <1>4, Zenon
    <3> QED
      BY <1>1, <1>5, <2>2, <3>2, <3>3, <3>4, StillFollows, Zenon
  <2>3. CASE child.command = sent /\ Querying
    <3>1. Querying'
      BY <1>1, <1>3, <2>3, Zenon DEF Querying
    <3>2. client'.pc # "idle"
      BY <1>5 DEF Reading
    <3> QED
      BY <1>1, <1>5, <2>3, <3>1, <3>2, Zenon DEF Sync
  <2>4. CASE Ending /\ Over
    <3>1. Ending'
      BY <1>3, <1>4, <2>4, Zenon DEF Ending
    <3>2. client'.pc # "idle"
      BY <1>5 DEF Reading
    <3> QED
      BY <1>2, <1>5, <3>1, <3>2, Zenon DEF Sync
  <2> QED
    BY <1>5, <2>1, <2>2, <2>3, <2>4, Zenon DEF ProtocolInv, Sync
<1>6. ASSUME client.pc \notin Reading
      PROVE  Sync'
  <2>1. child'.pc \notin {"ready", "run", "result"}
    BY <1>1 DEF Exited
  <2> QED
    BY <1>1, <1>6, <2>1, Zenon DEF Sync
<1> QED
  BY <1>1, <1>5, <1>6, ChildKeeps, Zenon

LEMMA ChildSteps ==
  ASSUME ProtocolInv, ChildStep \/ Crash
  PROVE  ProtocolInv'
<1>1. CASE ReadCommand
  BY <1>1, ReadCommandStep
<1>2. CASE OpenResult
  BY <1>2, OpenResultStep
<1>3. CASE CloseResult
  BY <1>3, CloseResultStep
<1>4. CASE Throws
  BY <1>4, ThrowsStep
<1>5. CASE TakeAnswer
  BY <1>5, TakeAnswerStep
<1>6. CASE EndOfInput
  BY <1>6, ExitStep, Zenon DEF EndOfInput, ToPc
<1>7. CASE \E q \in Queries : Ask(q)
  BY <1>7, AskStep
<1>8. CASE Crash
  BY <1>8, ExitStep, Zenon DEF Crash, ToPc
<1> QED
  BY <1>1, <1>2, <1>3, <1>4, <1>5, <1>6, <1>7, <1>8, Zenon DEF ChildStep

-----------------------------------------------------------------------------
(* The steps of the client.                                                *)

Clients ==
  [pc : ClientPcs, inResponse : BOOLEAN, after : {"loop", "payload"}, text : Seq(Nat),
   error : {"none", "io", "protocol", "decompiler", "process"}]
Outcomes == [ok : BOOLEAN, text : Seq(Nat)]

LEMMA GoesTo ==
  ASSUME TypeOK, NEW pc \in ClientPcs, Goto(pc)
  PROVE  /\ client' \in Clients /\ client'.pc = pc /\ client'.text = client.text
         /\ client'.inResponse = client.inResponse /\ client'.after = client.after
BY DEF TypeOK, Goto, Clients

LEMMA GoesToQuery ==
  ASSUME TypeOK, NEW after \in {"loop", "payload"},
         client' = [client EXCEPT !.pc = "query", !.after = after]
  PROVE  /\ client' \in Clients /\ client'.pc = "query" /\ client'.text = client.text
         /\ client'.inResponse = client.inResponse /\ client'.after = after
BY DEF TypeOK, Clients, ClientPcs, Reading

LEMMA KeepsText ==
  ASSUME TypeOK, NEW text \in Seq(Nat), client' = [client EXCEPT !.text = text]
  PROVE  /\ client' \in Clients /\ client'.pc = client.pc /\ client'.text = text
         /\ client'.inResponse = client.inResponse /\ client'.after = client.after
BY DEF TypeOK, Clients

LEMMA Texts ==
  ASSUME sent \in Nat
  PROVE  /\ <<sent, 1>> \in Seq(Nat) /\ <<sent, 2>> \in Seq(Nat) /\ <<sent, 3>> \in Seq(Nat)
         /\ <<>> \in Seq(Nat)
         /\ <<>> \o <<sent, 1>> = <<sent, 1>>
         /\ <<sent, 1>> \o <<sent, 2>> = <<sent, 1, sent, 2>>
         /\ <<sent, 1, sent, 2>> \in Seq(Nat)
<1>1. /\ <<sent, 1>> \in Seq(Nat) /\ <<sent, 2>> \in Seq(Nat) /\ <<sent, 3>> \in Seq(Nat)
      /\ <<>> \in Seq(Nat) /\ <<sent, 1, sent, 2>> \in Seq(Nat)
  OBVIOUS
<1>2. <<>> \o <<sent, 1>> = <<sent, 1>>
  BY <1>1, ConcatEmptySeq, Zenon
<1>3. <<sent, 1>> \o <<sent, 2>> = <<sent, 1, sent, 2>>
  <2> DEFINE f == <<sent, 1>>
             g == <<sent, 2>>
             h == <<sent, 1, sent, 2>>
             c == f \o g
  <2>1. /\ f \in Seq(Nat) /\ Len(f) = 2 /\ f[1] = sent /\ f[2] = 1
        /\ g \in Seq(Nat) /\ Len(g) = 2 /\ g[1] = sent /\ g[2] = 2
        /\ h \in Seq(Nat) /\ Len(h) = 4 /\ h[1] = sent /\ h[2] = 1 /\ h[3] = sent /\ h[4] = 2
    OBVIOUS
  <2> HIDE DEF f, g, h
  <2>2. /\ c \in Seq(Nat) /\ Len(c) = Len(f) + Len(g)
        /\ \A i \in 1 .. Len(f) + Len(g) : c[i] = IF i <= Len(f) THEN f[i] ELSE g[i - Len(f)]
    BY <2>1, ConcatProperties, Zenon
  <2> HIDE DEF c
  <2>3. Len(c) = 4 /\ c[1] = f[1] /\ c[2] = f[2] /\ c[3] = g[1] /\ c[4] = g[2]
    BY <2>1, <2>2
  <2>4. \A i \in 1 .. 4 : i = 1 \/ i = 2 \/ i = 3 \/ i = 4
    OBVIOUS
  <2>5. \A i \in 1 .. 4 : c[i] = h[i]
    BY <2>1, <2>3, <2>4
  <2>6. c = h
    BY <2>1, <2>2, <2>3, <2>5, SeqEqual
  <2> QED
    BY <2>6 DEF c, f, g, h
<1> QED
  BY <1>1, <1>2, <1>3

LEMMA AppendedOutcome ==
  ASSUME results \in Seq(Outcomes), ResultsAreOwn, NEW outcome \in Outcomes,
         results' = Append(results, outcome),
         outcome.ok => \E n \in {Len(results) + 1} : outcome.text \in {<<n, 1, n, 2>>, <<n, 3>>}
  PROVE  results' \in Seq(Outcomes) /\ Len(results') = Len(results) + 1 /\ ResultsAreOwn'
<1>1. /\ results' \in Seq(Outcomes) /\ Len(results') = Len(results) + 1 /\ Len(results) \in Nat
      /\ \A n \in 1 .. Len(results) : results'[n] = results[n]
      /\ results'[Len(results) + 1] = outcome
  BY AppendProperties, LenProperties
<1>2. DOMAIN results = 1 .. Len(results) /\ DOMAIN results' = 1 .. Len(results')
  BY <1>1, LenProperties
<1>3. ASSUME NEW n \in DOMAIN results', results'[n].ok
      PROVE  results'[n].text \in {<<n, 1, n, 2>>, <<n, 3>>}
  <2>1. CASE n \in DOMAIN results
    <3>1. results'[n] = results[n]
      BY <1>1, <1>2, <2>1
    <3>2. results[n].ok
      BY <1>3, <3>1
    <3>3. results[n].text \in {<<n, 1, n, 2>>, <<n, 3>>}
      BY <2>1, <3>2, Zenon DEF ResultsAreOwn
    <3> QED
      BY <3>1, <3>3
  <2>2. CASE n \notin DOMAIN results
    <3>1. n = Len(results) + 1
      BY <1>1, <1>2, <2>2
    <3>2. results'[n] = outcome
      BY <1>1, <3>1
    <3>3. outcome.ok
      BY <1>3, <3>2
    <3>4. PICK m \in {Len(results) + 1} : outcome.text \in {<<m, 1, m, 2>>, <<m, 3>>}
      BY <3>3, Zenon
    <3>5. m = n
      BY <3>1, <3>4
    <3> QED
      BY <3>2, <3>4, <3>5, Zenon
  <2> QED
    BY <2>1, <2>2
<1> QED
  BY <1>1, <1>3, Zenon DEF ResultsAreOwn

\* A command that failed leaves the child without anything to compute.
LEMMA Fails ==
  ASSUME ProtocolInv, NEW error \in {"io", "protocol", "decompiler", "process"}, Fail(error),
         \/ client.pc \in Reading /\ sent' = sent
         \/ client.pc \notin Reading /\ sent' = sent + 1,
         UNCHANGED child, child.pc \in {"ready", "run", "result"} => toChild' = <<>>
  PROVE  ProtocolInv'
<1> DEFINE outcome == [ok |-> FALSE, text |-> <<>>]
<1>1. /\ results \in Seq(Outcomes) /\ ResultsAreOwn /\ sent \in Nat
      /\ Len(results) = IF client.pc \in Reading THEN sent - 1 ELSE sent
  BY DEF ProtocolInv, TypeOK, Owned, Outcomes
<1>2. outcome \in Outcomes /\ ~outcome.ok
  BY DEF Outcomes
<1> HIDE DEF outcome
<1>3. results' = Append(results, outcome)
  BY Zenon DEF Fail, outcome
<1>4. results' \in Seq(Outcomes) /\ Len(results') = Len(results) + 1 /\ ResultsAreOwn'
  BY <1>1, <1>2, <1>3, AppendedOutcome, Zenon
<1>5. client' \in Clients /\ client'.pc = "failed"
  BY DEF ProtocolInv, TypeOK, Fail, Clients, ClientPcs
<1>6. client'.pc \notin Reading /\ client'.pc # "idle"
  BY <1>5 DEF Reading
<1>7. Sync'
  BY <1>6, Zenon DEF Sync
<1>8. Owned' /\ sent' \in Nat
  <2>1. Len(results') = sent' /\ sent' \in Nat
    BY <1>1, <1>4
  <2> QED
    BY <1>4, <1>6, <2>1, Zenon DEF Owned
<1>9. TypeOK'
  BY <1>4, <1>5, <1>8 DEF ProtocolInv, TypeOK, Clients, Outcomes
<1> QED
  BY <1>7, <1>8, <1>9 DEF ProtocolInv

LEMMA ClientKeeps ==
  ASSUME ProtocolInv, client.pc \in Reading, client'.pc \in Reading, client' \in Clients,
         UNCHANGED <<child, sent, results>>, Sync'
  PROVE  ProtocolInv'
<1>1. TypeOK'
  BY DEF ProtocolInv, TypeOK, Clients
<1>2. Owned'
  BY Zenon DEF ProtocolInv, Owned, ResultsAreOwn
<1> QED
  BY <1>1, <1>2 DEF ProtocolInv

LEMMA StillEnds ==
  ASSUME client'.pc \in Reading, Ending', Over'
  PROVE  Sync'
<1>1. client'.pc # "idle"
  BY DEF Reading
<1> QED
  BY <1>1, Zenon DEF Sync

\* What the client can be reading, by its place.
LEMMA InLoop ==
  ASSUME ProtocolInv, client.pc = "loop", fromChild # <<>>
  PROVE  child.command = sent /\ Following
<1>1. client.pc \in Reading /\ ~Sending /\ ~Querying /\ ~Ending
  BY DEF Reading, Sending, Querying, Ending
<1> QED
  BY <1>1, Zenon DEF ProtocolInv, Sync

LEMMA InPayload ==
  ASSUME ProtocolInv, client.pc = "payload"
  PROVE  (child.command = sent /\ Following) \/ (Ending /\ Over)
<1>1. client.pc \in Reading /\ ~Sending /\ ~Querying
  BY DEF Reading, Sending, Querying
<1> QED
  BY <1>1, Zenon DEF ProtocolInv, Sync

LEMMA InQuery ==
  ASSUME ProtocolInv, client.pc = "query"
  PROVE  child.command = sent /\ Querying
<1>1. client.pc \in Reading /\ ~Sending /\ ~Ending
  BY DEF Reading, Sending, Ending
<1>2. ASSUME NEW mode, NEW tail
      PROVE  ~Follows(mode, tail)
  BY DEF Follows
<1>3. ~Following
  BY <1>2, Zenon DEF Following
<1> QED
  BY <1>1, <1>3, Zenon DEF ProtocolInv, Sync

LEMMA InEnding ==
  ASSUME ProtocolInv, client.pc \in {"warnings", "text", "close", "exception"}
  PROVE  Ending /\ Over
<1>1. client.pc \in Reading /\ ~Sending /\ ~Querying
  BY DEF Reading, Sending, Querying
<1>2. ASSUME NEW mode, NEW tail
      PROVE  ~Follows(mode, tail)
  BY DEF Follows
<1>3. ~Following
  BY <1>2, Zenon DEF Following
<1> QED
  BY <1>1, <1>3, Zenon DEF ProtocolInv, Sync

\* Once the child has read the command, its input is empty while it computes.
LEMMA Quiet ==
  ASSUME ProtocolInv, client.pc \in Reading, ~Sending, child.pc \in {"ready", "run", "result"}
  PROVE  toChild = <<>>
<1>1. CASE Following
  <2>1. PICK mode \in {"run", "result"},
             tail \in {<<>>, QueryFrame(child.query), Warnings, JavaException, SecondHalf} :
               Writes(mode, tail) /\ Follows(mode, tail)
    BY <1>1, Zenon DEF Following
  <2> QED
    BY <2>1 DEF Writes, Over, Exited
<1>2. CASE Querying
  BY <1>2 DEF Querying, Exited
<1>3. CASE Ending /\ Over
  BY <1>3 DEF Over, Exited
<1> QED
  BY <1>1, <1>2, <1>3, Zenon DEF ProtocolInv, Sync

LEMMA ChildStays ==
  ASSUME UNCHANGED <<toChild, child, sent>>, NEW mode, NEW tail, Writes(mode, tail),
         tail \in {<<>>, QueryFrame(child.query), Warnings, JavaException, SecondHalf}
  PROVE  /\ Writes(mode, tail)'
         /\ tail \in {<<>>, QueryFrame(child.query), Warnings, JavaException, SecondHalf}'
<1>1. /\ Warnings' = Warnings /\ SecondHalf' = SecondHalf
      /\ JavaException' = JavaException /\ QueryFrame(child.query)' = QueryFrame(child.query)
  BY PartsStay, Zenon DEF JavaException
<1>2. Over => Over'
  BY Zenon DEF Over, Exited
<1> QED
  BY <1>1, <1>2, Zenon DEF Writes, Exited

LEMMA TailTypes ==
  ASSUME TypeOK, NEW tail \in {<<>>, QueryFrame(child.query), Warnings, JavaException, SecondHalf}
  PROVE  tail \in Seq(Item)
<1>1. child.query \in Queries \union {NoQuery} /\ sent \in Nat
  BY DEF TypeOK
<1>2. /\ <<>> \in Seq(Item) /\ QueryFrame(child.query) \in Seq(Item) /\ Warnings \in Seq(Item)
      /\ JavaException \in Seq(Item) /\ SecondHalf \in Seq(Item)
  BY <1>1, Endings, Interruptions, EmptySeq, Zenon DEF Starts
<1> QED
  BY <1>2

\* The tails differ in their first burst.
LEMMA WrittenLast ==
  ASSUME TypeOK, NEW mode, NEW tail, Writes(mode, tail)
  PROVE  /\ tail = QueryFrame(child.query) =>
              (~Exited => child.pc = "await" /\ child.back = mode /\ toChild = <<>>)
         /\ tail \in {Warnings, JavaException, SecondHalf} => Over
         /\ tail = SecondHalf => mode = "result"
<1>1. child.query \in Queries \union {NoQuery} /\ sent \in Nat
  BY DEF TypeOK
<1>2. /\ QueryFrame(child.query)[1].burst = "query" /\ Warnings[1].burst = "warnings"
      /\ JavaException[1].burst = "exception" /\ SecondHalf[1].burst = "data"
      /\ QueryFrame(child.query) # <<>> /\ Warnings # <<>> /\ JavaException # <<>>
      /\ SecondHalf # <<>>
  BY <1>1, Interruptions, Endings, Zenon DEF Starts
<1>3. /\ "query" # "warnings" /\ "query" # "exception" /\ "query" # "data"
      /\ "warnings" # "data" /\ "exception" # "data"
  OBVIOUS
<1> QED
  BY <1>2, <1>3, Zenon DEF Writes

LEMMA LoopReadsStep ==
  ASSUME ProtocolInv, LoopReads
  PROVE  ProtocolInv'
<1>1. /\ client.pc = "loop" /\ UNCHANGED results
      /\ \/ /\ Read("query")
            /\ client' = [client EXCEPT !.pc = "query", !.after = "loop"]
         \/ /\ Read("response")
            /\ client' = [client EXCEPT !.inResponse = TRUE]
         \/ Read("string") /\ client.inResponse /\ Goto("payload")
         \/ Read("warnings") /\ client.inResponse /\ Goto("text")
         \/ Read("exception") /\ Goto("exception")
  BY Zenon DEF LoopReads
<1>2. fromChild # <<>> /\ UNCHANGED <<toChild, child, sent>>
  BY <1>1, Zenon DEF Read
<1>3. child.command = sent /\ Following
  BY <1>1, <1>2, InLoop, Zenon
<1>4. PICK mode \in {"run", "result"},
           tail \in {<<>>, QueryFrame(child.query), Warnings, JavaException, SecondHalf} :
             Writes(mode, tail) /\ Follows(mode, tail)
  BY <1>3, Zenon DEF Following
<1>5. TypeOK /\ sent \in Nat /\ tail \in Seq(Item) /\ child.query \in Queries \union {NoQuery}
  <2>1. TypeOK /\ sent \in Nat /\ child.query \in Queries \union {NoQuery}
    BY DEF ProtocolInv, TypeOK
  <2> QED
    BY <2>1, TailTypes, Zenon
<1>6. client.pc \in Reading
  BY <1>1 DEF Reading
<1>7. /\ Writes(mode, tail)'
      /\ tail \in {<<>>, QueryFrame(child.query), Warnings, JavaException, SecondHalf}'
  BY <1>2, <1>4, ChildStays, Zenon
<1>8. client.text = <<>>
  BY <1>1, <1>4 DEF Follows
<1>9. CASE ~client.inResponse /\ fromChild = FromResponse(mode, tail)
  <2>1. Starts(fromChild, "response", FromBody(mode, tail))
    BY <1>5, <1>9, Beginnings, Zenon
  <2>2. Read("response") /\ client' = [client EXCEPT !.inResponse = TRUE]
    <3>1. \A burst : Read(burst) => burst = "response"
      BY <2>1, ReadsFirst, Zenon
    <3>2. "query" # "response" /\ "string" # "response" /\ "warnings" # "response"
          /\ "exception" # "response"
      OBVIOUS
    <3> QED
      BY <1>1, <3>1, <3>2, Zenon
  <2>3. fromChild' = FromBody(mode, tail)
    BY <2>1, <2>2, ReadsFirst, Zenon
  <2>4. client' \in Clients /\ client'.pc = "loop" /\ client'.inResponse /\ client'.text = <<>>
    BY <1>1, <1>5, <1>8, <2>2 DEF TypeOK, Clients
  <2>5. FromBody(mode, tail)' = FromBody(mode, tail)
    BY <1>2, PartsStay, Zenon
  <2>6. Follows(mode, tail)'
    BY <2>3, <2>4, <2>5, Zenon DEF Follows
  <2>7. client'.pc \in Reading
    BY <2>4 DEF Reading
  <2>8. Sync'
    BY <1>2, <1>3, <1>7, <2>6, <2>7, StillFollows, Zenon
  <2> QED
    BY <1>1, <1>2, <1>6, <2>4, <2>7, <2>8, ClientKeeps, Zenon
<1>10. CASE client.inResponse /\ fromChild = FromBody(mode, tail) /\ mode = "result"
  <2>1. Starts(fromChild, "string", FromHalf(tail))
    <3>1. fromChild = FromString(tail)
      BY <1>10 DEF FromBody
    <3> QED
      BY <1>5, <3>1, Beginnings, Zenon
  <2>2. Read("string") /\ Goto("payload")
    <3>1. \A burst : Read(burst) => burst = "string"
      BY <2>1, ReadsFirst, Zenon
    <3>2. "query" # "string" /\ "response" # "string" /\ "warnings" # "string"
          /\ "exception" # "string"
      OBVIOUS
    <3> QED
      BY <1>1, <3>1, <3>2, Zenon
  <2>3. fromChild' = FromHalf(tail)
    BY <2>1, <2>2, ReadsFirst, Zenon
  <2>4. client' \in Clients /\ client'.pc = "payload" /\ client'.text = <<>>
    <3>1. "payload" \in ClientPcs
      BY DEF ClientPcs, Reading
    <3> QED
      BY <1>5, <1>8, <2>2, <3>1, GoesTo, Zenon
  <2>5. FromHalf(tail)' = FromHalf(tail)
    BY <1>2, PartsStay, Zenon
  <2>6. Follows(mode, tail)'
    <3>1. client'.pc # "loop"
      BY <2>4
    <3> QED
      BY <1>10, <2>3, <2>4, <2>5, <3>1, Zenon DEF Follows
  <2>7. client'.pc \in Reading
    BY <2>4 DEF Reading
  <2>8. Sync'
    BY <1>2, <1>3, <1>7, <2>6, <2>7, StillFollows, Zenon
  <2> QED
    BY <1>1, <1>2, <1>6, <2>4, <2>7, <2>8, ClientKeeps, Zenon
<1>11. CASE client.inResponse /\ fromChild = FromBody(mode, tail) /\ mode = "run"
  <2>1. fromChild = tail
    BY <1>11 DEF FromBody
  <2>2. CASE tail = QueryFrame(child.query)
    <3>1. Starts(fromChild, "query", Tail(QueryFrame(child.query)))
      BY <1>5, <2>1, <2>2, Interruptions, Zenon
    <3>2. Read("query") /\ client' = [client EXCEPT !.pc = "query", !.after = "loop"]
      <4>1. \A burst : Read(burst) => burst = "query"
        BY <3>1, ReadsFirst, Zenon
      <4>2. "string" # "query" /\ "response" # "query" /\ "warnings" # "query"
            /\ "exception" # "query"
        OBVIOUS
      <4> QED
        BY <1>1, <4>1, <4>2, Zenon
    <3>3. fromChild' = Tail(QueryFrame(child.query))
      BY <3>1, <3>2, ReadsFirst, Zenon
    <3>4. /\ client' \in Clients /\ client'.pc = "query" /\ client'.text = <<>>
          /\ client'.after = "loop" /\ client'.inResponse
      <4>1. \E after \in {"loop", "payload"} :
              after = "loop" /\ client' = [client EXCEPT !.pc = "query", !.after = after]
        BY <3>2, Zenon
      <4> QED
        BY <1>5, <1>8, <1>11, <4>1, GoesToQuery, Zenon
    <3>5. ~Exited => child.pc = "await" /\ child.back = "run" /\ toChild = <<>>
      BY <1>4, <1>5, <1>11, <2>2, WrittenLast, Zenon
    <3>6. QueryFrame(child.query)' = QueryFrame(child.query)
      BY <1>2, Zenon
    <3>7. Querying'
      BY <1>2, <3>3, <3>4, <3>5, <3>6, Zenon DEF Querying, Exited
    <3>8. client'.pc \in Reading /\ client'.pc # "idle"
      BY <3>4 DEF Reading
    <3>9. Sync'
      BY <1>2, <1>3, <3>7, <3>8, Zenon DEF Sync
    <3> QED
      BY <1>1, <1>2, <1>6, <3>4, <3>8, <3>9, ClientKeeps, Zenon
  <2>3. CASE tail = Warnings
    <3>1. Starts(fromChild, "warnings", Warning)
      BY <1>5, <2>1, <2>3, Endings, Zenon
    <3>2. Read("warnings") /\ Goto("text")
      <4>1. \A burst : Read(burst) => burst = "warnings"
        BY <3>1, ReadsFirst, Zenon
      <4>2. "string" # "warnings" /\ "response" # "warnings" /\ "query" # "warnings"
            /\ "exception" # "warnings"
        OBVIOUS
      <4> QED
        BY <1>1, <4>1, <4>2, Zenon
    <3>3. fromChild' = Warning
      BY <3>1, <3>2, ReadsFirst, Zenon
    <3>4. client' \in Clients /\ client'.pc = "text" /\ client'.text = <<>>
      <4>1. "text" \in ClientPcs
        BY DEF ClientPcs, Reading
      <4> QED
        BY <1>5, <1>8, <3>2, <4>1, GoesTo, Zenon
    <3>5. Over
      BY <1>4, <1>5, <2>3, WrittenLast, Zenon
    <3>6. Ending'
      <4>1. Warning' = Warning
        BY <1>2, PartsStay, Zenon
      <4> QED
        BY <3>3, <3>4, <4>1, Zenon DEF Ending
    <3>7. Over'
      BY <1>2, <3>5, Zenon DEF Over, Exited
    <3>8. client'.pc \in Reading
      BY <3>4 DEF Reading
    <3>9. Sync'
      BY <3>6, <3>7, <3>8, StillEnds, Zenon
    <3> QED
      BY <1>1, <1>2, <1>6, <3>4, <3>8, <3>9, ClientKeeps, Zenon
  <2>4. CASE tail = JavaException
    <3>1. Starts(fromChild, "exception", Tail(JavaException))
      BY <2>1, <2>4, Interruptions, Zenon
    <3>2. Read("exception") /\ Goto("exception")
      <4>1. \A burst : Read(burst) => burst = "exception"
        BY <3>1, ReadsFirst, Zenon
      <4>2. "string" # "exception" /\ "response" # "exception" /\ "query" # "exception"
            /\ "warnings" # "exception"
        OBVIOUS
      <4> QED
        BY <1>1, <4>1, <4>2, Zenon
    <3>3. fromChild' = Tail(JavaException)
      BY <3>1, <3>2, ReadsFirst, Zenon
    <3>4. client' \in Clients /\ client'.pc = "exception"
      <4>1. "exception" \in ClientPcs
        BY DEF ClientPcs, Reading
      <4> QED
        BY <1>5, <3>2, <4>1, GoesTo, Zenon
    <3>5. Over
      BY <1>4, <1>5, <2>4, WrittenLast, Zenon
    <3>6. Ending'
      <4>1. JavaException' = JavaException
        BY Zenon DEF JavaException
      <4> QED
        BY <3>3, <3>4, <4>1, Zenon DEF Ending
    <3>7. Over'
      BY <1>2, <3>5, Zenon DEF Over, Exited
    <3>8. client'.pc \in Reading
      BY <3>4 DEF Reading
    <3>9. Sync'
      BY <3>6, <3>7, <3>8, StillEnds, Zenon
    <3> QED
      BY <1>1, <1>2, <1>6, <3>4, <3>8, <3>9, ClientKeeps, Zenon
  <2>5. CASE tail = SecondHalf
    <3>1. mode = "result" /\ "run" # "result"
      BY <1>4, <1>5, <2>5, WrittenLast, Zenon
    <3> QED
      BY <1>11, <3>1, Zenon
  <2> QED
    BY <1>2, <2>1, <2>2, <2>3, <2>4, <2>5, Zenon
<1> QED
  <2>1. "payload" # "loop"
    OBVIOUS
  <2> QED
    BY <1>1, <1>4, <1>9, <1>10, <1>11, <2>1, Zenon DEF Follows

LEMMA PayloadReadsStep ==
  ASSUME ProtocolInv, PayloadReads
  PROVE  ProtocolInv'
<1>1. /\ client.pc = "payload" /\ UNCHANGED results
      /\ \/ /\ Read("data")
            /\ client' = [client EXCEPT !.text = @ \o fromChild[1].data]
         \/ /\ Read("query")
            /\ client' = [client EXCEPT !.pc = "query", !.after = "payload"]
         \/ Read("stringEnd") /\ Goto("warnings")
  BY Zenon DEF PayloadReads
<1>2. fromChild # <<>> /\ UNCHANGED <<toChild, child, sent>>
  BY <1>1, Zenon DEF Read
<1>3. TypeOK /\ sent \in Nat /\ child.query \in Queries \union {NoQuery}
  BY DEF ProtocolInv, TypeOK
<1>4. client.pc \in Reading /\ client.pc # "loop"
  BY <1>1 DEF Reading
<1>5. "data" # "query" /\ "data" # "stringEnd" /\ "query" # "stringEnd"
  OBVIOUS
<1>6. ASSUME NEW rest, NEW part \in Seq(Nat), Starts(fromChild, "data", rest),
             fromChild[1].data = part
      PROVE  /\ fromChild' = rest
             /\ client' \in Clients /\ client'.pc = "payload" /\ client'.text = client.text \o part
  <2>1. \A burst : Read(burst) => burst = "data" /\ fromChild' = rest
    BY <1>6, ReadsFirst, Zenon
  <2>2. Read("data") /\ client' = [client EXCEPT !.text = @ \o fromChild[1].data]
    BY <1>1, <1>5, <2>1, Zenon
  <2>3. client.text \o part \in Seq(Nat)
    <3>1. client.text \in Seq(Nat)
      BY <1>3 DEF TypeOK
    <3> QED
      BY <1>6, <3>1, ConcatProperties, Zenon
  <2>4. client' = [client EXCEPT !.text = client.text \o part]
    BY <1>6, <2>2, Zenon
  <2>5. client' \in Clients /\ client'.pc = client.pc /\ client'.text = client.text \o part
    <3> DEFINE text == client.text \o part
    <3>1. text \in Seq(Nat) /\ client' = [client EXCEPT !.text = text]
      BY <2>3, <2>4
    <3> HIDE DEF text
    <3>2. client' \in Clients /\ client'.pc = client.pc /\ client'.text = text
      BY <1>3, <3>1, KeepsText, Zenon
    <3> QED
      BY <3>2 DEF text
  <2> QED
    BY <1>1, <2>1, <2>2, <2>5, Zenon
<1>7. CASE child.command = sent /\ Following
  <2>1. PICK mode \in {"run", "result"},
             tail \in {<<>>, QueryFrame(child.query), Warnings, JavaException, SecondHalf} :
               Writes(mode, tail) /\ Follows(mode, tail)
    BY <1>7, Zenon DEF Following
  <2>2. tail \in Seq(Item)
    BY <1>3, TailTypes, Zenon
  <2>3. /\ Writes(mode, tail)'
        /\ tail \in {<<>>, QueryFrame(child.query), Warnings, JavaException, SecondHalf}'
    BY <1>2, <2>1, ChildStays, Zenon
  <2>4. mode = "result" /\ \/ client.text = <<>> /\ fromChild = FromHalf(tail)
                           \/ client.text = <<sent, 1>> /\ fromChild = tail
    BY <1>4, <2>1, Zenon DEF Follows
  <2>5. CASE client.text = <<>> /\ fromChild = FromHalf(tail)
    <3>1. Starts(fromChild, "data", tail) /\ fromChild[1].data = <<sent, 1>>
      BY <1>3, <2>2, <2>5, Beginnings, Zenon
    <3>2. <<sent, 1>> \in Seq(Nat) /\ <<>> \o <<sent, 1>> = <<sent, 1>>
      BY <1>3, Texts, Zenon
    <3>3. PICK part \in Seq(Nat) : part = <<sent, 1>>
      BY <3>2, Zenon
    <3>4. /\ fromChild' = tail
          /\ client' \in Clients /\ client'.pc = "payload" /\ client'.text = client.text \o part
      BY <1>6, <3>1, <3>3, Zenon
    <3>5. client'.text = <<sent, 1>> /\ client'.pc # "loop" /\ client'.pc \in Reading
      <4>1. client'.text = <<sent, 1>>
        BY <2>5, <3>2, <3>3, <3>4, Zenon
      <4> QED
        BY <3>4, <4>1 DEF Reading
    <3>6. Follows(mode, tail)'
      BY <1>2, <2>4, <3>4, <3>5, Zenon DEF Follows
    <3>7. Sync'
      BY <1>2, <1>7, <2>3, <3>5, <3>6, StillFollows, Zenon
    <3> QED
      BY <1>1, <1>2, <1>4, <3>4, <3>5, <3>7, ClientKeeps, Zenon
  <2>6. CASE client.text = <<sent, 1>> /\ fromChild = tail
    <3>1. CASE tail = QueryFrame(child.query)
      <4>1. Starts(fromChild, "query", Tail(QueryFrame(child.query)))
        BY <1>3, <2>6, <3>1, Interruptions, Zenon
      <4>2. \A burst : Read(burst) => burst = "query" /\ fromChild' = Tail(QueryFrame(child.query))
        BY <4>1, ReadsFirst, Zenon
      <4>3. Read("query") /\ client' = [client EXCEPT !.pc = "query", !.after = "payload"]
        BY <1>1, <1>5, <4>2, Zenon
      <4>4. /\ client' \in Clients /\ client'.pc = "query" /\ client'.text = client.text
            /\ client'.after = "payload"
        <5>1. \E after \in {"loop", "payload"} :
                after = "payload" /\ client' = [client EXCEPT !.pc = "query", !.after = after]
          BY <4>3, Zenon
        <5> QED
          BY <1>3, <5>1, GoesToQuery, Zenon
      <4>5. ~Exited => child.pc = "await" /\ child.back = "result" /\ toChild = <<>>
        BY <1>3, <2>1, <2>4, <3>1, WrittenLast, Zenon
      <4>6. QueryFrame(child.query)' = QueryFrame(child.query)
        BY <1>2, Zenon
      <4>7. Querying'
        BY <1>2, <2>6, <4>2, <4>3, <4>4, <4>5, <4>6, Zenon DEF Querying, Exited
      <4>8. client'.pc \in Reading /\ client'.pc # "idle"
        BY <4>4 DEF Reading
      <4>9. Sync'
        BY <1>2, <1>7, <4>7, <4>8, Zenon DEF Sync
      <4> QED
        BY <1>1, <1>2, <1>4, <4>4, <4>8, <4>9, ClientKeeps, Zenon
    <3>2. CASE tail = SecondHalf
      <4>1. Starts(fromChild, "data", ResultEnded) /\ fromChild[1].data = <<sent, 2>>
        BY <1>3, <2>6, <3>2, Endings, Zenon
      <4>2. <<sent, 2>> \in Seq(Nat) /\ <<sent, 1>> \o <<sent, 2>> = <<sent, 1, sent, 2>>
        BY <1>3, Texts, Zenon
      <4>3. PICK part \in Seq(Nat) : part = <<sent, 2>>
        BY <4>2, Zenon
      <4>4. /\ fromChild' = ResultEnded
            /\ client' \in Clients /\ client'.pc = "payload" /\ client'.text = client.text \o part
        BY <1>6, <4>1, <4>3, Zenon
      <4>5. client'.text = <<sent, 1, sent, 2>> /\ client'.pc \in Reading
        <5>1. client'.text = <<sent, 1, sent, 2>>
          BY <2>6, <4>2, <4>3, <4>4, Zenon
        <5> QED
          BY <4>4, <5>1 DEF Reading
      <4>6. ResultEnded' = ResultEnded
        BY <1>2, PartsStay, Zenon
      <4>7. Ending'
        BY <1>2, <4>4, <4>5, <4>6, Zenon DEF Ending
      <4>8. Over
        BY <1>3, <2>1, <3>2, WrittenLast, Zenon
      <4>9. Over'
        BY <1>2, <4>8, Zenon DEF Over, Exited
      <4>10. Sync'
        BY <4>5, <4>7, <4>9, StillEnds, Zenon
      <4> QED
        BY <1>1, <1>2, <1>4, <4>4, <4>5, <4>10, ClientKeeps, Zenon
    <3>3. CASE tail = Warnings \/ tail = JavaException
      <4>1. fromChild[1].burst \in {"warnings", "exception"}
        BY <1>3, <2>6, <3>3, Endings, Interruptions, Zenon DEF Starts
      <4>2. ~Read("data") /\ ~Read("query") /\ ~Read("stringEnd")
        BY <4>1 DEF Read
      <4> QED
        BY <1>1, <4>2, Zenon
    <3> QED
      BY <1>2, <2>6, <3>1, <3>2, <3>3, Zenon
  <2> QED
    BY <2>4, <2>5, <2>6
<1>8. CASE Ending /\ Over
  <2>1. client.text = <<sent, 1, sent, 2>> /\ fromChild = ResultEnded
    <3>1. "payload" # "exception" /\ "payload" # "warnings" /\ "payload" # "close" /\ "payload" # "text"
      OBVIOUS
    <3> QED
      BY <1>1, <1>8, <3>1, Zenon DEF Ending
  <2>2. Starts(fromChild, "stringEnd", Warnings)
    BY <1>3, <2>1, Endings, Zenon
  <2>3. \A burst : Read(burst) => burst = "stringEnd" /\ fromChild' = Warnings
    BY <2>2, ReadsFirst, Zenon
  <2>4. Read("stringEnd") /\ Goto("warnings")
    BY <1>1, <1>5, <2>3, Zenon
  <2>5. client' \in Clients /\ client'.pc = "warnings" /\ client'.text = client.text
    <3>1. "warnings" \in ClientPcs
      BY DEF ClientPcs, Reading
    <3> QED
      BY <1>3, <2>4, <3>1, GoesTo, Zenon
  <2>6. Warnings' = Warnings
    BY <1>2, PartsStay, Zenon
  <2>7. Ending'
    BY <1>2, <2>1, <2>3, <2>4, <2>5, <2>6, Zenon DEF Ending
  <2>8. Over'
    BY <1>2, <1>8, Zenon DEF Over, Exited
  <2>9. client'.pc \in Reading
    BY <2>5 DEF Reading
  <2>10. Sync'
    BY <2>7, <2>8, <2>9, StillEnds, Zenon
  <2> QED
    BY <1>1, <1>2, <1>4, <2>5, <2>9, <2>10, ClientKeeps, Zenon
<1> QED
  BY <1>1, <1>7, <1>8, InPayload, Zenon

LEMMA RejectsStep ==
  ASSUME ProtocolInv, Rejects
  PROVE  ProtocolInv'
<1>1. /\ client.pc \in {"loop", "payload"} /\ fromChild # <<>> /\ Fail("protocol")
      /\ UNCHANGED <<toChild, child, sent>>
  BY Zenon DEF Rejects, Read
<1>2. client.pc \in Reading /\ ~Sending
  BY <1>1 DEF Reading, Sending
<1>3. child.pc \in {"ready", "run", "result"} => toChild' = <<>>
  BY <1>1, <1>2, Quiet, Zenon
<1> QED
  BY <1>1, <1>2, <1>3, Fails, Zenon

LEMMA AnswersQueryStep ==
  ASSUME ProtocolInv, AnswersQuery
  PROVE  ProtocolInv'
<1>1. client.pc = "query" /\ UNCHANGED <<child, sent>>
  BY Zenon DEF AnswersQuery
<1>2. TypeOK /\ sent \in Nat /\ child.query \in Queries \union {NoQuery}
  BY DEF ProtocolInv, TypeOK
<1>3. child.command = sent /\ Querying
  BY <1>1, InQuery, Zenon
<1>4. fromChild' = <<>>
  <2>1. Len(fromChild) = 4 /\ fromChild \in Seq(Item)
    BY <1>2, <1>3, Interruptions, Zenon DEF Querying, Starts
  <2>2. fromChild' = SubSeq(fromChild, 5, Len(fromChild))
    BY Zenon DEF AnswersQuery
  <2>3. SubSeq(fromChild, 5, 4) = <<>>
    BY <2>1, SubSeqProperties, EmptySeq
  <2> QED
    BY <2>1, <2>2, <2>3
<1>5. client.pc \in Reading /\ ~Sending
  BY <1>1 DEF Reading, Sending
<1>6. CASE Fail("protocol") /\ UNCHANGED toChild
  <2>1. child.pc \in {"ready", "run", "result"} => toChild' = <<>>
    BY <1>5, <1>6, Quiet, Zenon
  <2> QED
    BY <1>1, <1>5, <1>6, <2>1, Fails, Zenon
<1>7. CASE Fail("io") /\ UNCHANGED toChild
  <2>1. child.pc \in {"ready", "run", "result"} => toChild' = <<>>
    BY <1>5, <1>7, Quiet, Zenon
  <2> QED
    BY <1>1, <1>5, <1>7, <2>1, Fails, Zenon
<1>8. CASE child.pc # "exited" /\ Goto(client.after) /\ UNCHANGED results
  <2>1. child.pc = "await"
    BY <1>3, <1>8 DEF Querying, Exited
  <2>2. /\ client' \in Clients /\ client'.pc = client.after /\ client'.text = client.text
        /\ client'.inResponse = client.inResponse
    <3>1. client.after \in ClientPcs
      BY <1>2 DEF TypeOK, ClientPcs, Reading
    <3> QED
      BY <1>2, <1>8, <3>1, GoesTo, Zenon
  <2>3. ASSUME NEW mode \in {"run", "result"}, child.back = mode
        PROVE  Writes(mode, <<>>)' /\ child'.command = sent'
    BY <1>1, <1>3, <2>1, <2>3, Zenon DEF Writes
  <2>4. CASE client.after = "loop" /\ client.inResponse /\ client.text = <<>> /\ child.back = "run"
    <3>1. FromBody("run", <<>>)' = <<>>
      BY DEF FromBody
    <3>2. Follows("run", <<>>)'
      BY <1>4, <2>2, <2>4, <3>1, Zenon DEF Follows
    <3>3. client'.pc \in Reading
      BY <2>2, <2>4 DEF Reading
    <3>4. Sync'
      BY <2>3, <2>4, <3>2, <3>3, StillFollows, Zenon
    <3> QED
      BY <1>1, <1>5, <1>8, <2>2, <3>3, <3>4, ClientKeeps, Zenon
  <2>5. CASE client.after = "payload" /\ client.text = <<sent, 1>> /\ child.back = "result"
    <3>1. client'.pc = "payload" /\ client'.pc # "loop" /\ client'.pc \in Reading
      BY <2>2, <2>5 DEF Reading
    <3>2. Follows("result", <<>>)'
      BY <1>1, <1>4, <2>2, <2>5, <3>1, Zenon DEF Follows
    <3>3. Sync'
      BY <2>3, <2>5, <3>1, <3>2, StillFollows, Zenon
    <3> QED
      BY <1>1, <1>5, <1>8, <2>2, <3>1, <3>3, ClientKeeps, Zenon
  <2> QED
    BY <1>3, <1>8, <2>4, <2>5, Zenon DEF Querying, Exited
<1> QED
  BY <1>6, <1>7, <1>8, Zenon DEF AnswersQuery

\* The client has read to the end of a response.
LEMMA Returns ==
  ASSUME ProtocolInv, client.pc \in Reading, Return, Over, fromChild' = <<>>,
         client.text \in {<<sent, 1, sent, 2>>, <<sent, 3>>},
         UNCHANGED <<toChild, child, sent>>
  PROVE  ProtocolInv'
<1> DEFINE outcome == [ok |-> TRUE, text |-> client.text]
<1>1. /\ results \in Seq(Outcomes) /\ ResultsAreOwn /\ sent \in Nat
      /\ Len(results) = sent - 1
  BY DEF ProtocolInv, TypeOK, Owned, Outcomes
<1>2. outcome \in Outcomes /\ outcome.text = client.text
  BY DEF ProtocolInv, TypeOK, Outcomes
<1> HIDE DEF outcome
<1>3. results' = Append(results, outcome)
  BY Zenon DEF Return, outcome
<1>4. Len(results) + 1 = sent
  BY <1>1
<1>5. \E n \in {Len(results) + 1} : outcome.text \in {<<n, 1, n, 2>>, <<n, 3>>}
  BY <1>2, <1>4, Zenon
<1>6. results' \in Seq(Outcomes) /\ Len(results') = Len(results) + 1 /\ ResultsAreOwn'
  BY <1>1, <1>2, <1>3, <1>5, AppendedOutcome, Zenon
<1>7. client' \in Clients /\ client'.pc = "idle"
  BY DEF ProtocolInv, TypeOK, Return, Clients, ClientPcs
<1>8. client'.pc \notin Reading
  BY <1>7 DEF Reading
<1>9. Sync'
  <2>1. ~Exited' => child'.pc = "ready" /\ toChild' = <<>>
    BY Zenon DEF Over, Exited
  <2>2. child'.pc \in {"ready", "run", "result"} => ~Exited'
    BY DEF Exited
  <2> QED
    BY <1>8, <2>1, <2>2, Zenon DEF Sync
<1>10. Owned'
  BY <1>4, <1>6, <1>8, Zenon DEF Owned
<1>11. TypeOK'
  BY <1>6, <1>7 DEF ProtocolInv, TypeOK, Clients, Outcomes
<1> QED
  BY <1>9, <1>10, <1>11 DEF ProtocolInv

\* The client drops a part of the ending, or keeps its text, and reads on.
LEMMA ReadsOn ==
  ASSUME ProtocolInv, client.pc \in Reading, Over, client' \in Clients, client'.pc \in Reading,
         Ending', UNCHANGED <<toChild, child, sent, results>>
  PROVE  ProtocolInv'
<1>1. Over'
  BY Zenon DEF Over, Exited
<1>2. Sync'
  BY <1>1, StillEnds, Zenon
<1> QED
  BY <1>2, ClientKeeps, Zenon

LEMMA ReadsWarningsStep ==
  ASSUME ProtocolInv, ReadsWarnings
  PROVE  ProtocolInv'
<1>1. client.pc \in {"warnings", "text", "close"} /\ UNCHANGED <<toChild, child, sent>>
  BY DEF ReadsWarnings, Read
<1>2. TypeOK /\ sent \in Nat /\ client \in Clients
  BY DEF ProtocolInv, TypeOK, Clients
<1>3. Ending /\ Over
  BY <1>1, InEnding
<1>4. client.pc \in Reading /\ "close" \in ClientPcs /\ "close" \in Reading /\ "text" \in Reading
  BY <1>1 DEF Reading, ClientPcs
<1>5. /\ Warnings' = Warnings /\ Warning' = Warning /\ WarningsEnded' = WarningsEnded
      /\ Closed' = Closed
  BY <1>1, PartsStay, Zenon
<1>6. /\ Starts(Warnings, "warnings", Warning)
      /\ Starts(Warning, "data", WarningsEnded) /\ Warning[1].data = <<sent, 3>>
      /\ Starts(WarningsEnded, "warningsEnd", Closed)
      /\ Starts(Closed, "responseEnd", <<>>)
  BY <1>2, Endings, Zenon
<1>7. /\ "data" # "warningsEnd" /\ "data" # "responseEnd" /\ "warningsEnd" # "responseEnd"
      /\ "warnings" # "text" /\ "warnings" # "close" /\ "text" # "close"
      /\ "payload" # "warnings" /\ "payload" # "text" /\ "payload" # "close"
      /\ "exception" # "warnings" /\ "exception" # "text" /\ "exception" # "close"
  OBVIOUS
<1>8. ASSUME NEW part, NEW name, NEW rest, Starts(part, name, rest), fromChild = part, NEW burst,
             Read(burst)
      PROVE  burst = name /\ fromChild' = rest
  BY <1>8, ReadsFirst, Zenon
<1>9. CASE client.pc = "warnings"
  <2>1. Read("warnings") /\ Goto("close") /\ UNCHANGED results
    BY <1>7, <1>9, Zenon DEF ReadsWarnings
  <2>2. client.text = <<sent, 1, sent, 2>> /\ fromChild = Warnings
    BY <1>3, <1>7, <1>9, Zenon DEF Ending
  <2>3. fromChild' = Warning
    BY <1>6, <1>8, <2>1, <2>2, Zenon
  <2>4. client' \in Clients /\ client'.pc = "close" /\ client'.text = client.text
    BY <1>2, <1>4, <2>1, GoesTo, Zenon
  <2>5. Ending'
    BY <1>1, <1>5, <2>2, <2>3, <2>4, Zenon DEF Ending
  <2> QED
    BY <1>1, <1>3, <1>4, <2>1, <2>4, <2>5, ReadsOn, Zenon
<1>10. CASE client.pc = "text"
  <2>1. \/ /\ Read("data") /\ UNCHANGED results
           /\ client' = [client EXCEPT !.text = fromChild[1].data]
        \/ Read("warningsEnd") /\ Goto("close") /\ UNCHANGED results
    BY <1>7, <1>10, Zenon DEF ReadsWarnings
  <2>2. \/ client.text = <<>> /\ fromChild = Warning
        \/ client.text = <<sent, 3>> /\ fromChild = WarningsEnded
    BY <1>3, <1>7, <1>10, Zenon DEF Ending
  <2>3. CASE client.text = <<>> /\ fromChild = Warning
    <3>1. /\ Read("data") /\ UNCHANGED results /\ fromChild' = WarningsEnded
          /\ client' = [client EXCEPT !.text = fromChild[1].data]
      BY <1>6, <1>7, <1>8, <2>1, <2>3, Zenon
    <3>2. \E text \in Seq(Nat) : text = <<sent, 3>> /\ client' = [client EXCEPT !.text = text]
      BY <1>2, <1>6, <2>3, <3>1, Texts, Zenon
    <3>3. client' \in Clients /\ client'.pc = "text" /\ client'.text = <<sent, 3>>
      BY <1>2, <1>10, <3>2, KeepsText, Zenon
    <3>4. Ending'
      BY <1>1, <1>5, <3>1, <3>3, Zenon DEF Ending
    <3> QED
      BY <1>1, <1>3, <1>4, <3>1, <3>3, <3>4, ReadsOn, Zenon
  <2>4. CASE client.text = <<sent, 3>> /\ fromChild = WarningsEnded
    <3>1. /\ Read("warningsEnd") /\ Goto("close") /\ UNCHANGED results /\ fromChild' = Closed
      BY <1>6, <1>7, <1>8, <2>1, <2>4, Zenon
    <3>2. client' \in Clients /\ client'.pc = "close" /\ client'.text = client.text
      BY <1>2, <1>4, <3>1, GoesTo, Zenon
    <3>3. Ending'
      BY <1>1, <1>5, <2>4, <3>1, <3>2, Zenon DEF Ending
    <3> QED
      BY <1>1, <1>3, <1>4, <3>1, <3>2, <3>3, ReadsOn, Zenon
  <2> QED
    BY <2>2, <2>3, <2>4, Zenon
<1>11. CASE client.pc = "close"
  <2>1. \/ Read("data") /\ UNCHANGED <<client, results>>
        \/ Read("warningsEnd") /\ Goto("close") /\ UNCHANGED results
        \/ Read("responseEnd") /\ Return
    BY <1>7, <1>11, Zenon DEF ReadsWarnings
  <2>2. \/ client.text = <<sent, 1, sent, 2>> /\ fromChild \in {Warning, WarningsEnded, Closed}
        \/ client.text = <<sent, 3>> /\ fromChild = Closed
    BY <1>3, <1>7, <1>11, Zenon DEF Ending
  <2>3. CASE client.text = <<sent, 1, sent, 2>> /\ fromChild = Warning
    <3>1. Read("data") /\ UNCHANGED <<client, results>> /\ fromChild' = WarningsEnded
      BY <1>6, <1>7, <1>8, <2>1, <2>3, Zenon
    <3>2. Ending'
      BY <1>1, <1>5, <1>11, <2>3, <3>1, Zenon DEF Ending
    <3> QED
      BY <1>1, <1>2, <1>3, <1>4, <3>1, <3>2, ReadsOn, Zenon
  <2>4. CASE client.text = <<sent, 1, sent, 2>> /\ fromChild = WarningsEnded
    <3>1. Read("warningsEnd") /\ Goto("close") /\ UNCHANGED results /\ fromChild' = Closed
      BY <1>6, <1>7, <1>8, <2>1, <2>4, Zenon
    <3>2. client' \in Clients /\ client'.pc = "close" /\ client'.text = client.text
      BY <1>2, <1>4, <3>1, GoesTo, Zenon
    <3>3. Ending'
      BY <1>1, <1>5, <2>4, <3>1, <3>2, Zenon DEF Ending
    <3> QED
      BY <1>1, <1>3, <1>4, <3>1, <3>2, <3>3, ReadsOn, Zenon
  <2>5. CASE client.text \in {<<sent, 1, sent, 2>>, <<sent, 3>>} /\ fromChild = Closed
    <3>1. Read("responseEnd") /\ Return /\ fromChild' = <<>>
      BY <1>6, <1>7, <1>8, <2>1, <2>5, Zenon
    <3> QED
      BY <1>1, <1>3, <1>4, <2>5, <3>1, Returns, Zenon
  <2> QED
    BY <2>2, <2>3, <2>4, <2>5, Zenon
<1> QED
  BY <1>1, <1>9, <1>10, <1>11, Zenon

LEMMA ReadsExceptionStep ==
  ASSUME ProtocolInv, ReadsException
  PROVE  ProtocolInv'
<1>1. /\ client.pc = "exception" /\ Fail("decompiler") /\ UNCHANGED <<toChild, child, sent>>
  BY Zenon DEF ReadsException
<1>2. client.pc \in Reading /\ ~Sending
  BY <1>1 DEF Reading, Sending
<1>3. child.pc \in {"ready", "run", "result"} => toChild' = <<>>
  BY <1>1, <1>2, Quiet, Zenon
<1> QED
  BY <1>1, <1>2, <1>3, Fails, Zenon

LEMMA EndOfFileStep ==
  ASSUME ProtocolInv, EndOfFile
  PROVE  ProtocolInv'
<1>1. /\ client.pc \in Reading /\ child.pc = "exited" /\ Fail("process")
      /\ UNCHANGED <<toChild, child, sent>>
  BY Zenon DEF EndOfFile
<1>2. child.pc \notin {"ready", "run", "result"}
  BY <1>1
<1> QED
  BY <1>1, <1>2, Fails, Zenon

\* Dropping the session: it is no longer read.
LEMMA Leaves ==
  ASSUME ProtocolInv, client.pc \notin Reading, NEW pc \in {"dropping", "gone"}, Goto(pc),
         UNCHANGED <<toChild, fromChild, child, sent, results>>
  PROVE  ProtocolInv'
<1>1. client' \in Clients /\ client'.pc = pc
  <2>1. pc \in ClientPcs /\ TypeOK
    BY DEF ClientPcs, ProtocolInv
  <2> QED
    BY <2>1, GoesTo, Zenon
<1>2. client'.pc \notin Reading /\ client'.pc # "idle"
  BY <1>1 DEF Reading
<1>3. Sync'
  BY <1>2, Zenon DEF ProtocolInv, Sync
<1>4. Owned'
  BY <1>2, Zenon DEF ProtocolInv, Owned, ResultsAreOwn
<1>5. TypeOK'
  BY <1>1 DEF ProtocolInv, TypeOK, Clients
<1> QED
  BY <1>3, <1>4, <1>5 DEF ProtocolInv

LEMMA DropStep ==
  ASSUME ProtocolInv, Drop
  PROVE  ProtocolInv'
<1>1. /\ client.pc \in {"idle", "failed"} /\ Goto("dropping")
      /\ UNCHANGED <<toChild, fromChild, child, sent, results>>
  BY Zenon DEF Drop
<1>2. client.pc \notin Reading
  BY <1>1 DEF Reading
<1> QED
  BY <1>1, <1>2, Leaves, Zenon

LEMMA DroppedStep ==
  ASSUME ProtocolInv, Dropped
  PROVE  ProtocolInv'
<1>1. /\ client.pc = "dropping" /\ Goto("gone")
      /\ UNCHANGED <<toChild, fromChild, child, sent, results>>
  BY Zenon DEF Dropped
<1>2. client.pc \notin Reading
  BY <1>1 DEF Reading
<1> QED
  BY <1>1, <1>2, Leaves, Zenon

LEMMA RunCommandStep ==
  ASSUME ProtocolInv, RunCommand
  PROVE  ProtocolInv'
<1>1. client.pc = "idle" /\ sent' = sent + 1 /\ UNCHANGED <<fromChild, child>>
  BY Zenon DEF RunCommand
<1>2. client.pc \notin Reading
  BY <1>1 DEF Reading
<1>3. CASE child.pc = "exited" /\ Fail("io") /\ UNCHANGED toChild
  <2>1. child.pc \notin {"ready", "run", "result"}
    BY <1>3
  <2> QED
    BY <1>1, <1>2, <1>3, <2>1, Fails, Zenon
<1>4. CASE /\ child.pc # "exited" /\ toChild' = toChild \o CommandFrame(sent + 1)
           /\ client' = [client EXCEPT !.pc = "loop", !.inResponse = FALSE, !.text = <<>>]
           /\ UNCHANGED results
  <2>1. toChild = <<>> /\ fromChild = <<>> /\ child.pc = "ready"
    BY <1>1, <1>4, Zenon DEF ProtocolInv, Sync, Exited
  <2>2. sent \in Nat /\ sent' \in Nat
    BY <1>1 DEF ProtocolInv, TypeOK
  <2>3. toChild' = CommandFrame(sent')
    <3>1. CommandFrame(sent') \in Seq(Item)
      BY <2>2, CommandFrames
    <3> QED
      BY <1>1, <1>4, <2>1, <3>1, ConcatEmptySeq, Zenon
  <2>4. client' \in Clients /\ client'.pc = "loop" /\ ~client'.inResponse /\ client'.text = <<>>
    <3>1. client \in Clients
      BY DEF ProtocolInv, TypeOK, Clients
    <3>2. <<>> \in Seq(Nat)
      OBVIOUS
    <3> QED
      BY <1>4, <3>1, <3>2 DEF Clients, ClientPcs, Reading
  <2>5. CommandFrame(sent)' = CommandFrame(sent')
    OBVIOUS
  <2>6. Sending'
    BY <1>1, <2>1, <2>3, <2>4, Zenon DEF Sending
  <2>7. client'.pc \in Reading /\ client'.pc # "idle"
    BY <2>4 DEF Reading
  <2>8. Sync'
    BY <2>6, <2>7, Zenon DEF Sync
  <2>9. Owned'
    <3>1. Len(results) = sent /\ ResultsAreOwn
      BY <1>2 DEF ProtocolInv, Owned
    <3>2. Len(results') = sent' - 1
      BY <1>1, <1>4, <2>2, <3>1
    <3>3. ResultsAreOwn'
      BY <1>4, <3>1, Zenon DEF ResultsAreOwn
    <3> QED
      BY <2>7, <3>2, <3>3, Zenon DEF Owned
  <2>10. TypeOK'
    BY <1>1, <1>4, <2>2, <2>4 DEF ProtocolInv, TypeOK, Clients
  <2> QED
    BY <2>8, <2>9, <2>10 DEF ProtocolInv
<1> QED
  BY <1>3, <1>4, Zenon DEF RunCommand

LEMMA ClientSteps ==
  ASSUME ProtocolInv, RunCommand \/ Drop \/ ClientStep
  PROVE  ProtocolInv'
<1>1. CASE RunCommand
  BY <1>1, RunCommandStep
<1>2. CASE Drop
  BY <1>2, DropStep
<1>3. CASE LoopReads
  BY <1>3, LoopReadsStep
<1>4. CASE PayloadReads
  BY <1>4, PayloadReadsStep
<1>5. CASE Rejects
  BY <1>5, RejectsStep
<1>6. CASE AnswersQuery
  BY <1>6, AnswersQueryStep
<1>7. CASE ReadsWarnings
  BY <1>7, ReadsWarningsStep
<1>8. CASE ReadsException
  BY <1>8, ReadsExceptionStep
<1>9. CASE EndOfFile
  BY <1>9, EndOfFileStep
<1>10. CASE Dropped
  BY <1>10, DroppedStep
<1> QED
  BY <1>1, <1>2, <1>3, <1>4, <1>5, <1>6, <1>7, <1>8, <1>9, <1>10, Zenon DEF ClientStep

-----------------------------------------------------------------------------
(* The theorems.                                                           *)

LEMMA InitProtocolInv ==
  ASSUME Init
  PROVE  ProtocolInv
<1>1. TypeOK
  <2>1. <<>> \in Seq(Nat) /\ <<>> \in Seq(Outcomes) /\ 0 \in Nat
    OBVIOUS
  <2>2. client \in Clients
    BY <2>1 DEF Init, Clients, ClientPcs
  <2>3. child \in [pc : ChildPcs, back : {"run", "result"},
                   query : Queries \union {NoQuery}, asked : Nat, command : Nat]
    <3> DEFINE none == NoQuery
    <3>1. child = [pc |-> "ready", back |-> "run", query |-> none, asked |-> 0, command |-> 0]
      BY DEF Init
    <3>2. none \in Queries \union {NoQuery}
      OBVIOUS
    <3> HIDE DEF none
    <3> QED
      BY <3>1, <3>2 DEF ChildPcs
  <2>4. sent \in Nat /\ results \in Seq(Outcomes)
    BY <2>1, Zenon DEF Init
  <2> QED
    BY <2>2, <2>3, <2>4 DEF TypeOK, Clients, Outcomes
<1>2. client.pc = "idle" /\ child.pc = "ready" /\ toChild = <<>> /\ fromChild = <<>>
  BY DEF Init
<1>3. client.pc \notin Reading
  BY <1>2 DEF Reading
<1>4. Sync
  BY <1>2, <1>3, Zenon DEF Sync
<1>5. Owned
  <2>1. Len(results) = sent /\ DOMAIN results = {}
    BY DEF Init
  <2>2. ResultsAreOwn
    BY <2>1 DEF ResultsAreOwn
  <2> QED
    BY <1>3, <2>1, <2>2, Zenon DEF Owned
<1> QED
  BY <1>1, <1>4, <1>5 DEF ProtocolInv

LEMMA ProtocolStep ==
  ASSUME ProtocolInv, [Next]_vars
  PROVE  ProtocolInv'
<1>1. CASE RunCommand \/ Drop \/ ClientStep
  BY <1>1, ClientSteps
<1>2. CASE ChildStep \/ Crash
  BY <1>2, ChildSteps
<1>3. CASE UNCHANGED vars
  <2>1. UNCHANGED <<toChild, fromChild, client, child, sent, results>>
    BY <1>3 DEF vars
  <2>2. TypeOK'
    BY <2>1, Zenon DEF ProtocolInv, TypeOK
  <2>3. Owned'
    BY <2>1, Zenon DEF ProtocolInv, Owned, ResultsAreOwn
  <2>4. Sync'
    <3>1. /\ Warning' = Warning /\ WarningsEnded' = WarningsEnded /\ Closed' = Closed
          /\ Warnings' = Warnings /\ ResultEnded' = ResultEnded
          /\ JavaException' = JavaException /\ QueryFrame(child.query)' = QueryFrame(child.query)
      BY <2>1, PartsStay, Zenon DEF JavaException
    <3>2. (Ending => Ending') /\ (Querying => Querying') /\ (Over => Over')
      BY <2>1, <3>1, Zenon DEF Ending, Querying, Over, Exited
    <3>3. Sending => Sending'
      BY <2>1, Zenon DEF Sending, Exited
    <3>4. Following => Following'
      <4>1. SUFFICES ASSUME NEW mode \in {"run", "result"},
                            NEW tail \in {<<>>, QueryFrame(child.query), Warnings,
                                          JavaException, SecondHalf},
                            Writes(mode, tail), Follows(mode, tail)
                     PROVE  Following'
        BY Zenon DEF Following
      <4>2. /\ Writes(mode, tail)'
            /\ tail \in {<<>>, QueryFrame(child.query), Warnings, JavaException, SecondHalf}'
        BY <2>1, <4>1, ChildStays, Zenon
      <4>3. /\ FromHalf(tail)' = FromHalf(tail)
            /\ FromBody(mode, tail)' = FromBody(mode, tail)
            /\ FromResponse(mode, tail)' = FromResponse(mode, tail)
        BY <2>1, PartsStay, Zenon
      <4>4. Follows(mode, tail)'
        BY <2>1, <4>1, <4>3, Zenon DEF Follows
      <4> QED
        BY <4>2, <4>4, Zenon DEF Following
    <3> QED
      BY <2>1, <3>2, <3>3, <3>4, Zenon DEF ProtocolInv, Sync, Exited
  <2> QED
    BY <2>2, <2>3, <2>4 DEF ProtocolInv
<1> QED
  BY <1>1, <1>2, <1>3, Zenon DEF Next

\* At every moment of a session the two ends agree on what is in the pipes:
\* what the client has kept, what it has not read and what the child is about
\* to write make up one response to the command in progress, and every text
\* returned before was its own command's.
THEOREM ProtocolIsInvariant == Spec => []ProtocolInv
<1>1. Init => ProtocolInv
  BY InitProtocolInv
<1>2. ProtocolInv /\ [Next]_vars => ProtocolInv'
  BY ProtocolStep
<1> QED
  BY <1>1, <1>2, PTL DEF Spec

\* A command that returned left nothing behind in either pipe, whatever the
\* child was asked, however it interrupted its response and however it ended
\* it: the next response is read from its first burst.
THEOREM SessionStaysInSync == Spec => []InSync
<1>1. ProtocolInv => InSync
  BY Zenon DEF ProtocolInv, Sync, InSync, Exited
<1> QED
  BY <1>1, ProtocolIsInvariant, PTL

\* The text of every command that returned one is that command's, both halves
\* of its result or its warnings, for every program and every set of queries.
THEOREM TextsAreOwn == Spec => []ResultsAreOwn
<1>1. ProtocolInv => ResultsAreOwn
  BY Zenon DEF ProtocolInv, Owned
<1> QED
  BY <1>1, ProtocolIsInvariant, PTL
=============================================================================
