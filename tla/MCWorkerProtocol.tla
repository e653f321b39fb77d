-------------------------- MODULE MCWorkerProtocol --------------------------
(***************************************************************************)
(* Small instances of module WorkerProtocol for TLC: three functions, and  *)
(* a question of each kind the child can ask and the client can refuse.    *)
(***************************************************************************)
EXTENDS WorkerProtocol, TLC

Q(kind, addr, size, name) == [kind |-> kind, addr |-> addr, size |-> size, name |-> name]

\* Two groups of seven bits: 4096 and 4224 are 0x1000 and 0x1080.
MCFunctionName == [f \in {16, 4096, 4224} |-> <<f % 251>>]
MCFarFunctionName == [f \in {2048, 4096, 4224} |-> <<f % 251>>]
MCMemory == [a \in {16, 17, 4096, 4097, 4098, 4224} |-> a % 251]
MCSymbolName == [s \in {32} |-> <<77, 65>>]
MCRegisters == (<<69, 65, 88>> :> [offset |-> 300, size |-> 4])
                 @@ (<<65, 88>> :> [offset |-> 300, size |-> 2])
MCExternals == 32 :> <<105>>
MCComments == 16 :> <<[address |-> 17, type |-> <<119>>, text |-> <<104, 105>>]>>
MCStrings == 32 :> <<104, 105, 0, 111>>
MCDatatypes == {<<105>>}

MCQueries ==
  {Q("getMappedSymbols", 4224, 0, <<>>), Q("getMappedSymbols", 16, 0, <<>>),
   Q("getMappedSymbols", 17, 0, <<>>), Q("getBytes", 4096, 4, <<>>),
   Q("getBytes", 9, 4, <<>>), Q("isNameUsed", 4096, 3, <<77, 65>>),
   Q("getRegister", 0, 0, <<69, 65, 88>>), Q("getRegister", 0, 0, <<90>>),
   Q("getDatatype", 0, 0, <<106>>), Q("getCodeLabel", 32, 0, <<>>),
   Q("getExternalRef", 32, 0, <<>>), Q("getTrackedRegisters", 16, 0, <<>>),
   Q("getRegisterName", 300, 2, <<>>), Q("getRegisterName", 301, 2, <<>>),
   Q("getComments", 16, 0, <<>>), Q("getCallFixup", 0, 0, <<106>>), Q("getPcode", 16, 0, <<>>),
   Q("getUserOpName", 0, 3, <<>>),
   Q("getStringData", 32, 100, <<99, 104>>), Q("unsupported", 0, 3, <<>>)}
MCStringQueries == {Q("getStringData", 32, 100, <<99, 104>>), Q("getBytes", 4096, 4, <<>>)}

\* What the searches miss: an entry shorter than the others, and a name asked
\* for a scope whose id is the entry 2112, 0x840.
MCFarQueries == {Q("getMappedSymbols", 2048, 0, <<>>), Q("getMappedSymbols", 4096, 0, <<>>)}
MCNameQueries == {Q("isNameUsed", 4096, 2112, <<77, 65>>)}
=============================================================================
