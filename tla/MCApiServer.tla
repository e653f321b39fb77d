----------------------------- MODULE MCApiServer -----------------------------
(***************************************************************************)
(* ApiServer with two callers, who ask for commands of the Core, an import *)
(* or a disassembly, a decompilation, a debugger command, a method that    *)
(* does not exist, and live memory at two addresses of one stub, at        *)
(* another stub, and with a count that is refused.                         *)
(***************************************************************************)
EXTENDS ApiServer

CONSTANTS t1, t2

Live(e, a, n) == [method |-> "memory_live", endpoint |-> e, address |-> a, count |-> n]

MCAsks == [c \in {t1, t2} |->
  IF c = t1
  THEN {[method |-> "core"], [method |-> "native"], [method |-> "debug"],
         Live("e1", 1, 1), Live("e2", 1, 1)}
  ELSE {[method |-> "decompile_doc"], [method |-> "unknown"], [method |-> "debug"],
        Live("e1", 2, 1), Live("e1", 1, 0)}]
=============================================================================
