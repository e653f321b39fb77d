-------------------------- MODULE MCConsoleSession --------------------------
(***************************************************************************)
(* Two addresses, of which the image may lack the first one's bytes; it is *)
(* asked about last (MCBatches) or not (MCSplitBatches).                   *)
(***************************************************************************)
EXTENDS ConsoleSession

MCImages ==
  {<<first, second>> : first \in {"ok", "bad", "unmapped"}, second \in {"ok", "unimpl"}}
MCBatches == {<<1>>, <<2, 1>>, <<2>>}
MCSplitBatches == {<<1, 2>>}
MCSplitImages == {<<"unmapped", "ok">>}
=============================================================================
