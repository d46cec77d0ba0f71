------------------------- MODULE MCChangeDelivery -------------------------
(***************************************************************************)
(* Two flushes and another peer that sends junk, notifications, requests     *)
(* with everything wrong or nothing.                                         *)
(***************************************************************************)
EXTENDS ChangeDelivery

CONSTANT peer
Good(method) == Request(peer, method, {})
MCInputs == [c \in {peer} |->
  {<<Good("analysis")>>, <<Good("maintenance")>>, <<BadFrame>>, <<BadJson, Good("read")>>,
   <<Request(NoId, "shutdown", {}), Request(peer, "maintenance", {"token", "params", "root"})>>}]
MCMistakes == {{}, {"token"}}
============================================================================
