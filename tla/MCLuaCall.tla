----------------------------- MODULE MCLuaCall -----------------------------
(***************************************************************************)
(* A call of any kind beside another request that loads a script, over one  *)
(* edit of each of the two scripts.                                        *)
(***************************************************************************)
EXTENDS LuaCall

MCScripts == {"init", "route"}
MCCalls   == {"c1", "c2"}
MCVms     == {"c1"}
=============================================================================
