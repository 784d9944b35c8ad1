----------------------------- MODULE MCFfiHandles -----------------------------
(* Two foreign threads over the engines of one process.                      *)
EXTENDS FfiHandles
CONSTANTS t1, t2
MCCallers == {t1, t2}
MCEngines == {1}
==============================================================================
