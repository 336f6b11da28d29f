----------------------------- MODULE HdbIpcCall -----------------------------
(***************************************************************************)
(* The request path of HdbIpc implements the contract of HdbCall.          *)
(***************************************************************************)
EXTENDS HdbIpc

(* A call that ended without an answer is lost when its whole request had  *)
(* been sent, else settled: half a frame is never handled.  The adapter    *)
(* also answers HDB_ERR_NOT_CONNECTED, so that code settles nothing.       *)
Phase(k) ==
  IF pc[k] = "idle" THEN "idle"
  ELSE IF pc[k] \in Active THEN "running"
  ELSE IF upParts[k] = FrameParts /\ ret[k] \in {"none", "HDB_ERR_NOT_CONNECTED"} THEN "lost"
  ELSE "settled"

Outcome(k) ==
  CASE ret[k] \in {"none", "HDB_ERR_NOT_CONNECTED"} -> "none"
    [] ret[k] = "HDB_OK"              -> "ok"
    [] ret[k] = "HDB_ERR_QUERY_RANGE" -> "refused"
    [] OTHER                          -> "unknown"

Call == INSTANCE HdbCall WITH
          phase   <- [k \in Calls |-> Phase(k)],
          applied <- [k \in Calls |-> executed[k] > 0],
          outcome <- [k \in Calls |-> Outcome(k)]

(* Every behaviour of the DLL, the sockets, the server loop and the         *)
(* database link, faults included, is one of the caller's contract: applied *)
(* at most once and truthfully answered (HdbDllRequest, RunIpcServer).      *)
ImplementsCall == Call!Spec
=============================================================================
