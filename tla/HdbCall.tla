------------------------------ MODULE HdbCall ------------------------------
(***************************************************************************)
(* What a caller of HdbPing, HdbQueryExecute and HdbQueryExecuteAffected   *)
(* may rely on, with no transport, no server and no database in sight: a   *)
(* call is applied at most once, an answer tells the truth about it, and a *)
(* call that was answered is never applied later.  A call that lost its    *)
(* answer may have been applied, and may still be.                         *)
(***************************************************************************)
CONSTANT Calls

VARIABLES
  phase,    (* where the call stands for its caller                        *)
  applied,  (* whether the database ran it                                 *)
  outcome   (* what the caller was told                                    *)

vars == <<phase, applied, outcome>>

Init ==
  /\ phase = [k \in Calls |-> "idle"]
  /\ applied = [k \in Calls |-> FALSE]
  /\ outcome = [k \in Calls |-> "none"]

Start(k) ==
  /\ phase[k] = "idle"
  /\ phase' = [phase EXCEPT ![k] = "running"]
  /\ UNCHANGED <<applied, outcome>>

(* "lost" is a request that reached the server and whose answer did not    *)
(* come back: it may be applied after its caller has returned.             *)
Apply(k) ==
  /\ phase[k] \in {"running", "lost"}
  /\ ~applied[k]
  /\ applied' = [applied EXCEPT ![k] = TRUE]
  /\ UNCHANGED <<phase, outcome>>

Answer(k, o) ==
  /\ phase[k] = "running"
  /\ o = "ok" => applied[k]
  /\ o = "refused" => ~applied[k]
  /\ phase' = [phase EXCEPT ![k] = "settled"]
  /\ outcome' = [outcome EXCEPT ![k] = o]
  /\ UNCHANGED applied

(* Calls that end without an answer: a transport failure ends one, the     *)
(* death of a process all calls of its session, started or not.            *)
Abandon(S) ==
  /\ S # {} /\ \A k \in S : phase[k] \in {"idle", "running"}
  /\ \E T \in SUBSET {k \in S : phase[k] = "running"} :
       phase' = [k \in Calls |-> IF k \in T THEN "lost"
                                 ELSE IF k \in S THEN "settled" ELSE phase[k]]
  /\ UNCHANGED <<applied, outcome>>

Next ==
  \/ \E k \in Calls : Start(k) \/ Apply(k)
  \/ \E k \in Calls, o \in {"ok", "refused", "unknown"} : Answer(k, o)
  \/ \E S \in SUBSET Calls : Abandon(S)

Spec == Init /\ [][Next]_vars
=============================================================================
