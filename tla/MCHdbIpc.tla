------------------------------ MODULE MCHdbIpc ------------------------------
(***************************************************************************)
(* Instances of HdbIpc for TLC.  Two or three calls are enough for every   *)
(* pair of calls to meet at the server, in the listen queue and in the     *)
(* session; two sessions both start at sequence 1.                         *)
(***************************************************************************)
EXTENDS HdbIpcCall

CONSTANTS k1, k2, k3, s1, s2

(* Two calls of one session and one of another.                            *)
TwoSessions == k1 :> s1 @@ k2 :> s1 @@ k3 :> s2

(* All calls of one session.                                               *)
OneSession == [k \in Calls |-> s1]

MixedCommands ==
  [k \in Calls |-> CASE k = k1 -> "QUERY_EXECUTE_AFFECTED"
                     [] k = k2 -> "QUERY_EXECUTE_AFFECTED"
                     [] OTHER  -> "DB_PING"]

SameCommand == [k \in Calls |-> "QUERY_EXECUTE_AFFECTED"]
=============================================================================
