-------------------------- MODULE HdbIpcCallProofs --------------------------
(***************************************************************************)
(* Proof that the request path implements the caller's contract: every     *)
(* step of HdbIpc is a step of HdbCall or leaves its variables alone.      *)
(***************************************************************************)
EXTENDS HdbIpcCall, HdbIpcProofs

phaseBar   == [k \in Calls |-> Phase(k)]
appliedBar == [k \in Calls |-> executed[k] > 0]
outcomeBar == [k \in Calls |-> Outcome(k)]

BarsKept == UNCHANGED <<phaseBar, appliedBar, outcomeBar>>

LEMMA StutterBar ==
  ASSUME BarsKept
  PROVE  UNCHANGED Call!vars
BY DEF BarsKept, phaseBar, appliedBar, outcomeBar, Call!vars

(* Steps that leave the progress of every call alone.                      *)
LEMMA SameProgress ==
  ASSUME UNCHANGED <<pc, ret, upParts, executed>>
  PROVE  BarsKept
BY DEF BarsKept, phaseBar, appliedBar, outcomeBar, Phase, Outcome

(* Steps of one call on its way.                                           *)
LEMMA CallProgress ==
  ASSUME IInv, NEW k \in Calls,
         \/ StoreSequence(k) \/ WrapSequence(k) \/ Connect(k) \/ SendPart(k) \/ CopyError(k)
  PROVE  BarsKept
<1>1. /\ pc \in [Calls -> {"idle"} \cup Active \cup Settled] /\ UNCHANGED <<ret, executed>>
      /\ upParts \in [Calls -> 0 .. FrameParts]
      /\ \/ pc[k] \in Active /\ \E p \in Active : pc' = [pc EXCEPT ![k] = p]
         \/ pc[k] = "failed" /\ pc' = [pc EXCEPT ![k] = "returned"]
  BY DEF IInv, TypeOK, DllType, TcpType, StoreSequence, WrapSequence, Connect, SendPart,
         CopyError, Active, dbVars
<1>2. \A j \in Calls : upParts'[j] = upParts[j] \/ (pc[k] \in Active /\ j = k)
  BY <1>1 DEF StoreSequence, WrapSequence, Connect, SendPart, CopyError, Active, tcpVars
<1>3. \A j \in Calls : Phase(j)' = Phase(j)
  BY <1>1, <1>2 DEF Phase, Active
<1>4. \A j \in Calls : Outcome(j)' = Outcome(j)
  BY <1>1 DEF Outcome
<1>. QED  BY <1>1, <1>3, <1>4 DEF BarsKept, phaseBar, appliedBar, outcomeBar

LEMMA LoadStarts ==
  ASSUME IInv, NEW k \in Calls, LoadSequence(k)
  PROVE  Call!Start(k)
<1>1. /\ pc \in [Calls -> {"idle"} \cup Active \cup Settled]
      /\ pc[k] = "idle" /\ pc' = [pc EXCEPT ![k] = "loaded"]
      /\ UNCHANGED <<ret, upParts, executed>>
  BY DEF IInv, TypeOK, DllType, LoadSequence, tcpVars, dbVars
<1>2. /\ Phase(k) = "idle" /\ Phase(k)' = "running"
      /\ \A j \in Calls \ {k} : Phase(j)' = Phase(j)
      /\ \A j \in Calls : Outcome(j)' = Outcome(j)
  BY <1>1 DEF Phase, Outcome, Active
<1>. QED  BY <1>1, <1>2 DEF Call!Start

(* A call that ends: with an answer, or without one.                       *)
LEMMA EndsBar ==
  ASSUME IInv, NEW k \in Calls, NEW code \in Codes,
         pc[k] \in Active, NEW p \in {"failed", "returned"},
         pc' = [pc EXCEPT ![k] = p], ret' = [ret EXCEPT ![k] = code],
         UNCHANGED <<upParts, executed>>,
         code = "HDB_OK" => executed[k] = 1,
         code = "HDB_ERR_QUERY_RANGE" => executed[k] = 0
  PROVE  Call!Next
<1>1. /\ pc \in [Calls -> {"idle"} \cup Active \cup Settled]
      /\ ret \in [Calls -> Codes \cup {"none"}] /\ ret[k] = "none"
  BY DEF IInv, TypeOK, DllType, CallInv
<1>2. /\ Phase(k) = "running" /\ Outcome(k) = "none"
      /\ \A j \in Calls \ {k} : Phase(j)' = Phase(j) /\ Outcome(j)' = Outcome(j)
  BY <1>1 DEF Phase, Outcome, Active
<1>3. CASE code # "HDB_ERR_NOT_CONNECTED"
  <2>1. Phase(k)' = "settled" /\ Outcome(k)' \in {"ok", "refused", "unknown"}
    BY <1>1, <1>3 DEF Phase, Outcome, Active, Codes
  <2>2. /\ Outcome(k)' = "ok" => executed[k] > 0
        /\ Outcome(k)' = "refused" => ~(executed[k] > 0)
    BY <1>1, <1>3 DEF Outcome, Codes
  <2>3. Call!Answer(k, Outcome(k)')
    BY <1>2, <2>1, <2>2 DEF Call!Answer
  <2>. QED  BY <2>1, <2>3 DEF Call!Next
<1>4. CASE code = "HDB_ERR_NOT_CONNECTED"
  <2>1. Phase(k)' \in {"settled", "lost"} /\ Outcome(k)' = "none"
    BY <1>1, <1>4 DEF Phase, Outcome, Active
  <2>2. Call!Abandon({k})
    <3> DEFINE T == IF Phase(k)' = "lost" THEN {k} ELSE {}
    <3>1. T \in SUBSET {j \in {k} : phaseBar[j] = "running"}
      BY <1>2 DEF phaseBar
    <3>2. \A j \in Calls : Phase(j)' = IF j \in T THEN "lost"
                                       ELSE IF j \in {k} THEN "settled" ELSE phaseBar[j]
      BY <1>2, <2>1 DEF phaseBar
    <3>3. \A j \in Calls : Outcome(j)' = Outcome(j)
      BY <1>2, <2>1
    <3>. QED  BY <1>2, <3>1, <3>2, <3>3 DEF Call!Abandon, phaseBar
  <2>. QED  BY <2>2 DEF Call!Next
<1>. QED  BY <1>3, <1>4

LEMMA FailEnds ==
  ASSUME IInv, NEW k \in Calls, NEW code \in Codes, Fail(k, code), pc[k] \in Active,
         UNCHANGED <<tcpVars, srvVars, dbVars, faults>>,
         code = "HDB_OK" => executed[k] = 1,
         code = "HDB_ERR_QUERY_RANGE" => executed[k] = 0
  PROVE  Call!Next
BY EndsBar DEF Fail, tcpVars, dbVars

LEMMA ResponseEnds ==
  ASSUME IInv, NEW k \in Calls, RecvResponse(k)
  PROVE  Call!Next
<1>1. /\ Truthful(downFrame[k]) /\ downFrame[k].call = k
      /\ ResponseCode(k) \in Codes
      /\ ResponseCode(k) \in {"HDB_ERR_BUFFER", downFrame[k].status}
  BY ResponseRead DEF RecvResponse
<1>2. /\ ResponseCode(k) = "HDB_OK" => executed[k] = 1
      /\ ResponseCode(k) = "HDB_ERR_QUERY_RANGE" => executed[k] = 0
  BY <1>1 DEF Truthful
<1>3. UNCHANGED <<tcpVars, srvVars, dbVars, faults>> /\ pc[k] \in Active
  BY DEF RecvResponse, Active
<1>4. CASE Fail(k, ResponseCode(k))
  BY <1>1, <1>2, <1>3, <1>4, FailEnds
<1>5. CASE /\ ResponseCode(k) = "HDB_OK" /\ pc' = [pc EXCEPT ![k] = "returned"]
           /\ \E code \in {"HDB_OK", "HDB_ERR_BUFFER"} : ret' = [ret EXCEPT ![k] = code]
  <2>1. PICK code \in {"HDB_OK", "HDB_ERR_BUFFER"} : ret' = [ret EXCEPT ![k] = code]
    BY <1>5
  <2>. QED  BY <1>2, <1>3, <1>5, <2>1, EndsBar DEF Codes, tcpVars, dbVars
<1>. QED  BY <1>4, <1>5 DEF RecvResponse

LEMMA FailuresEnd ==
  ASSUME IInv, NEW k \in Calls,
         BuildFails(k) \/ ConnectFails(k) \/ SendFails(k) \/ RecvFails(k)
  PROVE  Call!Next
<1>1. PICK code \in {"HDB_ERR_BUFFER", "HDB_ERR_NOT_CONNECTED"} : Fail(k, code)
  BY DEF BuildFails, ConnectFails, SendFails, RecvFails
<1>2. pc[k] \in Active /\ UNCHANGED <<tcpVars, srvVars, dbVars, faults>>
  BY DEF BuildFails, ConnectFails, SendFails, RecvFails, Active
<1>. QED  BY <1>1, <1>2, FailEnds DEF Codes

(* The server executes only a call whose caller waits or has lost it.      *)
LEMMA HandleApplies ==
  ASSUME IInv, HandleRequest
  PROVE  BarsKept \/ Call!Next
<1>1. /\ cur \in Calls /\ request \in Requests /\ request.call = cur /\ Untouched(cur)
      /\ upParts[cur] = FrameParts /\ sock[cur] = "accepted"
      /\ DbType /\ ServerType /\ DllType /\ CallInv(cur)
      /\ UNCHANGED <<pc, ret, upParts>>
  BY DEF HandleRequest, IInv, TypeOK, ServingInv, ServerType, ConnectionsAccounted,
         dllVars, tcpVars
<1>2. executed' = executed \/ executed' = [executed EXCEPT ![cur] = 1]
  BY <1>1 DEF HandleRequest, AdapterExec, Untouched
<1>3. CASE executed' = executed
  BY <1>1, <1>3, SameProgress
<1>4. CASE executed' = [executed EXCEPT ![cur] = 1]
  <2>1. Phase(cur) \in {"running", "lost"}
    BY <1>1, IpcAssumption DEF Phase, CallInv, Untouched, DllType, Active, Settled
  <2>2. \A j \in Calls : Phase(j)' = Phase(j) /\ Outcome(j)' = Outcome(j)
    BY <1>1 DEF Phase, Outcome
  <2>3. ~(executed[cur] > 0)
    BY <1>1 DEF Untouched
  <2>4. /\ executed'[cur] > 0
        /\ \A j \in Calls \ {cur} : executed'[j] = executed[j]
    BY <1>1, <1>4 DEF DbType
  <2>5. PICK k \in Calls : k = cur
    BY <1>1
  <2>6. Call!Apply(k)
    BY <1>1, <2>1, <2>2, <2>3, <2>4, <2>5 DEF Call!Apply
  <2>. QED  BY <2>6 DEF Call!Next
<1>. QED  BY <1>2, <1>3, <1>4

LEMMA DllDiesAbandons ==
  ASSUME IInv, NEW s \in Sessions, DllDies(s)
  PROVE  Call!Next
<1> DEFINE S == {k \in Calls : SessionOf[k] = s /\ pc[k] \in {"idle"} \cup Active}
           T == {k \in S : pc[k] # "idle" /\ upParts[k] = FrameParts}
<1>1. /\ DllType /\ \A k \in Calls : CallInv(k)
      /\ pc' = [k \in Calls |-> IF SessionOf[k] = s /\ pc[k] # "returned" THEN "dead" ELSE pc[k]]
      /\ UNCHANGED <<ret, upParts, executed>>
  BY DEF IInv, TypeOK, DllDies, tcpVars, dbVars
<1>2. S # {} /\ S \in SUBSET Calls
  BY DEF DllDies
<1>3. \A k \in S : Phase(k) = (IF pc[k] = "idle" THEN "idle" ELSE "running")
  BY DEF Phase, Active
<1>4. \A k \in Calls : Phase(k)' = IF k \in T THEN "lost"
                                   ELSE IF k \in S THEN "settled" ELSE Phase(k)
  <2> SUFFICES ASSUME NEW k \in Calls
               PROVE  Phase(k)' = IF k \in T THEN "lost"
                                  ELSE IF k \in S THEN "settled" ELSE Phase(k)
    OBVIOUS
  <2>1. CASE k \in S
    <3>1. pc'[k] = "dead" /\ ret[k] = "none" /\ (pc[k] = "idle" => upParts[k] # FrameParts)
      BY <1>1, <2>1, IpcAssumption DEF CallInv, Active
    <3>. QED  BY <1>1, <2>1, <3>1 DEF Phase, Active
  <2>2. CASE k \notin S
    <3>1. pc'[k] = pc[k] \/ (pc[k] \in {"failed", "dead"} /\ pc'[k] = "dead")
      BY <1>1, <2>2 DEF DllType, Active, Settled
    <3>. QED  BY <1>1, <2>2, <3>1 DEF Phase, Active
  <2>. QED  BY <2>1, <2>2
<1>5. \A k \in Calls : Outcome(k)' = Outcome(k)
  BY <1>1 DEF Outcome
<1>6. T \in SUBSET {k \in S : phaseBar[k] = "running"}
  BY <1>3 DEF phaseBar
<1>7. Call!Abandon(S)
  BY <1>1, <1>2, <1>3, <1>4, <1>5, <1>6 DEF Call!Abandon, phaseBar
<1>. QED  BY <1>2, <1>7 DEF Call!Next

(* Every step of the detailed specification is one of the contract.        *)
LEMMA StepImplements ==
  ASSUME IInv, [Next]_vars
  PROVE  [Call!Next]_Call!vars
<1>. SUFFICES BarsKept \/ Call!Next
  BY StutterBar
<1>1. ASSUME NEW k \in Calls, CallStep(k)
      PROVE  BarsKept \/ Call!Next
  <2>1. CASE LoadSequence(k)
    BY <2>1, LoadStarts DEF Call!Next
  <2>2. CASE BuildFails(k) \/ ConnectFails(k) \/ SendFails(k) \/ RecvFails(k)
    BY <2>2, FailuresEnd
  <2>3. CASE RecvResponse(k)
    BY <2>3, ResponseEnds
  <2>. QED  BY <1>1, <2>1, <2>2, <2>3, CallProgress DEF CallStep
<1>2. CASE HandleRequest
  BY <1>2, HandleApplies
<1>3. ASSUME NEW s \in Sessions, DllDies(s)
      PROVE  Call!Next
  BY <1>3, DllDiesAbandons
<1>4. CASE \/ StartServer \/ Accept \/ RecvFrame \/ SendFrame \/ Close
           \/ ServerDies \/ (\E k \in Calls : ConnectionReset(k)) \/ DbLinkBreaks
           \/ UNCHANGED vars
  <2>1. UNCHANGED <<pc, ret, upParts, executed>>
    BY <1>4 DEF StartServer, Accept, RecvFrame, SendFrame, Close, ServerDies,
       ConnectionReset, DbLinkBreaks, vars, dllVars, tcpVars, dbVars
  <2>. QED  BY <2>1, SameProgress
<1>. QED  BY <1>1, <1>2, <1>3, <1>4 DEF Next, ServerStep, FaultStep

LEMMA InitImplements ==
  ASSUME Init
  PROVE  Call!Init
<1>1. /\ [k \in Calls |-> Phase(k)] = [k \in Calls |-> "idle"]
      /\ [k \in Calls |-> Outcome(k)] = [k \in Calls |-> "none"]
  BY DEF Init, Phase, Outcome
<1>2. [k \in Calls |-> executed[k] > 0] = [k \in Calls |-> FALSE]
  <2>1. \A k \in Calls : (executed[k] > 0) = FALSE
    BY DEF Init
  <2>. QED  BY <2>1, Zenon
<1>. QED  BY <1>1, <1>2 DEF Call!Init

(* A caller of the DLL may rely on HdbCall: whatever crashes, restarts or   *)
(* is cut, HdbDllRequest, RunIpcServer and the adapter together apply a     *)
(* call at most once and answer it truthfully.                              *)
THEOREM RequestPathImplementsCall == Spec => ImplementsCall
BY InitImplements, StepImplements, RequestPathInvariant, PTL DEF Spec, ImplementsCall, Call!Spec
=============================================================================
