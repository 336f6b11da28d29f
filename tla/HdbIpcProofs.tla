---------------------------- MODULE HdbIpcProofs ----------------------------
(***************************************************************************)
(* Proofs about HdbIpc: the type invariant, that the server accounts for   *)
(* its connections, that a statement runs at most once, that a response    *)
(* reaches the call it answers, that return codes are honest and that an   *)
(* answered call is settled; all for any set of calls and sessions, any    *)
(* sharing of sessions and any number of faults.                           *)
(***************************************************************************)
EXTENDS HdbIpc, TLAPS

(* What a response frame claims is true of the call it names.              *)
Truthful(f) ==
  /\ f.status = "HDB_OK" => executed[f.call] = 1
  /\ f.status = "HDB_ERR_QUERY_RANGE" => executed[f.call] = 0

(* A call the server has not begun to handle.                              *)
Untouched(k) == executed[k] = 0 /\ downParts[k] = 0 /\ downFrame[k] = NoFrame

(* The server's side: it serves exactly one accepted connection, and what  *)
(* it holds in its frame buffers belongs to that connection.               *)
ServingInv ==
  /\ srvPc \in {"down", "accept"} <=> cur = NoCall
  /\ srvPc = "down" => backlog = <<>>
  /\ srvPc \in {"recv", "handle"} => Untouched(cur)
  /\ srvPc = "handle" => /\ request \in Requests /\ request.call = cur
                         /\ upParts[cur] = FrameParts
  /\ srvPc = "send" => /\ response \in Responses /\ response.call = cur
                       /\ Truthful(response)
                       /\ downParts[cur] < FrameParts

(* One call: before Connect it has no connection, before Accept nothing    *)
(* happened to it, and a call that got an answer was answered truthfully.  *)
CallInv(k) ==
  /\ pc[k] \in {"idle", "loaded", "stored", "connect"} => sock[k] = "none" /\ upParts[k] = 0
  /\ pc[k] = "send" => upParts[k] < FrameParts
  /\ sock[k] \in {"none", "queued"} => Untouched(k)
  /\ executed[k] <= 1
  /\ downParts[k] > 0 => downFrame[k] # NoFrame
  /\ downFrame[k] # NoFrame => downFrame[k].call = k /\ Truthful(downFrame[k])
  /\ pc[k] \in {"idle"} \cup Active => ret[k] = "none"
  /\ pc[k] \in {"failed", "returned"} => ret[k] # "none"
  /\ ret[k] = "HDB_OK" => executed[k] = 1
  /\ ret[k] = "HDB_ERR_QUERY_RANGE" => executed[k] = 0
  /\ ret[k] \notin {"none", "HDB_ERR_NOT_CONNECTED"} =>
       sock[k] = "none" \/ downFrame[k] # NoFrame

IInv ==
  /\ TypeOK
  /\ ConnectionsAccounted
  /\ ServingInv
  /\ \A k \in Calls : CallInv(k)

-----------------------------------------------------------------------------
(* Types of what the actions build.                                        *)

LEMMA SequenceValues ==
  /\ 0 \in Sequences /\ 1 \in Sequences
  /\ \A n \in Sequences : (n + 1) % SeqSpace \in Sequences
BY IpcAssumption DEF Sequences

LEMMA FailType ==
  ASSUME DllType, NEW k \in Calls, NEW code \in Codes, Fail(k, code)
  PROVE  DllType'
BY IpcAssumption DEF DllType, Fail, Active, Settled

LEMMA DllTypeKept ==
  ASSUME DllType, UNCHANGED dllVars
  PROVE  DllType'
BY DEF DllType, dllVars

LEMMA TcpTypeKept ==
  ASSUME TcpType, UNCHANGED tcpVars
  PROVE  TcpType'
BY DEF TcpType, tcpVars

LEMMA ServerTypeKept ==
  ASSUME ServerType, UNCHANGED srvVars
  PROVE  ServerType'
BY DEF ServerType, srvVars

LEMMA DbTypeKept ==
  ASSUME DbType, UNCHANGED <<dbVars, faults>>
  PROVE  DbType'
BY DEF DbType, dbVars

(* Steps of the DLL that touch neither a socket nor the server.            *)
LEMMA LocalStep ==
  ASSUME IInv, DllType', UNCHANGED <<tcpVars, srvVars, dbVars, faults>>,
         \A k \in Calls : CallInv(k)'
  PROVE  IInv'
<1>1. TypeOK'
  BY TcpTypeKept, ServerTypeKept, DbTypeKept DEF IInv, TypeOK
<1>2. ConnectionsAccounted'
  BY DEF IInv, ConnectionsAccounted, tcpVars, srvVars
<1>3. ServingInv'
  BY DEF IInv, ServingInv, Untouched, Truthful, tcpVars, srvVars, dbVars
<1>. QED  BY <1>1, <1>2, <1>3 DEF IInv

(* A call that fails before or without an answer.                          *)
LEMMA FailStep ==
  ASSUME IInv, NEW k \in Calls, NEW code \in Codes, Fail(k, code),
         UNCHANGED <<tcpVars, srvVars, dbVars, faults>>,
         code \in {"HDB_OK", "HDB_ERR_QUERY_RANGE"} =>
           downFrame[k] # NoFrame /\ downFrame[k].status = code,
         code # "HDB_ERR_NOT_CONNECTED" => sock[k] = "none" \/ downFrame[k] # NoFrame
  PROVE  IInv'
<1>1. DllType'
  BY FailType DEF IInv, TypeOK
<1>2. ASSUME NEW j \in Calls
      PROVE  CallInv(j)'
  <2>1. CallInv(j) /\ CallInv(k) /\ DllType
    BY DEF IInv, TypeOK
  <2>2. CASE j = k
    BY <2>1, <2>2 DEF CallInv, Untouched, Truthful, Fail, DllType, Active, Codes, tcpVars, dbVars
  <2>3. CASE j # k
    BY <2>1, <2>3 DEF CallInv, Untouched, Truthful, Fail, DllType, Active, Codes, tcpVars, dbVars
  <2>. QED  BY <2>2, <2>3
<1>. QED  BY <1>1, <1>2, LocalStep

-----------------------------------------------------------------------------
(* One lemma per action: it preserves IInv.  First the DLL.                *)

LEMMA PrepareStep ==
  ASSUME IInv, NEW k \in Calls, LoadSequence(k) \/ StoreSequence(k) \/ WrapSequence(k)
  PROVE  IInv'
<1>1. DllType /\ UNCHANGED <<ret, tcpVars, srvVars, dbVars, faults>>
  BY DEF IInv, TypeOK, LoadSequence, StoreSequence, WrapSequence
<1>2. DllType'
  <2>1. CASE LoadSequence(k)
    BY <1>1, <2>1, IpcAssumption DEF DllType, LoadSequence, Active, Settled
  <2>2. CASE StoreSequence(k)
    BY <1>1, <2>2, IpcAssumption, SequenceValues DEF DllType, StoreSequence, Active, Settled
  <2>3. CASE WrapSequence(k)
    BY <1>1, <2>3, IpcAssumption, SequenceValues DEF DllType, WrapSequence, Active, Settled
  <2>. QED  BY <2>1, <2>2, <2>3
<1>3. ASSUME NEW j \in Calls
      PROVE  CallInv(j)'
  <2>1. /\ pc[k] \in {"idle", "loaded", "stored"}
        /\ \/ pc' = [pc EXCEPT ![k] = "loaded"]
           \/ pc' = [pc EXCEPT ![k] = "stored"]
           \/ pc' = [pc EXCEPT ![k] = "connect"]
    BY DEF LoadSequence, StoreSequence, WrapSequence
  <2>. QED
    BY <1>1, <2>1 DEF IInv, DllType, CallInv, Active, Untouched, Truthful, tcpVars, dbVars
<1>. QED  BY <1>1, <1>2, <1>3, LocalStep

LEMMA BeforeAnswerFails ==
  ASSUME IInv, NEW k \in Calls,
         BuildFails(k) \/ ConnectFails(k) \/ SendFails(k) \/ RecvFails(k)
  PROVE  IInv'
<1>1. CASE BuildFails(k)
  <2>1. sock[k] = "none"
    BY <1>1 DEF IInv, CallInv, BuildFails
  <2>. QED  BY <1>1, <2>1, FailStep DEF BuildFails, Codes
<1>2. CASE ConnectFails(k) \/ SendFails(k) \/ RecvFails(k)
  BY <1>2, FailStep DEF ConnectFails, SendFails, RecvFails, Codes
<1>. QED  BY <1>1, <1>2

(* A complete response is one the server sent, so ResponseCode is its      *)
(* status or HDB_ERR_BUFFER.                                               *)
LEMMA ResponseRead ==
  ASSUME IInv, NEW k \in Calls, downParts[k] = FrameParts
  PROVE  /\ downFrame[k] \in Responses /\ Truthful(downFrame[k]) /\ downFrame[k].call = k
         /\ ResponseCode(k) \in Codes
         /\ ResponseCode(k) \in {"HDB_ERR_BUFFER", downFrame[k].status}
<1>1. downFrame[k] # NoFrame
  BY IpcAssumption DEF IInv, CallInv
<1>2. downFrame[k] \in Responses
  BY <1>1 DEF IInv, TypeOK, TcpType
<1>3. ResponseCode(k) \in {"HDB_ERR_BUFFER", downFrame[k].status}
  BY DEF ResponseCode
<1>4. ResponseCode(k) \in Codes
  BY <1>2, <1>3 DEF Responses, Codes
<1>. QED  BY <1>1, <1>2, <1>3, <1>4 DEF IInv, CallInv

LEMMA RecvResponseStep ==
  ASSUME IInv, NEW k \in Calls, RecvResponse(k)
  PROVE  IInv'
<1>1. /\ downFrame[k] \in Responses /\ Truthful(downFrame[k]) /\ downFrame[k].call = k
      /\ ResponseCode(k) \in Codes
      /\ ResponseCode(k) \in {"HDB_ERR_BUFFER", downFrame[k].status}
      /\ downFrame[k] # NoFrame
  BY ResponseRead, NoFrameAssumption DEF RecvResponse
<1>2. UNCHANGED <<tcpVars, srvVars, dbVars, faults>>
  BY DEF RecvResponse
<1>3. CASE Fail(k, ResponseCode(k))
  BY <1>1, <1>2, <1>3, FailStep DEF Codes
<1>4. CASE /\ ResponseCode(k) = "HDB_OK"
           /\ ret' \in {[ret EXCEPT ![k] = "HDB_OK"], [ret EXCEPT ![k] = "HDB_ERR_BUFFER"]}
           /\ lastError' \in {lastError, [lastError EXCEPT ![SessionOf[k]] = k]}
           /\ errorText' \in {errorText, [errorText EXCEPT ![k] = k]}
           /\ pc' = [pc EXCEPT ![k] = "returned"]
           /\ UNCHANGED <<nextSequence, sequence>>
  <2>1. executed[k] = 1
    BY <1>1, <1>4 DEF Truthful
  <2>2. DllType /\ \A j \in Calls : CallInv(j)
    BY DEF IInv, TypeOK
  <2>3. DllType'
    BY <1>4, <2>2, IpcAssumption DEF DllType, Codes, Settled
  <2>4. ASSUME NEW j \in Calls
        PROVE  CallInv(j)'
    BY <1>1, <1>2, <1>4, <2>1, <2>2
       DEF CallInv, Active, Untouched, Truthful, DllType, tcpVars, dbVars
  <2>. QED  BY <1>2, <2>3, <2>4, LocalStep
<1>. QED  BY <1>3, <1>4 DEF RecvResponse

LEMMA CopyErrorStep ==
  ASSUME IInv, NEW k \in Calls, CopyError(k)
  PROVE  IInv'
<1>1. DllType /\ \A j \in Calls : CallInv(j)
  BY DEF IInv, TypeOK
<1>2. DllType'
  BY <1>1, IpcAssumption DEF CopyError, DllType, Settled
<1>3. ASSUME NEW j \in Calls
      PROVE  CallInv(j)'
  BY <1>1 DEF CopyError, CallInv, Active, Untouched, Truthful, DllType, tcpVars, dbVars
<1>. QED  BY <1>2, <1>3, LocalStep DEF CopyError

-----------------------------------------------------------------------------
(* The listen queue.                                                       *)

Distinct(q) == \A i, j \in 1 .. Len(q) : q[i] = q[j] => i = j

LEMMA QueueAppend ==
  ASSUME NEW q \in Seq(Calls), NEW k \in Calls
  PROVE  /\ Append(q, k) \in Seq(Calls)
         /\ ToSet(Append(q, k)) = ToSet(q) \cup {k}
         /\ Distinct(q) /\ k \notin ToSet(q) => Distinct(Append(q, k))
<1> DEFINE a == Append(q, k)
<1>1. a \in Seq(Calls) /\ Len(a) = Len(q) + 1 /\ Len(q) \in Nat
  OBVIOUS
<1>2. \A i \in 1 .. Len(q) : a[i] = q[i]
  OBVIOUS
<1>3. a[Len(q) + 1] = k
  OBVIOUS
<1>4. DOMAIN a = 1 .. Len(q) + 1 /\ DOMAIN q = 1 .. Len(q)
  BY <1>1
<1>5. ToSet(a) = ToSet(q) \cup {k}
  BY <1>1, <1>2, <1>3, <1>4 DEF ToSet
<1>6. ASSUME Distinct(q), k \notin ToSet(q)
      PROVE  Distinct(a)
  <2>1. \A i \in 1 .. Len(q) : q[i] # k
    BY <1>4, <1>6 DEF ToSet
  <2>. QED  BY <1>1, <1>2, <1>3, <1>6, <2>1 DEF Distinct
<1>. QED  BY <1>1, <1>5, <1>6

LEMMA QueueTail ==
  ASSUME NEW q \in Seq(Calls), q # <<>>, Distinct(q)
  PROVE  /\ Head(q) \in Calls /\ Head(q) \in ToSet(q) /\ Tail(q) \in Seq(Calls)
         /\ ToSet(Tail(q)) = ToSet(q) \ {Head(q)}
         /\ Distinct(Tail(q))
<1> DEFINE t == Tail(q)
<1>1. t \in Seq(Calls) /\ Len(q) \in Nat \ {0} /\ Len(t) = Len(q) - 1
  OBVIOUS
<1>2. \A i \in 1 .. Len(t) : t[i] = q[i + 1]
  OBVIOUS
<1>3. DOMAIN t = 1 .. Len(t) /\ DOMAIN q = 1 .. Len(q)
  BY <1>1
<1>4. Head(q) = q[1] /\ Head(q) \in Calls
  BY <1>1
<1>5. Head(q) \in ToSet(q)
  BY <1>1, <1>3, <1>4 DEF ToSet
<1>6. ToSet(t) = ToSet(q) \ {Head(q)}
  <2>1. ASSUME NEW x \in ToSet(t)
        PROVE  x \in ToSet(q) /\ x # Head(q)
    <3>1. PICK i \in 1 .. Len(t) : x = q[i + 1]
      BY <1>2, <1>3, <2>1 DEF ToSet
    <3>2. i + 1 \in 1 .. Len(q) /\ i + 1 # 1 /\ 1 \in 1 .. Len(q)
      BY <1>1, <3>1
    <3>. QED  BY <1>3, <1>4, <3>1, <3>2 DEF ToSet, Distinct
  <2>2. ASSUME NEW x \in ToSet(q), x # Head(q)
        PROVE  x \in ToSet(t)
    <3>1. PICK i \in 1 .. Len(q) : x = q[i]
      BY <1>3, <2>2 DEF ToSet
    <3>2. i # 1
      BY <1>4, <2>2, <3>1
    <3>3. i - 1 \in 1 .. Len(t) /\ x = t[i - 1]
      BY <1>1, <1>2, <3>1, <3>2
    <3>. QED  BY <1>3, <3>3 DEF ToSet
  <2>. QED  BY <2>1, <2>2
<1>7. Distinct(t)
  BY <1>1, <1>2 DEF Distinct
<1>. QED  BY <1>1, <1>4, <1>5, <1>6, <1>7

LEMMA ConnectStep ==
  ASSUME IInv, NEW k \in Calls, Connect(k)
  PROVE  IInv'
<1>1. /\ TypeOK /\ DllType /\ TcpType /\ ConnectionsAccounted /\ ServingInv
      /\ \A j \in Calls : CallInv(j)
  BY DEF IInv, TypeOK
<1>2. sock[k] = "none" /\ upParts[k] = 0 /\ Untouched(k)
  BY <1>1 DEF CallInv, Connect
<1>3. Distinct(backlog) /\ k \notin ToSet(backlog)
  BY <1>1, <1>2 DEF ConnectionsAccounted, Distinct
<1>4. /\ backlog' \in Seq(Calls) /\ ToSet(backlog') = ToSet(backlog) \cup {k}
      /\ Distinct(backlog')
  BY <1>1, <1>3, QueueAppend DEF Connect, TcpType
<1>5. TypeOK'
  <2>1. DllType'
    BY <1>1 DEF Connect, DllType, Active
  <2>2. TcpType'
    BY <1>1, <1>4 DEF Connect, TcpType
  <2>. QED  BY <1>1, <2>1, <2>2, ServerTypeKept, DbTypeKept DEF TypeOK, Connect
<1>6. ConnectionsAccounted'
  BY <1>1, <1>2, <1>4 DEF ConnectionsAccounted, Distinct, Connect, srvVars, TcpType
<1>7. ServingInv'
  BY <1>1 DEF Connect, ServingInv, Untouched, Truthful, srvVars, dbVars
<1>8. ASSUME NEW j \in Calls
      PROVE  CallInv(j)'
  BY <1>1, <1>2, IpcAssumption DEF Connect, CallInv, Active, Untouched, Truthful, DllType, TcpType, dbVars
<1>. QED  BY <1>5, <1>6, <1>7, <1>8 DEF IInv

LEMMA SendPartStep ==
  ASSUME IInv, NEW k \in Calls, SendPart(k)
  PROVE  IInv'
<1>1. /\ TypeOK /\ DllType /\ TcpType /\ ConnectionsAccounted /\ ServingInv
      /\ \A j \in Calls : CallInv(j)
  BY DEF IInv, TypeOK
<1>2. upParts[k] \in 0 .. FrameParts - 1
  BY <1>1, IpcAssumption DEF CallInv, SendPart, TcpType
<1>3. TypeOK'
  <2>1. DllType'
    BY <1>1 DEF SendPart, DllType, Active
  <2>2. TcpType'
    BY <1>1, <1>2, IpcAssumption DEF SendPart, TcpType
  <2>. QED  BY <1>1, <2>1, <2>2, ServerTypeKept, DbTypeKept DEF TypeOK, SendPart
<1>4. ConnectionsAccounted'
  BY <1>1 DEF ConnectionsAccounted, SendPart, srvVars
<1>5. ServingInv'
  <2>1. srvPc = "handle" => cur \in Calls /\ cur # k
    BY <1>1, <1>2, IpcAssumption DEF ServingInv, IInv, TypeOK, ServerType
  <2>2. srvPc = "handle" => upParts'[cur] = upParts[cur]
    BY <1>1, <2>1 DEF SendPart, TcpType
  <2>. QED
    BY <1>1, <2>2 DEF SendPart, ServingInv, Untouched, Truthful, srvVars, dbVars
<1>6. ASSUME NEW j \in Calls
      PROVE  CallInv(j)'
  <2>1. upParts[k] + 1 = FrameParts \/ upParts[k] + 1 < FrameParts
    BY <1>2, IpcAssumption
  <2>. QED  BY <1>1, <1>2, <2>1
            DEF SendPart, CallInv, Active, Untouched, Truthful, DllType, TcpType, dbVars
<1>. QED  BY <1>3, <1>4, <1>5, <1>6 DEF IInv

-----------------------------------------------------------------------------
(* The server.                                                             *)

LEMMA StartServerStep ==
  ASSUME IInv, StartServer
  PROVE  IInv'
<1>1. TypeOK'
  BY DllTypeKept, TcpTypeKept DEF IInv, TypeOK, StartServer, ServerType, DbType
<1>2. ConnectionsAccounted'
  BY DEF IInv, ConnectionsAccounted, StartServer, tcpVars
<1>3. ServingInv'
  BY DEF IInv, ServingInv, StartServer
<1>4. ASSUME NEW j \in Calls
      PROVE  CallInv(j)'
  BY DEF IInv, StartServer, CallInv, Active, Untouched, Truthful, dllVars, tcpVars
<1>. QED  BY <1>1, <1>2, <1>3, <1>4 DEF IInv

LEMMA AcceptStep ==
  ASSUME IInv, Accept
  PROVE  IInv'
<1>1. /\ TypeOK /\ TcpType /\ ServerType /\ ConnectionsAccounted /\ ServingInv
      /\ \A j \in Calls : CallInv(j)
  BY DEF IInv, TypeOK
<1>2. Distinct(backlog) /\ backlog \in Seq(Calls) /\ backlog # <<>>
  BY <1>1 DEF ConnectionsAccounted, Distinct, TcpType, Accept
<1>3. /\ cur' \in Calls /\ cur' \in ToSet(backlog)
      /\ backlog' \in Seq(Calls) /\ ToSet(backlog') = ToSet(backlog) \ {cur'}
      /\ Distinct(backlog')
  BY <1>2, QueueTail DEF Accept
<1>4. sock' = [sock EXCEPT ![cur'] = "accepted"] /\ cur = NoCall /\ sock[cur'] = "queued"
  BY <1>1, <1>3 DEF Accept, ServingInv, ConnectionsAccounted
<1>5. TypeOK'
  <2>1. TcpType'
    BY <1>1, <1>3, <1>4 DEF Accept, TcpType
  <2>2. ServerType'
    BY <1>1, <1>3 DEF Accept, ServerType
  <2>. QED  BY <1>1, <2>1, <2>2, DllTypeKept, DbTypeKept DEF TypeOK, Accept
<1>6. ConnectionsAccounted'
  BY <1>1, <1>3, <1>4, IpcAssumption DEF ConnectionsAccounted, Distinct, TcpType
<1>7. ServingInv'
  BY <1>1, <1>3, <1>4, IpcAssumption DEF Accept, ServingInv, CallInv, Untouched, dbVars
<1>8. ASSUME NEW j \in Calls
      PROVE  CallInv(j)'
  BY <1>1, <1>3, <1>4 DEF Accept, CallInv, Active, Untouched, Truthful, TcpType, dllVars, dbVars
<1>. QED  BY <1>5, <1>6, <1>7, <1>8 DEF IInv

LEMMA RecvFrameStep ==
  ASSUME IInv, RecvFrame
  PROVE  IInv'
<1>1. /\ TypeOK /\ DllType /\ ServerType /\ ConnectionsAccounted /\ ServingInv
      /\ \A j \in Calls : CallInv(j)
  BY DEF IInv, TypeOK
<1>2. cur \in Calls
  BY <1>1 DEF RecvFrame, ServingInv, ServerType
<1>3. TypeOK'
  <2>1. ServerType'
    BY <1>1, <1>2, IpcAssumption DEF RecvFrame, ServerType, DllType, Requests
  <2>. QED  BY <1>1, <2>1, DllTypeKept, TcpTypeKept, DbTypeKept DEF TypeOK, RecvFrame
<1>4. ConnectionsAccounted'
  BY <1>1 DEF ConnectionsAccounted, RecvFrame, tcpVars
<1>5. ServingInv'
  <2>1. CASE srvPc' = "handle"
    <3>1. request' = [call |-> cur, command |-> CommandOf[cur], sequence |-> sequence[cur]]
      BY <2>1 DEF RecvFrame
    <3>2. request' \in Requests /\ request'.call = cur
      BY <1>1, <1>2, <3>1, IpcAssumption DEF DllType, Requests
    <3>. QED  BY <1>1, <2>1, <3>2 DEF RecvFrame, ServingInv, Untouched, tcpVars, dbVars
  <2>2. CASE srvPc' = "close"
    BY <1>1, <2>2 DEF RecvFrame, ServingInv
  <2>. QED  BY <2>1, <2>2 DEF RecvFrame
<1>6. ASSUME NEW j \in Calls
      PROVE  CallInv(j)'
  BY <1>1 DEF RecvFrame, CallInv, Active, Untouched, Truthful, dllVars, tcpVars, dbVars
<1>. QED  BY <1>3, <1>4, <1>5, <1>6 DEF IInv

(* What a pass through the adapter does to the count of executions.        *)
LEMMA AdapterEffect ==
  ASSUME DbType, ServerType, NEW k \in Calls, NEW code \in Codes,
         executed[k] = 0, AdapterExec(k, code)
  PROVE  /\ DbType' /\ dbStatus' \in {"OK", "BAD"}
         /\ executed'[k] \in {0, 1}
         /\ \A j \in Calls \ {k} : executed'[j] = executed[j]
         /\ code = "HDB_OK" => executed'[k] = 1
         /\ code # "HDB_ERR_QUERY_RANGE"
<1>1. executed' \in {executed, [executed EXCEPT ![k] = 1]}
  BY DEF AdapterExec, DbType
<1>2. dbAlive' \in BOOLEAN /\ dbStatus' \in {"OK", "BAD"} /\ faults' \in 0 .. MaxFaults
  <2>1. dbAlive' \in {dbAlive, FALSE} /\ dbStatus' \in {dbStatus, "BAD"}
    BY DEF AdapterExec
  <2>2. faults' = faults \/ (faults < MaxFaults /\ faults' = faults + 1)
    BY DEF AdapterExec
  <2>3. faults' \in 0 .. MaxFaults
    BY <2>2, IpcAssumption DEF DbType
  <2>4. dbAlive' \in BOOLEAN
    BY <2>1 DEF DbType
  <2>. QED  BY <2>1, <2>3, <2>4 DEF ServerType
<1>3. code = "HDB_OK" => executed' = [executed EXCEPT ![k] = 1]
  BY DEF AdapterExec, DbType
<1>4. code # "HDB_ERR_QUERY_RANGE"
  BY DEF AdapterExec
<1>. QED  BY <1>1, <1>2, <1>3, <1>4 DEF DbType

LEMMA ReplyEffect ==
  ASSUME ServerType, request \in Requests, NEW status \in Codes, Reply(status)
  PROVE  /\ response' \in Responses
         /\ response'.call = request.call /\ response'.status = status
BY DEF Reply, Requests, Responses

LEMMA HandleRequestStep ==
  ASSUME IInv, HandleRequest
  PROVE  IInv'
<1>1. /\ TypeOK /\ TcpType /\ ServerType /\ DbType /\ ConnectionsAccounted /\ ServingInv
      /\ \A j \in Calls : CallInv(j)
  BY DEF IInv, TypeOK
<1>2. /\ cur \in Calls /\ request \in Requests /\ request.call = cur /\ Untouched(cur)
      /\ srvPc = "handle" /\ srvPc' = "send" /\ UNCHANGED <<cur, request, dllVars, tcpVars>>
  BY <1>1 DEF HandleRequest, ServingInv, ServerType
<1>3. /\ response' \in Responses /\ response'.call = cur
      /\ DbType' /\ dbStatus' \in {"OK", "BAD"}
      /\ executed'[cur] \in {0, 1}
      /\ \A j \in Calls \ {cur} : executed'[j] = executed[j]
      /\ response'.status = "HDB_OK" => executed'[cur] = 1
      /\ response'.status = "HDB_ERR_QUERY_RANGE" => executed'[cur] = 0
  <2>1. CASE \E status \in {"HDB_ERR_QUERY_RANGE", "HDB_ERR_BUFFER"} :
               Reply(status) /\ UNCHANGED <<dbStatus, dbAlive, executed, faults>>
    <3>1. PICK status \in {"HDB_ERR_QUERY_RANGE", "HDB_ERR_BUFFER"} :
            Reply(status) /\ UNCHANGED <<dbStatus, dbAlive, executed, faults>>
      BY <2>1
    <3>2. status \in Codes
      BY DEF Codes
    <3>3. DbType' /\ dbStatus' \in {"OK", "BAD"} /\ executed'[cur] = 0
      BY <1>1, <1>2, <3>1 DEF DbType, ServerType, Untouched
    <3>. QED  BY <1>1, <1>2, <3>1, <3>2, <3>3, ReplyEffect
  <2>2. CASE \E code \in Codes :
               /\ AdapterExec(cur, code)
               /\ \E status \in IF code = "HDB_OK" THEN {"HDB_OK", "HDB_ERR_BUFFER"} ELSE {code} :
                    Reply(status)
    <3>1. PICK code \in Codes :
            /\ AdapterExec(cur, code)
            /\ \E status \in IF code = "HDB_OK" THEN {"HDB_OK", "HDB_ERR_BUFFER"} ELSE {code} :
                 Reply(status)
      BY <2>2
    <3>2. PICK status \in {code, "HDB_ERR_BUFFER"} : Reply(status)
      BY <3>1
    <3>3. status \in Codes
      BY DEF Codes
    <3>4. executed[cur] = 0
      BY <1>2 DEF Untouched
    <3>5. /\ DbType' /\ dbStatus' \in {"OK", "BAD"}
          /\ executed'[cur] \in {0, 1}
          /\ \A j \in Calls \ {cur} : executed'[j] = executed[j]
          /\ code = "HDB_OK" => executed'[cur] = 1
          /\ code # "HDB_ERR_QUERY_RANGE"
      BY <1>1, <1>2, <3>1, <3>4, AdapterEffect
    <3>. QED  BY <1>1, <1>2, <3>2, <3>3, <3>5, ReplyEffect
  <2>. QED  BY <1>2, <2>1, <2>2 DEF HandleRequest
<1>4. TypeOK'
  <2>1. ServerType'
    BY <1>1, <1>2, <1>3 DEF ServerType
  <2>. QED  BY <1>1, <1>2, <1>3, <2>1, DllTypeKept, TcpTypeKept DEF TypeOK
<1>5. ConnectionsAccounted'
  BY <1>1, <1>2 DEF ConnectionsAccounted, tcpVars
<1>6. ServingInv'
  BY <1>1, <1>2, <1>3, IpcAssumption DEF ServingInv, Untouched, Truthful, tcpVars
<1>7. ASSUME NEW j \in Calls
      PROVE  CallInv(j)'
  <2>1. CASE j = cur
    <3>1. sock[j] = "accepted" /\ downFrame[j] = NoFrame /\ executed[j] = 0
      BY <1>1, <1>2, <2>1 DEF ConnectionsAccounted, Untouched
    <3>2. pc[j] \in {"failed", "returned"} => ret[j] = "HDB_ERR_NOT_CONNECTED"
      BY <1>1, <3>1 DEF CallInv
    <3>. QED  BY <1>1, <1>2, <1>3, <2>1, <3>1, <3>2
              DEF CallInv, Active, Untouched, Truthful, dllVars, tcpVars
  <2>2. CASE j # cur
    BY <1>1, <1>2, <1>3, <2>2 DEF CallInv, Active, Untouched, Truthful, dllVars, tcpVars
  <2>. QED  BY <2>1, <2>2
<1>. QED  BY <1>4, <1>5, <1>6, <1>7 DEF IInv

LEMMA SendFrameStep ==
  ASSUME IInv, SendFrame
  PROVE  IInv'
<1>1. /\ TypeOK /\ TcpType /\ ServerType /\ ConnectionsAccounted /\ ServingInv
      /\ \A j \in Calls : CallInv(j)
  BY DEF IInv, TypeOK
<1>2. /\ cur \in Calls /\ response \in Responses /\ response.call = cur /\ Truthful(response)
      /\ downParts[cur] \in 0 .. FrameParts - 1 /\ sock[cur] = "accepted"
  BY <1>1, IpcAssumption DEF SendFrame, ServingInv, ServerType, TcpType, ConnectionsAccounted
<1>3. TypeOK'
  <2>1. TcpType'
    <3>1. UNCHANGED <<sock, cut, upParts, backlog>>
      BY DEF SendFrame
    <3>2. downParts' \in {downParts, [downParts EXCEPT ![cur] = downParts[cur] + 1]}
      BY DEF SendFrame
    <3>3. downFrame' \in {downFrame, [downFrame EXCEPT ![cur] = response]}
      BY DEF SendFrame
    <3>4. downParts[cur] + 1 \in 0 .. FrameParts
      BY <1>2, IpcAssumption
    <3>5. downParts' \in [Calls -> 0 .. FrameParts]
      BY <1>1, <1>2, <3>2, <3>4 DEF TcpType
    <3>6. downFrame' \in [Calls -> Responses \cup {NoFrame}]
      BY <1>1, <1>2, <3>3 DEF TcpType
    <3>. QED  BY <1>1, <3>1, <3>5, <3>6 DEF TcpType
  <2>2. ServerType'
    BY <1>1 DEF SendFrame, ServerType
  <2>. QED  BY <1>1, <2>1, <2>2, DllTypeKept, DbTypeKept DEF TypeOK, SendFrame
<1>4. ConnectionsAccounted'
  BY <1>1 DEF ConnectionsAccounted, SendFrame
<1>5. ServingInv'
  BY <1>1, <1>2, IpcAssumption DEF SendFrame, ServingInv, Truthful, TcpType, dbVars
<1>6. ASSUME NEW j \in Calls
      PROVE  CallInv(j)'
  BY <1>1, <1>2, NoFrameAssumption
     DEF SendFrame, CallInv, Active, Untouched, Truthful, TcpType, dllVars, dbVars
<1>. QED  BY <1>3, <1>4, <1>5, <1>6 DEF IInv

LEMMA CloseStep ==
  ASSUME IInv, Close
  PROVE  IInv'
<1>1. /\ TypeOK /\ TcpType /\ ServerType /\ ConnectionsAccounted /\ ServingInv
      /\ \A j \in Calls : CallInv(j)
  BY DEF IInv, TypeOK
<1>2. cur \in Calls /\ sock[cur] = "accepted"
  BY <1>1 DEF Close, ServingInv, ServerType, ConnectionsAccounted
<1>3. TypeOK'
  BY <1>1, DllTypeKept, DbTypeKept DEF TypeOK, Close, TcpType, ServerType
<1>4. ConnectionsAccounted'
  BY <1>1, <1>2, IpcAssumption DEF ConnectionsAccounted, Close, TcpType
<1>5. ServingInv'
  BY <1>1 DEF Close, ServingInv
<1>6. ASSUME NEW j \in Calls
      PROVE  CallInv(j)'
  BY <1>1, <1>2 DEF Close, CallInv, Active, Untouched, Truthful, TcpType, dllVars, dbVars
<1>. QED  BY <1>3, <1>4, <1>5, <1>6 DEF IInv

-----------------------------------------------------------------------------
(* The faults.                                                             *)

LEMMA FaultCount ==
  ASSUME DbType, Fault
  PROVE  faults' \in 0 .. MaxFaults
BY IpcAssumption DEF DbType, Fault

LEMMA ServerDiesStep ==
  ASSUME IInv, ServerDies
  PROVE  IInv'
<1>1. /\ TypeOK /\ DllType /\ TcpType /\ DbType /\ ConnectionsAccounted /\ ServingInv
      /\ \A j \in Calls : CallInv(j)
  BY DEF IInv, TypeOK
<1>2. /\ sock' = [k \in Calls |-> IF sock[k] \in {"queued", "accepted"} THEN "closed" ELSE sock[k]]
      /\ cur' = NoCall /\ srvPc' = "down" /\ backlog' = <<>>
      /\ UNCHANGED <<upParts, downParts, downFrame, executed, dllVars>>
  BY DEF ServerDies, Open
<1>3. TypeOK'
  <2>1. TcpType'
    BY <1>1, <1>2 DEF ServerDies, TcpType
  <2>2. ServerType'
    BY DEF ServerDies, ServerType
  <2>3. DbType'
    <3>1. faults' \in 0 .. MaxFaults
      BY <1>1, FaultCount DEF ServerDies
    <3>2. dbAlive' \in BOOLEAN
      BY DEF ServerDies
    <3>. QED  BY <1>1, <1>2, <3>1, <3>2 DEF DbType
  <2>. QED  BY <1>1, <1>2, <2>1, <2>2, <2>3, DllTypeKept DEF TypeOK
<1>4. ConnectionsAccounted'
  <2>1. ToSet(backlog') = {}
    BY <1>2 DEF ToSet
  <2>. QED  BY <1>1, <1>2, <2>1, IpcAssumption DEF ConnectionsAccounted, TcpType
<1>5. ServingInv'
  BY <1>2 DEF ServingInv
<1>6. ASSUME NEW j \in Calls
      PROVE  CallInv(j)'
  BY <1>1, <1>2 DEF CallInv, Active, Untouched, Truthful, TcpType, dllVars
<1>. QED  BY <1>3, <1>4, <1>5, <1>6 DEF IInv

LEMMA DllDiesStep ==
  ASSUME IInv, NEW s \in Sessions, DllDies(s)
  PROVE  IInv'
<1>1. /\ TypeOK /\ DllType /\ DbType /\ ConnectionsAccounted /\ ServingInv
      /\ \A j \in Calls : CallInv(j)
  BY DEF IInv, TypeOK
<1>2. TypeOK'
  <2>1. DllType'
    BY <1>1 DEF DllDies, DllType, Settled
  <2>2. DbType'
    <3>1. faults' \in 0 .. MaxFaults
      BY <1>1, FaultCount DEF DllDies
    <3>2. dbAlive' = dbAlive /\ executed' = executed
      BY DEF DllDies, dbVars
    <3>3. dbAlive' \in BOOLEAN
      BY <1>1, <3>2 DEF DbType
    <3>. QED  BY <1>1, <3>1, <3>2, <3>3 DEF DbType
  <2>. QED  BY <1>1, <2>1, <2>2, TcpTypeKept, ServerTypeKept DEF TypeOK, DllDies
<1>3. ConnectionsAccounted' /\ ServingInv'
  BY <1>1 DEF DllDies, ConnectionsAccounted, ServingInv, Untouched, Truthful,
              tcpVars, srvVars, dbVars
<1>4. ASSUME NEW j \in Calls
      PROVE  CallInv(j)'
  BY <1>1 DEF DllDies, CallInv, Active, Untouched, Truthful, DllType, tcpVars, dbVars
<1>. QED  BY <1>2, <1>3, <1>4 DEF IInv

LEMMA LinkFaultStep ==
  ASSUME IInv, (\E k \in Calls : ConnectionReset(k)) \/ DbLinkBreaks
  PROVE  IInv'
<1>1. /\ TypeOK /\ TcpType /\ DbType /\ ConnectionsAccounted /\ ServingInv
      /\ \A j \in Calls : CallInv(j)
  BY DEF IInv, TypeOK
<1>2. /\ UNCHANGED <<sock, upParts, downParts, downFrame, backlog, executed, dllVars, srvVars>>
      /\ cut' = cut \/ \E k \in Calls : cut' = [cut EXCEPT ![k] = TRUE]
      /\ dbAlive' \in {dbAlive, FALSE} /\ Fault
  BY DEF ConnectionReset, DbLinkBreaks, dbVars, tcpVars
<1>3. TypeOK'
  <2>1. TcpType'
    BY <1>1, <1>2 DEF TcpType
  <2>2. DbType'
    <3>1. faults' \in 0 .. MaxFaults
      BY <1>1, <1>2, FaultCount
    <3>2. dbAlive' \in BOOLEAN
      BY <1>1, <1>2 DEF DbType
    <3>. QED  BY <1>1, <1>2, <3>1, <3>2 DEF DbType
  <2>. QED  BY <1>1, <1>2, <2>1, <2>2, DllTypeKept, ServerTypeKept DEF TypeOK
<1>4. ConnectionsAccounted' /\ ServingInv'
  BY <1>1, <1>2 DEF ConnectionsAccounted, ServingInv, Untouched, Truthful, srvVars
<1>5. ASSUME NEW j \in Calls
      PROVE  CallInv(j)'
  BY <1>1, <1>2 DEF CallInv, Active, Untouched, Truthful, dllVars
<1>. QED  BY <1>3, <1>4, <1>5 DEF IInv

LEMMA StutterStep ==
  ASSUME IInv, UNCHANGED vars
  PROVE  IInv'
<1>1. /\ TypeOK /\ ConnectionsAccounted /\ ServingInv
      /\ \A j \in Calls : CallInv(j)
  BY DEF IInv
<1>2. UNCHANGED <<dllVars, tcpVars, srvVars, dbVars, faults>>
  BY DEF vars
<1>3. TypeOK'
  BY <1>1, <1>2, DllTypeKept, TcpTypeKept, ServerTypeKept, DbTypeKept DEF TypeOK
<1>4. ConnectionsAccounted' /\ ServingInv'
  BY <1>1, <1>2 DEF ConnectionsAccounted, ServingInv, Untouched, Truthful,
                    tcpVars, srvVars, dbVars
<1>5. ASSUME NEW j \in Calls
      PROVE  CallInv(j)'
  BY <1>1, <1>2 DEF CallInv, Active, Untouched, Truthful, dllVars, tcpVars, dbVars
<1>. QED  BY <1>3, <1>4, <1>5 DEF IInv

-----------------------------------------------------------------------------
LEMMA InitIInv ==
  ASSUME Init
  PROVE  IInv
<1>1. TypeOK
  <2>1. DllType
    BY SequenceValues DEF Init, DllType
  <2>2. TcpType
    BY IpcAssumption DEF Init, TcpType
  <2>3. ServerType
    BY DEF Init, ServerType
  <2>4. DbType
    <3>1. dbAlive \in BOOLEAN
      BY DEF Init
    <3>2. executed \in [Calls -> Nat] /\ faults \in 0 .. MaxFaults
      BY IpcAssumption DEF Init
    <3>. QED  BY <3>1, <3>2 DEF DbType
  <2>. QED  BY <2>1, <2>2, <2>3, <2>4 DEF TypeOK
<1>2. ConnectionsAccounted
  <2>1. ToSet(backlog) = {} /\ Len(backlog) = 0
    BY DEF Init, ToSet
  <2>. QED  BY <2>1, IpcAssumption DEF Init, ConnectionsAccounted
<1>3. ServingInv
  BY DEF Init, ServingInv
<1>4. ASSUME NEW k \in Calls
      PROVE  CallInv(k)
  BY IpcAssumption DEF Init, CallInv, Untouched
<1>. QED  BY <1>1, <1>2, <1>3, <1>4 DEF IInv

LEMMA NextIInv ==
  ASSUME IInv, [Next]_vars
  PROVE  IInv'
<1>1. ASSUME NEW k \in Calls, CallStep(k)
      PROVE  IInv'
  BY <1>1, PrepareStep, BeforeAnswerFails, RecvResponseStep, CopyErrorStep,
     ConnectStep, SendPartStep DEF CallStep
<1>2. CASE StartServer
  BY <1>2, StartServerStep
<1>3. CASE ServerStep
  BY <1>3, AcceptStep, RecvFrameStep, HandleRequestStep, SendFrameStep, CloseStep DEF ServerStep
<1>4. CASE FaultStep
  BY <1>4, ServerDiesStep, DllDiesStep, LinkFaultStep DEF FaultStep
<1>5. CASE UNCHANGED vars
  BY <1>5, StutterStep
<1>. QED  BY <1>1, <1>2, <1>3, <1>4, <1>5 DEF Next

(* The inductive invariant of the request path: what DLL, socket and server *)
(* loop hold at each point agrees with what the database did.               *)
THEOREM RequestPathInvariant == Spec => []IInv
BY InitIInv, NextIInv, PTL DEF Spec

(* HdbSessionTag, HdbDllRequest, RunIpcServer and the adapter keep the      *)
(* types TypeOK gives their state, whatever fails.                          *)
THEOREM TypeCorrect == Spec => []TypeOK
<1>1. IInv => TypeOK
  BY DEF IInv
<1>. QED  BY <1>1, RequestPathInvariant, PTL

(* RunIpcServer serves one accepted connection at a time and loses none of  *)
(* those waiting in the listen queue.                                       *)
THEOREM ConnectionAccounting == Spec => []ConnectionsAccounted
<1>1. IInv => ConnectionsAccounted
  BY DEF IInv
<1>. QED  BY <1>1, RequestPathInvariant, PTL

(* No statement of a call runs twice, for any number of crashes, restarts   *)
(* and lost connections: HdbDllRequest sends once, RunIpcServer handles the *)
(* one request of a connection once.                                        *)
THEOREM ExecutedAtMostOnce == Spec => []AtMostOnce
<1>1. IInv => AtMostOnce
  BY DEF IInv, AtMostOnce, CallInv
<1>. QED  BY <1>1, RequestPathInvariant, PTL

(* HDB_OK is only returned for a statement that ran, a refusal of the       *)
(* server only for one that did not.                                        *)
THEOREM ReturnCodesHonest == Spec => []OutcomeHonest
<1>1. IInv => OutcomeHonest
  BY DEF IInv, OutcomeHonest, CallInv
<1>. QED  BY <1>1, RequestPathInvariant, PTL

(* A response frame only reaches the call it answers, although every        *)
(* session counts its sequence from 1 and sequences wrap.                   *)
THEOREM ResponsesReachTheirCall == Spec => []OwnResponse
<1>1. IInv => OwnResponse
  BY DEF IInv, OwnResponse, CallInv
<1>. QED  BY <1>1, RequestPathInvariant, PTL

(* Only the call the server is handling is executed, and that call has not  *)
(* been answered.                                                           *)
LEMMA AnsweredNotExecuted ==
  ASSUME IInv, [Next]_vars, NEW k \in Calls,
         pc[k] \in {"failed", "returned"}, ret[k] # "HDB_ERR_NOT_CONNECTED"
  PROVE  executed'[k] = executed[k]
<1>1. CASE HandleRequest
  <2>1. /\ cur \in Calls /\ request \in Requests /\ request.call = cur /\ Untouched(cur)
        /\ srvPc = "handle" /\ sock[cur] = "accepted" /\ DbType /\ ServerType
    BY <1>1 DEF HandleRequest, IInv, TypeOK, ServingInv, ServerType, ConnectionsAccounted
  <2>2. k # cur
    BY <2>1 DEF IInv, CallInv, Untouched
  <2>3. executed' = executed \/ \E code \in Codes : AdapterExec(cur, code)
    BY <1>1, <2>1 DEF HandleRequest
  <2>. QED  BY <2>1, <2>2, <2>3, AdapterEffect DEF Untouched
<1>2. CASE ~HandleRequest
  <2>1. executed' = executed
    BY <1>2 DEF Next, CallStep, ServerStep, FaultStep, vars, dbVars, LoadSequence,
       StoreSequence, WrapSequence, BuildFails, Connect, ConnectFails, SendPart, SendFails,
       RecvResponse, RecvFails, CopyError, StartServer, Accept, RecvFrame, SendFrame, Close,
       ServerDies, DllDies, ConnectionReset, DbLinkBreaks
  <2>. QED  BY <2>1
<1>. QED  BY <1>1, <1>2

(* After a call has returned anything but HDB_ERR_NOT_CONNECTED, no later   *)
(* step of any process executes it.                                         *)
THEOREM AnsweredStaysSettled == Spec => AnsweredIsSettled
<1> DEFINE Settles == \A k \in Calls :
                        pc[k] \in {"failed", "returned"} /\ ret[k] # "HDB_ERR_NOT_CONNECTED"
                          => executed'[k] = executed[k]
<1>1. IInv /\ [Next]_vars => [Settles]_vars
  BY AnsweredNotExecuted
<1>2. AnsweredIsSettled <=> [][Settles]_vars
  BY DEF AnsweredIsSettled
<1>. QED  BY <1>1, <1>2, RequestPathInvariant, PTL DEF Spec

-----------------------------------------------------------------------------
(* One call at a time on a session: the session's error text.              *)

Busy == Active \cup {"failed"}

SerialInv ==
  /\ \A j, k \in Calls :
       SessionOf[j] = SessionOf[k] /\ pc[j] \in Busy /\ pc[k] \in Busy => j = k
  /\ \A k \in Calls : pc[k] = "failed" => lastError[SessionOf[k]] = k
  /\ ErrorTextIsOwn

(* A busy call moves on, within Busy or out of it, and leaves the session's *)
(* text to itself.                                                         *)
LEMMA BusyStep ==
  ASSUME DllType, DllType', SerialInv, NEW k \in Calls, pc[k] \in Busy,
         NEW next, pc' = [pc EXCEPT ![k] = next],
         lastError' \in {lastError, [lastError EXCEPT ![SessionOf[k]] = k]},
         next = "failed" => lastError'[SessionOf[k]] = k,
         \A j \in Calls : j # k => errorText'[j] = errorText[j] /\ ret'[j] = ret[j],
         next = "returned" /\ ret'[k] # "HDB_OK" => errorText'[k] = k
  PROVE  SerialInv'
<1>1. \A j \in Calls : SessionOf[j] \in Sessions
  BY IpcAssumption
<1>2. \A j \in Calls : j # k => pc'[j] = pc[j]
  BY DEF DllType
<1>3. pc'[k] = next
  BY DEF DllType
<1>4. ASSUME NEW i \in Calls, NEW j \in Calls,
             SessionOf[i] = SessionOf[j], pc'[i] \in Busy, pc'[j] \in Busy
      PROVE  i = j
  BY <1>2, <1>4 DEF SerialInv
<1>5. ASSUME NEW j \in Calls, pc'[j] = "failed"
      PROVE  lastError'[SessionOf[j]] = j
  <2>1. CASE j = k
    BY <1>3, <1>5, <2>1
  <2>2. CASE j # k
    <3>1. pc[j] = "failed" /\ lastError[SessionOf[j]] = j
      BY <1>2, <1>5, <2>2 DEF SerialInv
    <3>2. SessionOf[j] # SessionOf[k]
      BY <2>2, <3>1 DEF SerialInv, Busy
    <3>. QED  BY <1>1, <3>1, <3>2 DEF DllType
  <2>. QED  BY <2>1, <2>2
<1>6. ErrorTextIsOwn'
  BY <1>2, <1>3 DEF SerialInv, ErrorTextIsOwn
<1>. QED  BY <1>4, <1>5, <1>6 DEF SerialInv

LEMMA SerialCallStep ==
  ASSUME Serial, DllType, DllType', SerialInv, NEW k \in Calls, CallStep(k)
  PROVE  SerialInv'
<1>1. CASE LoadSequence(k)
  <2>1. \A j \in Calls : SessionOf[j] = SessionOf[k] => pc[j] \notin Busy
    BY <1>1 DEF LoadSequence, MayStart, Busy, Active
  <2>2. /\ pc' = [pc EXCEPT ![k] = "loaded"]
        /\ UNCHANGED <<lastError, errorText, ret>>
    BY <1>1 DEF LoadSequence
  <2>3. \A j \in Calls : j # k => pc'[j] = pc[j]
    BY <2>2 DEF DllType
  <2>4. pc'[k] = "loaded"
    BY <2>2 DEF DllType
  <2>5. ASSUME NEW i \in Calls, NEW j \in Calls,
               SessionOf[i] = SessionOf[j], pc'[i] \in Busy, pc'[j] \in Busy
        PROVE  i = j
    BY <2>1, <2>3, <2>5 DEF SerialInv
  <2>. QED  BY <2>2, <2>3, <2>4, <2>5 DEF SerialInv, ErrorTextIsOwn
<1>2. ASSUME NEW next \in Active, pc[k] \in Active, pc' = [pc EXCEPT ![k] = next],
             UNCHANGED <<lastError, errorText, ret>>
      PROVE  SerialInv'
  BY <1>2, BusyStep DEF Busy, Active
<1>3. CASE StoreSequence(k) \/ WrapSequence(k) \/ Connect(k) \/ SendPart(k)
  BY <1>2, <1>3 DEF StoreSequence, WrapSequence, Connect, SendPart, Active
<1>4. ASSUME NEW code, pc[k] \in Active, Fail(k, code)
      PROVE  SerialInv'
  <2>1. lastError'[SessionOf[k]] = k
    BY <1>4, IpcAssumption DEF Fail, DllType
  <2>2. \A j \in Calls : j # k => ret'[j] = ret[j]
    BY <1>4 DEF Fail, DllType
  <2>. QED  BY <1>4, <2>1, <2>2, BusyStep DEF Fail, Busy
<1>5. CASE BuildFails(k) \/ ConnectFails(k) \/ SendFails(k) \/ RecvFails(k)
  BY <1>4, <1>5 DEF BuildFails, ConnectFails, SendFails, RecvFails, Active
<1>6. CASE RecvResponse(k)
  <2>1. pc[k] \in Active /\ pc[k] \in Busy
    BY <1>6 DEF RecvResponse, Active, Busy
  <2>2. CASE Fail(k, ResponseCode(k))
    BY <1>4, <2>1, <2>2
  <2>3. CASE /\ ret' = [ret EXCEPT ![k] = "HDB_OK"]
             /\ pc' = [pc EXCEPT ![k] = "returned"]
             /\ UNCHANGED <<lastError, errorText>>
    <3>1. ret'[k] = "HDB_OK" /\ \A j \in Calls : j # k => ret'[j] = ret[j]
      BY <2>3 DEF DllType
    <3>. QED  BY <2>1, <2>3, <3>1, BusyStep
  <2>4. CASE /\ ret' = [ret EXCEPT ![k] = "HDB_ERR_BUFFER"]
             /\ lastError' = [lastError EXCEPT ![SessionOf[k]] = k]
             /\ errorText' = [errorText EXCEPT ![k] = k]
             /\ pc' = [pc EXCEPT ![k] = "returned"]
    <3>1. errorText'[k] = k
          /\ \A j \in Calls : j # k => ret'[j] = ret[j] /\ errorText'[j] = errorText[j]
      BY <2>4 DEF DllType
    <3>. QED  BY <2>1, <2>4, <3>1, BusyStep
  <2>. QED  BY <1>6, <2>2, <2>3, <2>4 DEF RecvResponse
<1>7. CASE CopyError(k)
  <2>1. /\ pc[k] \in Busy /\ lastError[SessionOf[k]] = k
        /\ errorText' = [errorText EXCEPT ![k] = k]
        /\ pc' = [pc EXCEPT ![k] = "returned"] /\ UNCHANGED <<lastError, ret>>
    BY <1>7 DEF CopyError, SerialInv, Busy
  <2>2. errorText'[k] = k /\ \A j \in Calls : j # k => errorText'[j] = errorText[j]
    BY <2>1 DEF DllType
  <2>. QED  BY <2>1, <2>2, BusyStep
<1>. QED  BY <1>1, <1>3, <1>5, <1>6, <1>7 DEF CallStep

LEMMA SerialStep ==
  ASSUME Serial, DllType, DllType', SerialInv, [Next]_vars
  PROVE  SerialInv'
<1>1. CASE UNCHANGED dllVars
  BY <1>1 DEF SerialInv, ErrorTextIsOwn, dllVars
<1>2. CASE UNCHANGED vars
  BY <1>1, <1>2 DEF vars
<1>3. ASSUME NEW s \in Sessions, DllDies(s)
      PROVE  SerialInv'
  <2>1. \A k \in Calls : pc'[k] \in {pc[k], "dead"}
    BY <1>3 DEF DllDies
  <2>2. UNCHANGED <<lastError, errorText, ret>>
    BY <1>3 DEF DllDies
  <2>3. ASSUME NEW i \in Calls, NEW j \in Calls,
               SessionOf[i] = SessionOf[j], pc'[i] \in Busy, pc'[j] \in Busy
        PROVE  i = j
    <3>1. pc'[i] = pc[i] /\ pc'[j] = pc[j]
      BY <2>1, <2>3 DEF Busy, Active
    <3>. QED  BY <2>3, <3>1 DEF SerialInv
  <2>4. \A k \in Calls : pc'[k] \in {"failed", "returned"} => pc'[k] = pc[k]
    BY <2>1
  <2>5. (\A k \in Calls : pc[k] = "failed" => lastError[SessionOf[k]] = k)'
    BY <2>2, <2>4 DEF SerialInv
  <2>6. ErrorTextIsOwn'
    BY <2>2, <2>4 DEF SerialInv, ErrorTextIsOwn
  <2>. QED  BY <2>3, <2>5, <2>6 DEF SerialInv
<1>4. ASSUME NEW k \in Calls, CallStep(k)
      PROVE  SerialInv'
  BY <1>4, SerialCallStep
<1>5. CASE StartServer
  BY <1>1, <1>5 DEF StartServer
<1>6. CASE ServerStep
  BY <1>1, <1>6 DEF ServerStep, Accept, RecvFrame, HandleRequest, SendFrame, Close
<1>7. CASE FaultStep
  BY <1>1, <1>3, <1>7 DEF FaultStep, ServerDies, ConnectionReset, DbLinkBreaks
<1>. QED  BY <1>2, <1>4, <1>5, <1>6, <1>7 DEF Next

(* With one call at a time on a session, the text a caller reads after a   *)
(* failure is that failure's, although the session's buffer has no lock    *)
(* and is read in a later statement.                                       *)
THEOREM ErrorTextsAreOwn ==
  ASSUME Serial
  PROVE  Spec => []ErrorTextIsOwn
<1>1. Init => SerialInv
  BY DEF Init, SerialInv, ErrorTextIsOwn, Busy, Active
<1>2. TypeOK /\ TypeOK' /\ SerialInv /\ [Next]_vars => SerialInv'
  BY SerialStep DEF TypeOK
<1>3. SerialInv => ErrorTextIsOwn
  BY DEF SerialInv
<1>. QED  BY <1>1, <1>2, <1>3, TypeCorrect, PTL DEF Spec

=============================================================================
