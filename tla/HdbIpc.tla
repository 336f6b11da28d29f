------------------------------- MODULE HdbIpc -------------------------------
(***************************************************************************)
(* One DLL request from HdbDllRequest down to the database and back: the   *)
(* session's sequence counter, the short TCP connection, the               *)
(* single-threaded server loop of ysd_hdb_svr, the command handler and the *)
(* PostgreSQL adapter's connection, with the faults the code reacts to:    *)
(* the server process dies and is started again, a DLL process dies, a TCP *)
(* connection is reset, the PostgreSQL link breaks.                        *)
(*                                                                         *)
(* A call is one execution of HdbPing, HdbQueryExecute or                  *)
(* HdbQueryExecuteAffected.  It is one-shot and owns one connection, so a  *)
(* call also names its connection and its frames.  Frames are records; the *)
(* bytes of a frame are FrameParts units that arrive one after another.    *)
(* What a statement computes is left out: executed counts how often the    *)
(* database ran it.                                                        *)
(***************************************************************************)
EXTENDS Naturals, Sequences, SequencesExt

CONSTANTS
  Calls,        (* every DLL call of the behaviour                         *)
  Sessions,     (* HDB_SESSION handles, one DLL process each               *)
  SessionOf,    (* the session a call uses                                 *)
  CommandOf,    (* the IPC command a call sends                            *)
  Serial,       (* TRUE: at most one call of a session at a time           *)
  SeqSpace,     (* size of unsigned int: 2^32 in the code                  *)
  FrameParts,   (* units in which send and recv move a frame               *)
  Backlog,      (* listen backlog: 16 in the code                          *)
  MaxFaults,    (* bound on the number of faults of a behaviour            *)
  NoCall, NoFrame

Commands == {"DB_PING", "QUERY_EXECUTE", "QUERY_EXECUTE_AFFECTED"}

(* HDB_ERR_QUERY_RANGE stands for every refusal of Deserialize,            *)
(* BuildSelect and BuildExecute: the statement never reached the adapter.  *)
(* HDB_ERR_BUFFER stands for every failure to build or read a reply.       *)
Codes == {"HDB_OK", "HDB_ERR_NOT_CONNECTED", "HDB_ERR_DB_EXEC",
          "HDB_ERR_QUERY_RANGE", "HDB_ERR_BUFFER"}

ASSUME IpcAssumption ==
  /\ SessionOf \in [Calls -> Sessions]
  /\ CommandOf \in [Calls -> Commands]
  /\ Serial \in BOOLEAN
  /\ SeqSpace \in Nat /\ SeqSpace > 1
  /\ FrameParts \in Nat /\ FrameParts > 0
  /\ Backlog \in Nat /\ Backlog > 0
  /\ MaxFaults \in Nat
  /\ NoCall \notin Calls

Sequences == 0 .. SeqSpace - 1

Requests  == [call : Calls, command : Commands, sequence : Sequences]
Responses == [call : Calls, command : Commands, sequence : Sequences, status : Codes]

ASSUME NoFrameAssumption == NoFrame \notin Requests \cup Responses

VARIABLES
  (* DLL *)
  nextSequence, (* HdbSessionTag.nextSequence                              *)
  lastError,    (* the call whose text HdbSessionTag.lastError holds       *)
  pc,           (* where a call is                                         *)
  sequence,     (* the local variable sequence of HdbDllRequest            *)
  ret,          (* the code a call returns                                 *)
  errorText,    (* the call whose text the caller reads after a failure    *)
  (* TCP *)
  sock,         (* the server's end of a call's connection                 *)
  cut,          (* the connection was reset under both ends                *)
  upParts,      (* units of the request frame the server can read          *)
  downParts,    (* units of the response frame the client can read         *)
  downFrame,    (* the response frame those units belong to                *)
  backlog,      (* established connections accept() has not taken yet      *)
  (* SERVER *)
  srvPc, cur,   (* where the loop is, and the connection it serves         *)
  request, response,   (* requestFrame and responseFrame of the iteration  *)
  dbStatus,     (* PQstatus(m_conn), "BAD" also for m_conn = NULL          *)
  (* PostgreSQL *)
  dbAlive,      (* whether the adapter's link is really up                 *)
  executed,     (* how often the database ran a call's statement           *)
  faults

dllVars == <<nextSequence, lastError, pc, sequence, ret, errorText>>
tcpVars == <<sock, cut, upParts, downParts, downFrame, backlog>>
srvVars == <<srvPc, cur, request, response, dbStatus>>
dbVars  == <<dbAlive, executed>>
vars    == <<dllVars, tcpVars, srvVars, dbVars, faults>>

Active  == {"loaded", "stored", "connect", "send", "recv"}
Settled == {"failed", "returned", "dead"}

DllType ==
  /\ nextSequence \in [Sessions -> Sequences]
  /\ lastError \in [Sessions -> Calls \cup {NoCall}]
  /\ pc \in [Calls -> {"idle"} \cup Active \cup Settled]
  /\ sequence \in [Calls -> Sequences]
  /\ ret \in [Calls -> Codes \cup {"none"}]
  /\ errorText \in [Calls -> Calls \cup {NoCall}]

TcpType ==
  /\ sock \in [Calls -> {"none", "queued", "accepted", "closed"}]
  /\ cut \in [Calls -> BOOLEAN]
  /\ upParts \in [Calls -> 0 .. FrameParts]
  /\ downParts \in [Calls -> 0 .. FrameParts]
  /\ downFrame \in [Calls -> Responses \cup {NoFrame}]
  /\ backlog \in Seq(Calls)

ServerType ==
  /\ srvPc \in {"down", "accept", "recv", "handle", "send", "close"}
  /\ cur \in Calls \cup {NoCall}
  /\ request \in Requests \cup {NoFrame}
  /\ response \in Responses \cup {NoFrame}
  /\ dbStatus \in {"OK", "BAD"}

DbType ==
  /\ dbAlive \in BOOLEAN
  /\ executed \in [Calls -> Nat]
  /\ faults \in 0 .. MaxFaults

(* Every variable of the request path has the type its C++ counterpart can *)
(* hold (HdbSessionTag, the frame headers, the locals of RunIpcServer).    *)
TypeOK == DllType /\ TcpType /\ ServerType /\ DbType

Init ==
  /\ nextSequence = [s \in Sessions |-> 1]
  /\ lastError = [s \in Sessions |-> NoCall]
  /\ pc = [k \in Calls |-> "idle"]
  /\ sequence = [k \in Calls |-> 0]
  /\ ret = [k \in Calls |-> "none"]
  /\ errorText = [k \in Calls |-> NoCall]
  /\ sock = [k \in Calls |-> "none"]
  /\ cut = [k \in Calls |-> FALSE]
  /\ upParts = [k \in Calls |-> 0]
  /\ downParts = [k \in Calls |-> 0]
  /\ downFrame = [k \in Calls |-> NoFrame]
  /\ backlog = <<>>
  /\ srvPc = "down"
  /\ cur = NoCall
  /\ request = NoFrame
  /\ response = NoFrame
  /\ dbStatus = "BAD"
  /\ dbAlive = FALSE
  /\ executed = [k \in Calls |-> 0]
  /\ faults = 0

-----------------------------------------------------------------------------
(* DLL: HdbDllNextSequence reads, increments and stores the counter with   *)
(* no lock, then repairs a wrap to 0 in a separate statement.              *)

MayStart(k) ==
  Serial => \A j \in Calls : SessionOf[j] = SessionOf[k] => pc[j] \in {"idle", "returned"}

LoadSequence(k) ==
  /\ pc[k] = "idle"
  /\ MayStart(k)
  /\ sequence' = [sequence EXCEPT ![k] = nextSequence[SessionOf[k]]]
  /\ pc' = [pc EXCEPT ![k] = "loaded"]
  /\ UNCHANGED <<nextSequence, lastError, ret, errorText, tcpVars, srvVars, dbVars, faults>>

(* Mutant: the counter is wider than the wire field.                       *)
StoreSequenceUnbounded(k) ==
  /\ pc[k] = "loaded"
  /\ nextSequence' = [nextSequence EXCEPT ![SessionOf[k]] = sequence[k] + 1]
  /\ pc' = [pc EXCEPT ![k] = "stored"]
  /\ UNCHANGED <<lastError, sequence, ret, errorText, tcpVars, srvVars, dbVars, faults>>

StoreSequence(k) ==
  /\ pc[k] = "loaded"
  /\ nextSequence' = [nextSequence EXCEPT ![SessionOf[k]] = (sequence[k] + 1) % SeqSpace]
  /\ pc' = [pc EXCEPT ![k] = "stored"]
  /\ UNCHANGED <<lastError, sequence, ret, errorText, tcpVars, srvVars, dbVars, faults>>

WrapSequence(k) ==
  /\ pc[k] = "stored"
  /\ nextSequence' = IF nextSequence[SessionOf[k]] = 0
                     THEN [nextSequence EXCEPT ![SessionOf[k]] = 1]
                     ELSE nextSequence
  /\ pc' = [pc EXCEPT ![k] = "connect"]
  /\ UNCHANGED <<lastError, sequence, ret, errorText, tcpVars, srvVars, dbVars, faults>>

(* Mutant: a failure leaves the session's text alone.                      *)
FailKeepsText(k, code) ==
  /\ ret' = [ret EXCEPT ![k] = code]
  /\ pc' = [pc EXCEPT ![k] = "failed"]
  /\ UNCHANGED <<nextSequence, lastError, sequence, errorText>>

(* HdbDllRequest leaves the reason in the session before it returns the    *)
(* code; the caller reads it from the session in a later statement.        *)
Fail(k, code) ==
  /\ ret' = [ret EXCEPT ![k] = code]
  /\ lastError' = [lastError EXCEPT ![SessionOf[k]] = k]
  /\ pc' = [pc EXCEPT ![k] = "failed"]
  /\ UNCHANGED <<nextSequence, sequence, errorText>>

CopyError(k) ==
  /\ pc[k] = "failed"
  /\ errorText' = [errorText EXCEPT ![k] = lastError[SessionOf[k]]]
  /\ pc' = [pc EXCEPT ![k] = "returned"]
  /\ UNCHANGED <<nextSequence, lastError, sequence, ret, tcpVars, srvVars, dbVars, faults>>

(* HdbIpcBuildRequest refuses the body, or memory runs out: nothing is     *)
(* sent.                                                                   *)
BuildFails(k) ==
  /\ pc[k] = "connect"
  /\ Fail(k, "HDB_ERR_BUFFER")
  /\ UNCHANGED <<tcpVars, srvVars, dbVars, faults>>

(* DLL: CHdbIpcTcpClient::Request.                                         *)

Connect(k) ==
  /\ pc[k] = "connect"
  /\ srvPc # "down"
  /\ Len(backlog) < Backlog
  /\ backlog' = Append(backlog, k)
  /\ sock' = [sock EXCEPT ![k] = "queued"]
  /\ pc' = [pc EXCEPT ![k] = "send"]
  /\ UNCHANGED <<nextSequence, lastError, sequence, ret, errorText>>
  /\ UNCHANGED <<cut, upParts, downParts, downFrame, srvVars, dbVars, faults>>

ConnectFails(k) ==
  /\ pc[k] = "connect"
  /\ srvPc = "down" \/ Len(backlog) = Backlog
  /\ Fail(k, "HDB_ERR_NOT_CONNECTED")
  /\ UNCHANGED <<tcpVars, srvVars, dbVars, faults>>

SendPart(k) ==
  /\ pc[k] = "send"
  /\ ~cut[k] /\ sock[k] # "closed"
  /\ upParts' = [upParts EXCEPT ![k] = @ + 1]
  /\ pc' = [pc EXCEPT ![k] = IF upParts[k] + 1 = FrameParts THEN "recv" ELSE "send"]
  /\ UNCHANGED <<nextSequence, lastError, sequence, ret, errorText>>
  /\ UNCHANGED <<sock, cut, downParts, downFrame, backlog, srvVars, dbVars, faults>>

SendFails(k) ==
  /\ pc[k] = "send"
  /\ cut[k] \/ sock[k] = "closed"
  /\ Fail(k, "HDB_ERR_NOT_CONNECTED")
  /\ UNCHANGED <<tcpVars, srvVars, dbVars, faults>>

(* Mutant: a lost answer makes the client send its request again.          *)
RecvRetries(k) ==
  /\ pc[k] = "recv"
  /\ cut[k] \/ (sock[k] = "closed" /\ downParts[k] < FrameParts)
  /\ sock[k] = "closed"
  /\ pc' = [pc EXCEPT ![k] = "connect"]
  /\ cut' = [cut EXCEPT ![k] = FALSE]
  /\ upParts' = [upParts EXCEPT ![k] = 0]
  /\ downParts' = [downParts EXCEPT ![k] = 0]
  /\ UNCHANGED <<nextSequence, lastError, sequence, ret, errorText>>
  /\ UNCHANGED <<sock, downFrame, backlog, srvVars, dbVars, faults>>

(* Mutant: a lost answer is reported as a bad frame.                       *)
RecvFailsAsBadFrame(k) ==
  /\ pc[k] = "recv"
  /\ cut[k] \/ (sock[k] = "closed" /\ downParts[k] < FrameParts)
  /\ Fail(k, "HDB_ERR_BUFFER")
  /\ UNCHANGED <<tcpVars, srvVars, dbVars, faults>>

RecvFails(k) ==
  /\ pc[k] = "recv"
  /\ cut[k] \/ (sock[k] = "closed" /\ downParts[k] < FrameParts)
  /\ Fail(k, "HDB_ERR_NOT_CONNECTED")
  /\ UNCHANGED <<tcpVars, srvVars, dbVars, faults>>

(* Mutant: any well-formed response counts as success.                     *)
ResponseCodeIgnoresStatus(k) ==
  LET f == downFrame[k]
  IN IF f.command # CommandOf[k] \/ f.sequence # sequence[k]
     THEN "HDB_ERR_BUFFER" ELSE "HDB_OK"

(* The code HdbDllRequest makes of a complete response frame.              *)
ResponseCode(k) ==
  LET f == downFrame[k]
  IN IF f.command # CommandOf[k] \/ f.sequence # sequence[k]
     THEN "HDB_ERR_BUFFER" ELSE f.status

RecvResponse(k) ==
  /\ pc[k] = "recv"
  /\ downParts[k] = FrameParts
  /\ \/ /\ ResponseCode(k) # "HDB_OK"
        /\ Fail(k, ResponseCode(k))
     \/ /\ ResponseCode(k) = "HDB_OK"
        /\ ret' = [ret EXCEPT ![k] = "HDB_OK"]
        /\ pc' = [pc EXCEPT ![k] = "returned"]
        /\ UNCHANGED <<nextSequence, lastError, sequence, errorText>>
     \/ (* the body cannot be decoded, or memory runs out while it is      *)
        /\ ResponseCode(k) = "HDB_OK"
        /\ ret' = [ret EXCEPT ![k] = "HDB_ERR_BUFFER"]
        /\ lastError' = [lastError EXCEPT ![SessionOf[k]] = k]
        /\ errorText' = [errorText EXCEPT ![k] = k]
        /\ pc' = [pc EXCEPT ![k] = "returned"]
        /\ UNCHANGED <<nextSequence, sequence>>
  /\ UNCHANGED <<tcpVars, srvVars, dbVars, faults>>

-----------------------------------------------------------------------------
(* SERVER: main opens and pings the adapter, then RunIpcServer listens.    *)

StartServer ==
  /\ srvPc = "down"
  /\ srvPc' = "accept"
  /\ dbStatus' = "OK"
  /\ dbAlive' = TRUE
  /\ UNCHANGED <<cur, request, response, executed, dllVars, tcpVars, faults>>

(* The connection and both frame buffers are locals of one iteration.      *)
Accept ==
  /\ srvPc = "accept"
  /\ backlog # <<>>
  /\ cur' = Head(backlog)
  /\ backlog' = Tail(backlog)
  /\ sock' = [sock EXCEPT ![Head(backlog)] = "accepted"]
  /\ request' = NoFrame
  /\ response' = NoFrame
  /\ srvPc' = "recv"
  /\ UNCHANGED <<cut, upParts, downParts, downFrame, dbStatus, dllVars, dbVars, faults>>

(* The client closes its socket when Request returns or its process dies.  *)
PeerClosed(k) == pc[k] \in Settled

(* Mutant: the server does not notice that its client hung up.             *)
RecvFrameWaits ==
  /\ srvPc = "recv"
  /\ upParts[cur] = FrameParts
  /\ request' = [call |-> cur, command |-> CommandOf[cur], sequence |-> sequence[cur]]
  /\ srvPc' = "handle"
  /\ UNCHANGED <<cur, response, dbStatus, dllVars, tcpVars, dbVars, faults>>

RecvFrame ==
  /\ srvPc = "recv"
  /\ \/ /\ upParts[cur] = FrameParts
        /\ request' = [call |-> cur, command |-> CommandOf[cur], sequence |-> sequence[cur]]
        /\ srvPc' = "handle"
     \/ /\ cut[cur] \/ (PeerClosed(cur) /\ upParts[cur] < FrameParts)
        /\ srvPc' = "close"
        /\ UNCHANGED request
  /\ UNCHANGED <<cur, response, dbStatus, dllVars, tcpVars, dbVars, faults>>

(* CHdbPgAdapter: CheckConnected looks at the status libpq remembers, then *)
(* PQexecParams runs the statement.  code is what the adapter returns.     *)
AdapterExec(k, code) ==
  \/ /\ dbStatus = "BAD"
     /\ code = "HDB_ERR_NOT_CONNECTED"
     /\ UNCHANGED <<dbStatus, dbAlive, executed, faults>>
  \/ /\ dbStatus = "OK" /\ ~dbAlive
     /\ code = "HDB_ERR_DB_EXEC"
     /\ dbStatus' = "BAD"
     /\ UNCHANGED <<dbAlive, executed, faults>>
  \/ /\ dbStatus = "OK" /\ dbAlive
     /\ code = "HDB_OK"
     /\ executed' = [executed EXCEPT ![k] = @ + 1]
     /\ UNCHANGED <<dbStatus, dbAlive, faults>>
  \/ (* the database rejects the statement                                 *)
     /\ dbStatus = "OK" /\ dbAlive
     /\ code = "HDB_ERR_DB_EXEC"
     /\ UNCHANGED <<dbStatus, dbAlive, executed, faults>>
  \/ (* the link breaks under the statement, before or after it ran        *)
     /\ dbStatus = "OK" /\ dbAlive
     /\ faults < MaxFaults
     /\ faults' = faults + 1
     /\ code = "HDB_ERR_DB_EXEC"
     /\ dbStatus' = "BAD"
     /\ dbAlive' = FALSE
     /\ executed' \in {executed, [executed EXCEPT ![k] = @ + 1]}

(* Mutant: the handler ignores what the executor returned.                 *)
ReplyOk(status) ==
  response' = [call     |-> request.call,     command |-> request.command,
               sequence |-> request.sequence, status  |-> "HDB_OK"]

Reply(status) ==
  response' = [call     |-> request.call,     command |-> request.command,
               sequence |-> request.sequence, status  |-> status]

(* CHdbIpcCommandHandler: a refused request (or one that runs out of       *)
(* memory) never reaches the adapter; an executed one may still fail when  *)
(* its result is converted, encoded or appended.                           *)
HandleRequest ==
  /\ srvPc = "handle"
  /\ \/ /\ \E status \in {"HDB_ERR_QUERY_RANGE", "HDB_ERR_BUFFER"} :
             /\ request.command = "DB_PING" => status = "HDB_ERR_BUFFER"
             /\ Reply(status)
        /\ UNCHANGED <<dbStatus, dbAlive, executed, faults>>
     \/ \E code \in Codes :
          /\ AdapterExec(request.call, code)
          /\ \E status \in IF code = "HDB_OK" THEN {"HDB_OK", "HDB_ERR_BUFFER"} ELSE {code} :
               Reply(status)
  /\ srvPc' = "send"
  /\ UNCHANGED <<cur, request, dllVars, tcpVars>>

(* Mutant: the server answers the newest connection.                       *)
SendFrameToNewest ==
  LET k == IF backlog = <<>> THEN cur ELSE Last(backlog)
  IN /\ srvPc = "send"
     /\ downParts[k] < FrameParts
     /\ downParts' = [downParts EXCEPT ![k] = @ + 1]
     /\ downFrame' = [downFrame EXCEPT ![k] = response]
     /\ srvPc' = IF downParts[k] + 1 = FrameParts THEN "close" ELSE "send"
     /\ UNCHANGED <<cur, request, response, dbStatus, sock, cut, upParts, backlog>>
     /\ UNCHANGED <<dllVars, dbVars, faults>>

(* Mutant: a send that fails is tried again.                               *)
SendFrameInsists ==
  /\ srvPc = "send"
  /\ ~cut[cur]
  /\ downParts' = [downParts EXCEPT ![cur] = @ + 1]
  /\ downFrame' = [downFrame EXCEPT ![cur] = response]
  /\ srvPc' = IF downParts[cur] + 1 = FrameParts THEN "close" ELSE "send"
  /\ UNCHANGED <<cur, request, response, dbStatus, sock, cut, upParts, backlog>>
  /\ UNCHANGED <<dllVars, dbVars, faults>>

SendFrame ==
  /\ srvPc = "send"
  /\ \/ /\ ~cut[cur]
        /\ downParts' = [downParts EXCEPT ![cur] = @ + 1]
        /\ downFrame' = [downFrame EXCEPT ![cur] = response]
        /\ srvPc' = IF downParts[cur] + 1 = FrameParts THEN "close" ELSE "send"
     \/ /\ cut[cur] \/ PeerClosed(cur)
        /\ srvPc' = "close"
        /\ UNCHANGED <<downParts, downFrame>>
  /\ UNCHANGED <<cur, request, response, dbStatus, sock, cut, upParts, backlog>>
  /\ UNCHANGED <<dllVars, dbVars, faults>>

(* Mutant: the loop leaves the descriptor open.                            *)
CloseLeaks ==
  /\ srvPc = "close"
  /\ cur' = NoCall
  /\ srvPc' = "accept"
  /\ UNCHANGED <<request, response, dbStatus, dllVars, tcpVars, dbVars, faults>>

Close ==
  /\ srvPc = "close"
  /\ sock' = [sock EXCEPT ![cur] = "closed"]
  /\ cur' = NoCall
  /\ srvPc' = "accept"
  /\ UNCHANGED <<request, response, dbStatus, cut, upParts, downParts, downFrame, backlog>>
  /\ UNCHANGED <<dllVars, dbVars, faults>>

-----------------------------------------------------------------------------
(* Faults, each counted.                                                   *)

Open(k) == sock[k] \in {"queued", "accepted"}

Fault == faults < MaxFaults /\ faults' = faults + 1

ServerDies ==
  /\ srvPc # "down"
  /\ Fault
  /\ srvPc' = "down"
  /\ cur' = NoCall
  /\ request' = NoFrame
  /\ response' = NoFrame
  /\ dbStatus' = "BAD"
  /\ dbAlive' = FALSE
  /\ backlog' = <<>>
  /\ cut' = [k \in Calls |-> cut[k] \/ Open(k)]
  /\ sock' = [k \in Calls |-> IF Open(k) THEN "closed" ELSE sock[k]]
  /\ UNCHANGED <<upParts, downParts, downFrame, executed, dllVars>>

(* A DLL process dies with every call of its session.                      *)
DllDies(s) ==
  /\ \E k \in Calls : SessionOf[k] = s /\ pc[k] \in Active
  /\ Fault
  /\ pc' = [k \in Calls |-> IF SessionOf[k] = s /\ pc[k] # "returned" THEN "dead" ELSE pc[k]]
  /\ UNCHANGED <<nextSequence, lastError, sequence, ret, errorText, tcpVars, srvVars, dbVars>>

ConnectionReset(k) ==
  /\ Open(k) /\ ~cut[k]
  /\ Fault
  /\ cut' = [cut EXCEPT ![k] = TRUE]
  /\ UNCHANGED <<sock, upParts, downParts, downFrame, backlog, dllVars, srvVars, dbVars>>

DbLinkBreaks ==
  /\ dbAlive
  /\ Fault
  /\ dbAlive' = FALSE
  /\ UNCHANGED <<executed, dllVars, tcpVars, srvVars>>

-----------------------------------------------------------------------------
CallStep(k) ==
  \/ LoadSequence(k) \/ StoreSequence(k) \/ WrapSequence(k)
  \/ BuildFails(k) \/ Connect(k) \/ ConnectFails(k)
  \/ SendPart(k) \/ SendFails(k)
  \/ RecvResponse(k) \/ RecvFails(k)
  \/ CopyError(k)

ServerStep == Accept \/ RecvFrame \/ HandleRequest \/ SendFrame \/ Close

FaultStep ==
  \/ ServerDies
  \/ \E s \in Sessions : DllDies(s)
  \/ \E k \in Calls : ConnectionReset(k)
  \/ DbLinkBreaks

(* Every call has ended and the server waits in accept() or is down.       *)
Finished ==
  /\ \A k \in Calls : pc[k] \in {"returned", "dead"}
  /\ srvPc = "down" \/ (srvPc = "accept" /\ backlog = <<>>)

Next ==
  \/ \E k \in Calls : CallStep(k)
  \/ StartServer
  \/ ServerStep
  \/ FaultStep
  \/ Finished /\ UNCHANGED vars

Spec == Init /\ [][Next]_vars

(* A thread inside a DLL call runs on, and so does the server's loop; the  *)
(* loop has no timeout of its own.  Nobody promises to start a call, to    *)
(* start the server, or that a fault happens.                              *)
Progress(k) == CallStep(k) /\ pc[k] # "idle"

Fairness ==
  /\ \A k \in Calls : WF_vars(Progress(k))
  /\ WF_vars(ServerStep)

FairSpec == Spec /\ Fairness

-----------------------------------------------------------------------------
(* Properties.                                                             *)

(* No statement runs twice, whatever dies and restarts: HdbDllRequest never *)
(* retries and a connection carries one request.                            *)
AtMostOnce == \A k \in Calls : executed[k] <= 1

(* What a return code says about the database: HDB_OK only after the        *)
(* statement ran, a refusal of the SQL builder only if it never ran.        *)
OutcomeHonest ==
  \A k \in Calls : pc[k] \in {"failed", "returned"} =>
    /\ ret[k] = "HDB_OK" => executed[k] = 1
    /\ ret[k] = "HDB_ERR_QUERY_RANGE" => executed[k] = 0

(* A response frame only ever reaches the call it answers: two sessions     *)
(* both start at sequence 1, so the check of HdbDllRequest alone cannot     *)
(* tell their frames apart and the server loop must keep them apart.        *)
OwnResponse ==
  \A k \in Calls : downFrame[k] # NoFrame => downFrame[k].call = k

(* Once the server answered a call its statement is settled; only a call    *)
(* that lost its connection can still be executed after it returned.        *)
AnsweredIsSettled ==
  [][\A k \in Calls :
       pc[k] \in {"failed", "returned"} /\ ret[k] # "HDB_ERR_NOT_CONNECTED"
         => executed'[k] = executed[k]]_vars

(* The server loses no descriptor and no client: every connection it holds  *)
(* is the one it serves or waits exactly once in the listen queue.          *)
ConnectionsAccounted ==
  /\ \A k \in Calls : sock[k] = "accepted" <=> (cur = k)
  /\ \A k \in Calls : sock[k] = "queued" <=> k \in ToSet(backlog)
  /\ \A i, j \in 1 .. Len(backlog) : backlog[i] = backlog[j] => i = j

(* With one call at a time on a session the text read after a failure is    *)
(* that failure's.                                                          *)
ErrorTextIsOwn ==
  \A k \in Calls : pc[k] = "returned" /\ ret[k] # "HDB_OK" => errorText[k] = k

(* The value 0 is reserved (comment in HdbDllNextSequence).                 *)
SequenceNeverZero ==
  \A k \in Calls : pc[k] \in {"loaded", "stored", "connect", "send", "recv"} => sequence[k] # 0

(* Every call that was started comes back (or its process dies), with the   *)
(* server up, down, dying or restarting.                                    *)
CallReturns ==
  \A k \in Calls : pc[k] = "loaded" ~> pc[k] \in {"returned", "dead"}

(* A connection the kernel accepted is eventually served and closed.        *)
ConnectionDrained ==
  \A k \in Calls : sock[k] = "queued" ~> sock[k] = "closed"

=============================================================================
