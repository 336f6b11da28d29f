--------------------------- MODULE HdbSourceRegistry ---------------------------
(***************************************************************************)
(* The table of active HDB_SOURCE handles of the DLL, g_hdbActiveSources,  *)
(* and the query handles that create, validate and free sources.  Threads  *)
(* work on queries of their own, as ysd_hdb_c.h asks, and share only the   *)
(* table and its lock; a thread may pass any handle the DLL ever returned, *)
(* also one that was freed or belongs to another query.  Memory is         *)
(* explicit: an address is handed out again after delete.  Where memory    *)
(* runs out, the clean-up may run out of it too: storing the text of the   *)
(* error throws past the lines that take the new source out of the AST,    *)
(* and a source of the AST then has no handle.                             *)
(***************************************************************************)
EXTENDS Integers, Sequences, SequencesExt

CONSTANTS
  Threads,      (* threads of the process that loaded the DLL              *)
  Queries,      (* addresses an HdbQueryTag can get                        *)
  Addrs,        (* addresses an HdbQuerySourceTag can get                  *)
  MaxSources,   (* HDB_QUERY_MAX_SOURCE_COUNT                              *)
  NoThread, NoQuery, NoAddr

SourceIds == 0 .. MaxSources - 1
Blocks    == [owner : Queries, id : SourceIds]

ASSUME RegistryAssumption ==
  /\ MaxSources \in Nat \ {0}
  /\ NoThread \notin Threads
  /\ NoQuery \notin Queries
  /\ NoAddr \notin Addrs \cup Blocks

VARIABLES
  qThread,      (* the thread that uses a query, NoThread: not allocated   *)
  astSize,      (* query->ast.sources.size()                               *)
  sources,      (* query->sources                                          *)
  heap,         (* what an address holds: a block, or NoAddr when free     *)
  registry,     (* g_hdbActiveSources                                      *)
  lock,         (* the owner of g_hdbActiveSourceLock                      *)
  issued,       (* handles the application has been given                  *)
  pc, op, q, src, idx, id, next   (* the call a thread is in: its place,   *)
                (* API function, query, source, table index, source id and *)
                (* the loop counter of HdbDllFreeQuerySources              *)

calls == <<pc, op, q, src, idx, id, next>>
vars  == <<qThread, astSize, sources, heap, registry, lock, issued, calls>>

Places == {"idle", "alloc", "register", "push", "pushed", "keep",
           "find", "read", "accept", "refuse", "checked",
           "unregister", "findOld", "erase", "erased", "delete", "free"}

(* Places inside a CHdbDllActiveSourceGuard.                               *)
Critical == {"push", "pushed", "find", "read", "accept", "refuse",
             "findOld", "erase", "erased"}

(* The handles, the table and every thread's call keep their types.        *)
TypeOK ==
  /\ qThread \in [Queries -> Threads \cup {NoThread}]
  /\ astSize \in [Queries -> 0 .. MaxSources]
  /\ sources \in [Queries -> Seq(Addrs)]
  /\ heap \in [Addrs -> Blocks \cup {NoAddr}]
  /\ registry \in Seq(Addrs)
  /\ lock \in Threads \cup {NoThread}
  /\ issued \in SUBSET Addrs
  /\ pc \in [Threads -> Places]
  /\ op \in [Threads -> {"none", "From", "Join", "Use", "Free"}]
  /\ q \in [Threads -> Queries \cup {NoQuery}]
  /\ src \in [Threads -> Addrs \cup {NoAddr}]
  /\ idx \in [Threads -> Nat]
  /\ id \in [Threads -> SourceIds]
  /\ next \in [Threads -> Nat]

Init ==
  /\ qThread = [x \in Queries |-> NoThread]
  /\ astSize = [x \in Queries |-> 0]
  /\ sources = [x \in Queries |-> <<>>]
  /\ heap = [a \in Addrs |-> NoAddr]
  /\ registry = <<>>
  /\ lock = NoThread
  /\ issued = {}
  /\ pc = [t \in Threads |-> "idle"]
  /\ op = [t \in Threads |-> "none"]
  /\ q = [t \in Threads |-> NoQuery]
  /\ src = [t \in Threads |-> NoAddr]
  /\ idx = [t \in Threads |-> 0]
  /\ id = [t \in Threads |-> 0]
  /\ next = [t \in Threads |-> 0]

Goto(t, place) == pc' = [pc EXCEPT ![t] = place]

Enter(t, place) == lock = NoThread /\ lock' = t /\ Goto(t, place)
Leave(t, place) == lock' = NoThread /\ Goto(t, place)

(* The call returns to the application; its locals are gone.               *)
Return(t) ==
  /\ Goto(t, "idle")
  /\ op' = [op EXCEPT ![t] = "none"]
  /\ q' = [q EXCEPT ![t] = NoQuery]
  /\ src' = [src EXCEPT ![t] = NoAddr]
  /\ idx' = [idx EXCEPT ![t] = 0]
  /\ id' = [id EXCEPT ![t] = 0]
  /\ next' = [next EXCEPT ![t] = 0]

(* HdbDllFindActiveSourceIndexNoLock: 0 when the source is not listed.     *)
IndexOf(a) ==
  IF \E i \in DOMAIN registry : registry[i] = a
  THEN CHOOSE i \in DOMAIN registry :
         registry[i] = a /\ \A j \in 1 .. i - 1 : registry[j] # a
  ELSE 0

-----------------------------------------------------------------------------
(* API functions start here.                                               *)

QueryCreate(t, x) ==
  /\ pc[t] = "idle"
  /\ qThread[x] = NoThread
  /\ qThread' = [qThread EXCEPT ![x] = t]
  /\ astSize' = [astSize EXCEPT ![x] = 0]
  /\ UNCHANGED <<sources, heap, registry, lock, issued, calls>>

(* AddRootSource succeeds on an empty AST only and takes source id 0.      *)
QueryFrom(t, x) ==
  /\ pc[t] = "idle"
  /\ qThread[x] = t
  /\ astSize[x] = 0
  /\ astSize' = [astSize EXCEPT ![x] = 1]
  /\ Goto(t, "alloc")
  /\ op' = [op EXCEPT ![t] = "From"]
  /\ q' = [q EXCEPT ![t] = x]
  /\ UNCHANGED <<qThread, sources, heap, registry, lock, issued, src, idx, id, next>>

(* HdbQueryJoin and HdbQueryJoinOn add a source after validating           *)
(* fromSource; HdbQuerySelect, the Where, Condition, OrderBy and SetValue  *)
(* calls only validate.                                                    *)
QueryUse(t, x, a, name) ==
  /\ pc[t] = "idle"
  /\ qThread[x] = t
  /\ a \in issued
  /\ Enter(t, "find")
  /\ op' = [op EXCEPT ![t] = name]
  /\ q' = [q EXCEPT ![t] = x]
  /\ src' = [src EXCEPT ![t] = a]
  /\ UNCHANGED <<qThread, astSize, sources, heap, registry, issued, idx, id, next>>

QueryFree(t, x) ==
  /\ pc[t] = "idle"
  /\ qThread[x] = t
  /\ Goto(t, "free")
  /\ op' = [op EXCEPT ![t] = "Free"]
  /\ q' = [q EXCEPT ![t] = x]
  /\ next' = [next EXCEPT ![t] = 1]
  /\ UNCHANGED <<qThread, astSize, sources, heap, registry, lock, issued, src, idx, id>>

-----------------------------------------------------------------------------
(* HdbDllValidateQuerySource: the lock is held from the lookup until the   *)
(* owner and the id have been read.                                        *)

ValidateFind(t) ==
  /\ pc[t] = "find"
  /\ Goto(t, IF IndexOf(src[t]) = 0 THEN "refuse" ELSE "read")
  /\ UNCHANGED <<qThread, astSize, sources, heap, registry, lock, issued, op, q, src, idx, id, next>>

(* Mutant: the owner of the source is not compared.                        *)
ValidateReadAnyOwner(t) ==
  /\ pc[t] = "read"
  /\ heap[src[t]] # NoAddr
  /\ id' = [id EXCEPT ![t] = heap[src[t]].id]
  /\ Goto(t, "accept")
  /\ UNCHANGED <<qThread, astSize, sources, heap, registry, lock, issued, op, q, src, idx, next>>

(* What a freed block holds is anything: the read may go either way.       *)
ValidateRead(t) ==
  /\ pc[t] = "read"
  /\ \E b \in IF heap[src[t]] = NoAddr THEN Blocks ELSE {heap[src[t]]} :
       \/ /\ b.owner # q[t]
          /\ Goto(t, "refuse")
          /\ id' = id
       \/ /\ b.owner = q[t]
          /\ id' = [id EXCEPT ![t] = b.id]
          /\ Goto(t, "accept")
  /\ UNCHANGED <<qThread, astSize, sources, heap, registry, lock, issued, op, q, src, idx, next>>

(* Mutant: an early return leaves the table locked.                        *)
ValidateRefuseLocked(t) ==
  /\ pc[t] = "refuse"
  /\ Return(t)
  /\ UNCHANGED <<qThread, astSize, sources, heap, registry, lock, issued>>

ValidateRefuse(t) ==
  /\ pc[t] = "refuse"
  /\ lock' = NoThread
  /\ Return(t)
  /\ UNCHANGED <<qThread, astSize, sources, heap, registry, issued>>

ValidateAccept(t) ==
  /\ pc[t] = "accept"
  /\ Leave(t, "checked")
  /\ UNCHANGED <<qThread, astSize, sources, heap, registry, issued, op, q, src, idx, id, next>>

(* Mutant: AddJoinSource does not look at HDB_QUERY_MAX_SOURCE_COUNT.       *)
ProceedUnbounded(t) ==
  /\ pc[t] = "checked"
  /\ \/ /\ Return(t)
        /\ UNCHANGED astSize
     \/ /\ op[t] = "Join" /\ id[t] < astSize[q[t]]
        /\ id' = [id EXCEPT ![t] = astSize[q[t]]]
        /\ astSize' = [astSize EXCEPT ![q[t]] = @ + 1]
        /\ Goto(t, "alloc")
        /\ UNCHANGED <<op, q, src, idx, next>>
  /\ UNCHANGED <<qThread, sources, heap, registry, lock, issued>>

(* FindSourceIndex, and what the API function does with the source id: a   *)
(* new source of the AST, or a return (not a JOIN, a name or a type it     *)
(* refuses, no room, no memory for the names).                             *)
Proceed(t) ==
  /\ pc[t] = "checked"
  /\ \/ /\ Return(t)
        /\ UNCHANGED astSize
     \/ /\ op[t] = "Join" /\ id[t] < astSize[q[t]] /\ astSize[q[t]] < MaxSources
        /\ id' = [id EXCEPT ![t] = astSize[q[t]]]
        /\ astSize' = [astSize EXCEPT ![q[t]] = @ + 1]
        /\ Goto(t, "alloc")
        /\ UNCHANGED <<op, q, src, idx, next>>
  /\ UNCHANGED <<qThread, sources, heap, registry, lock, issued>>

(* HdbQueryJoinOn: memory runs out inside AddJoinSourceOn once the source  *)
(* is stored.  The exception passes every clean-up; no handle is made.     *)
JoinOnFails(t) ==
  /\ pc[t] = "checked"
  /\ op[t] = "Join" /\ id[t] < astSize[q[t]] /\ astSize[q[t]] < MaxSources
  /\ astSize' = [astSize EXCEPT ![q[t]] = @ + 1]
  /\ Return(t)
  /\ UNCHANGED <<qThread, sources, heap, registry, lock, issued>>

-----------------------------------------------------------------------------
(* HdbDllCreateQuerySource.  Memory may run out at new and at both         *)
(* push_back calls, and again while the text of that error is stored.      *)

(* HdbQueryFrom empties the AST again, HdbQueryJoin takes its source back. *)
AstUndone(t) ==
  astSize' = [astSize EXCEPT ![q[t]] = IF op[t] = "From" THEN 0 ELSE @ - 1]

(* The call fails: the AST is put back, unless HdbDllSetQueryError throws  *)
(* out of HdbDllCreateQuerySource.                                         *)
CreateFails(t) ==
  /\ AstUndone(t) \/ UNCHANGED astSize
  /\ Return(t)

Allocate(t, a) ==
  /\ pc[t] = "alloc"
  /\ heap[a] = NoAddr
  /\ heap' = [heap EXCEPT ![a] = [owner |-> q[t], id |-> id[t]]]
  /\ src' = [src EXCEPT ![t] = a]
  /\ Goto(t, "register")
  /\ UNCHANGED <<qThread, astSize, sources, registry, lock, issued, op, q, idx, id, next>>

AllocateFails(t) ==
  /\ pc[t] = "alloc"
  /\ CreateFails(t)
  /\ UNCHANGED <<qThread, sources, heap, registry, lock, issued>>

RegisterLock(t) ==
  /\ pc[t] = "register"
  /\ Enter(t, "push")
  /\ UNCHANGED <<qThread, astSize, sources, heap, registry, issued, op, q, src, idx, id, next>>

RegisterSource(t) ==
  /\ pc[t] = "push"
  /\ registry' = Append(registry, src[t])
  /\ Goto(t, "pushed")
  /\ UNCHANGED <<qThread, astSize, sources, heap, lock, issued, op, q, src, idx, id, next>>

(* push_back throws: the guard unlocks, the catch block unregisters.       *)
RegisterFails(t) ==
  /\ pc[t] = "push"
  /\ Leave(t, "unregister")
  /\ UNCHANGED <<qThread, astSize, sources, heap, registry, issued, op, q, src, idx, id, next>>

RegisterUnlock(t) ==
  /\ pc[t] = "pushed"
  /\ Leave(t, "keep")
  /\ UNCHANGED <<qThread, astSize, sources, heap, registry, issued, op, q, src, idx, id, next>>

KeepSource(t) ==
  /\ pc[t] = "keep"
  /\ sources' = [sources EXCEPT ![q[t]] = Append(@, src[t])]
  /\ issued' = issued \cup {src[t]}
  /\ Return(t)
  /\ UNCHANGED <<qThread, astSize, heap, registry, lock>>

(* Mutant: a failed push_back returns without the catch block.             *)
KeepFailsLeaks(t) ==
  /\ pc[t] = "keep"
  /\ CreateFails(t)
  /\ UNCHANGED <<qThread, sources, heap, registry, lock, issued>>

KeepFails(t) ==
  /\ pc[t] = "keep"
  /\ Goto(t, "unregister")
  /\ UNCHANGED <<qThread, astSize, sources, heap, registry, lock, issued, op, q, src, idx, id, next>>

-----------------------------------------------------------------------------
(* HdbDllUnregisterSource, from the catch block or from                    *)
(* HdbDllFreeQuerySources.                                                 *)

UnregisterLock(t) ==
  /\ pc[t] = "unregister"
  /\ Enter(t, "findOld")
  /\ UNCHANGED <<qThread, astSize, sources, heap, registry, issued, op, q, src, idx, id, next>>

(* Mutant: the lock covers the lookup and not the erase.                   *)
UnregisterFindUnlocks(t) ==
  /\ pc[t] = "findOld"
  /\ idx' = [idx EXCEPT ![t] = IndexOf(src[t])]
  /\ lock' = NoThread
  /\ Goto(t, IF IndexOf(src[t]) = 0 THEN "erased" ELSE "erase")
  /\ UNCHANGED <<qThread, astSize, sources, heap, registry, issued, op, q, src, id, next>>

UnregisterFind(t) ==
  /\ pc[t] = "findOld"
  /\ idx' = [idx EXCEPT ![t] = IndexOf(src[t])]
  /\ Goto(t, IF IndexOf(src[t]) = 0 THEN "erased" ELSE "erase")
  /\ UNCHANGED <<qThread, astSize, sources, heap, registry, lock, issued, op, q, src, id, next>>

UnregisterErase(t) ==
  /\ pc[t] = "erase"
  /\ registry' = RemoveAt(registry, idx[t])
  /\ Goto(t, "erased")
  /\ UNCHANGED <<qThread, astSize, sources, heap, lock, issued, op, q, src, idx, id, next>>

UnregisterUnlock(t) ==
  /\ pc[t] = "erased"
  /\ Leave(t, "delete")
  /\ UNCHANGED <<qThread, astSize, sources, heap, registry, issued, op, q, src, idx, id, next>>

DeleteSource(t) ==
  /\ pc[t] = "delete"
  /\ heap' = [heap EXCEPT ![src[t]] = NoAddr]
  /\ \/ /\ op[t] = "Free"
        /\ next' = [next EXCEPT ![t] = @ + 1]
        /\ Goto(t, "free")
        /\ UNCHANGED <<astSize, op, q, src, idx, id>>
     \/ /\ op[t] # "Free"
        /\ CreateFails(t)
  /\ UNCHANGED <<qThread, sources, registry, lock, issued>>

(* Mutant: the source is deleted first and unregistered afterwards.        *)
FreeNextDeletesFirst(t) ==
  /\ pc[t] = "free"
  /\ next[t] <= Len(sources[q[t]])
  /\ src' = [src EXCEPT ![t] = sources[q[t]][next[t]]]
  /\ heap' = [heap EXCEPT ![sources[q[t]][next[t]]] = NoAddr]
  /\ Goto(t, "unregister")
  /\ UNCHANGED <<qThread, astSize, sources, registry, lock, issued, op, q, idx, id, next>>

FreeNext(t) ==
  /\ pc[t] = "free"
  /\ next[t] <= Len(sources[q[t]])
  /\ src' = [src EXCEPT ![t] = sources[q[t]][next[t]]]
  /\ Goto(t, "unregister")
  /\ UNCHANGED <<qThread, astSize, sources, heap, registry, lock, issued, op, q, idx, id, next>>

FreeDone(t) ==
  /\ pc[t] = "free"
  /\ next[t] > Len(sources[q[t]])
  /\ sources' = [sources EXCEPT ![q[t]] = <<>>]
  /\ astSize' = [astSize EXCEPT ![q[t]] = 0]
  /\ qThread' = [qThread EXCEPT ![q[t]] = NoThread]
  /\ Return(t)
  /\ UNCHANGED <<heap, registry, lock, issued>>

Start(t) ==
  \E x \in Queries :
    \/ QueryCreate(t, x)
    \/ QueryFrom(t, x)
    \/ \E a \in Addrs, name \in {"Join", "Use"} : QueryUse(t, x, a, name)
    \/ QueryFree(t, x)

Step(t) ==
  \/ ValidateFind(t) \/ ValidateRead(t) \/ ValidateRefuse(t) \/ ValidateAccept(t)
  \/ Proceed(t) \/ JoinOnFails(t)
  \/ \E a \in Addrs : Allocate(t, a)
  \/ AllocateFails(t)
  \/ RegisterLock(t) \/ RegisterSource(t) \/ RegisterFails(t) \/ RegisterUnlock(t)
  \/ KeepSource(t) \/ KeepFails(t)
  \/ UnregisterLock(t) \/ UnregisterFind(t) \/ UnregisterErase(t) \/ UnregisterUnlock(t)
  \/ DeleteSource(t) \/ FreeNext(t) \/ FreeDone(t)

Next == \E t \in Threads : Start(t) \/ Step(t)

Spec == Init /\ [][Next]_vars

(* A thread inside a call keeps running.  Nothing makes a mutex fair.      *)
FairSpec == Spec /\ \A t \in Threads : WF_vars(Step(t))

-----------------------------------------------------------------------------
(* A listed handle points to an allocated source of a live query: what a   *)
(* lookup under the lock finds may be dereferenced.                        *)
ListedIsAlive ==
  \A i \in DOMAIN registry :
    LET b == heap[registry[i]]
    IN b # NoAddr /\ qThread[b.owner] # NoThread

(* HdbDllValidateQuerySource never reads freed memory, and                 *)
(* HdbDllUnregisterSource erases the entry it looked up.                   *)
NoStaleAccess ==
  \A t \in Threads :
    /\ pc[t] = "read" => heap[src[t]] # NoAddr
    /\ pc[t] = "erase" => idx[t] \in DOMAIN registry /\ registry[idx[t]] = src[t]

(* A handle that passed validation is one this query created and has not   *)
(* freed, its id names a source of the query's AST, so the caller's "query *)
(* source id is invalid" cannot follow, and no other handle of the query   *)
(* has that id.                                                            *)
ValidatedIsOwn ==
  \A t \in Threads : pc[t] = "checked" =>
    LET s == sources[q[t]]
    IN /\ \E i \in DOMAIN s : s[i] = src[t]
       /\ id[t] < astSize[q[t]]
       /\ \A i \in DOMAIN s : heap[s[i]].id = id[t] => s[i] = src[t]

(* Between calls a source is allocated exactly when it is listed, once,    *)
(* and exactly when a live query keeps it; the handles of a query name     *)
(* sources of its AST, each a later one.  Nothing leaks and nothing        *)
(* dangles, whatever ran out of memory: but not every source of the AST    *)
(* has a handle.                                                           *)
QuietIsExact ==
  (\A t \in Threads : pc[t] = "idle") =>
    /\ IsInjective(registry)
    /\ \A a \in Addrs :
         /\ heap[a] # NoAddr <=> a \in Range(registry)
         /\ heap[a] # NoAddr => a \in Range(sources[heap[a].owner])
    /\ \A x \in Queries : \A i \in DOMAIN sources[x] :
         LET b == heap[sources[x][i]]
         IN /\ b # NoAddr /\ b.owner = x /\ b.id < astSize[x]
            /\ \A j \in 1 .. i - 1 : heap[sources[x][j]].id < b.id

(* The lock is always given back, whichever way a guarded block is left.   *)
LockReleased == (lock # NoThread) ~> (lock = NoThread)

=============================================================================
