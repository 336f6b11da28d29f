------------------------ MODULE HdbSourceRegistryProofs ------------------------
(***************************************************************************)
(* Proofs about HdbSourceRegistry, for any number of threads, queries and  *)
(* addresses: the type invariant, that guarded blocks exclude each other,  *)
(* that the table lists live sources only, that what a lookup found is     *)
(* what is read or erased, that validation is exact, and that between      *)
(* calls table, heap and queries agree.                                    *)
(***************************************************************************)
EXTENDS HdbSourceRegistry, SequenceTheorems, TLAPS

Making   == {"alloc", "register", "push", "pushed", "keep"}
Checking == {"find", "read", "accept", "refuse", "checked"}
Removing == {"unregister", "findOld", "erase", "erased", "delete"}

Listed(a) == \E i \in DOMAIN registry : registry[i] = a

(* Thread t has a source in hand: allocated, and not yet kept by its query *)
(* or about to be freed with it.                                           *)
Holds(t) == pc[t] \in (Making \ {"alloc"}) \cup Removing

(* Thread t adds a source to its query, or takes it back.                  *)
Building(t) == op[t] \in {"From", "Join"} /\ pc[t] \in Making \cup Removing

(* A thread that holds a source which may be missing from the table.       *)
MayBeUnlisted(t) ==
  \/ pc[t] \in {"register", "push", "erased", "delete"}
  \/ op[t] # "Free" /\ pc[t] \in {"unregister", "findOld"}

(* The loop of HdbDllFreeQuerySources is past place i of query x.          *)
Passed(t, x, i) == q[t] = x /\ op[t] = "Free" /\ i < next[t]

(* How many sources of a query's AST its handles may name: all but the one *)
(* that is being added.                                                    *)
Room(x) ==
  IF q[qThread[x]] = x /\ Building(qThread[x]) THEN astSize[x] - 1 ELSE astSize[x]

(* What a call in progress knows.                                          *)
CallInv(t) ==
  /\ pc[t] = "idle" => q[t] = NoQuery /\ op[t] = "none" /\ id[t] = 0
  /\ pc[t] # "idle" => q[t] \in Queries /\ qThread[q[t]] = t
  /\ pc[t] \in Making => op[t] \in {"From", "Join"}
  /\ pc[t] \in Checking => op[t] \in {"Join", "Use"}
  /\ pc[t] \in Removing => op[t] \in {"From", "Join", "Free"}
  /\ pc[t] = "free" => op[t] = "Free"
  /\ pc[t] \in Removing \cup Checking \cup (Making \ {"alloc"}) => src[t] \in Addrs
  /\ pc[t] \in Critical <=> lock = t

(* A thread that adds a source: it is the last one of the AST.             *)
BuildInv(t) ==
  /\ op[t] = "From" => id[t] = 0
  /\ Building(t) => astSize[q[t]] = id[t] + 1

(* A thread that frees a query: next is the source in its hand.            *)
FreeInv(t) ==
  op[t] = "Free" =>
    /\ next[t] >= 1
    /\ pc[t] \in Removing => /\ next[t] \in DOMAIN sources[q[t]]
                             /\ src[t] = sources[q[t]][next[t]]

(* The source in a thread's hand, in memory and in the table.              *)
HandInv(t) ==
  /\ Holds(t) \/ pc[t] \in {"accept", "checked"} =>
       /\ heap[src[t]] # NoAddr
       /\ heap[src[t]].owner = q[t]
       /\ op[t] # "Free" => heap[src[t]].id = id[t]
  /\ pc[t] \in {"read", "pushed", "keep"} => Listed(src[t])
  /\ pc[t] \in {"register", "push", "erased", "delete"} => ~Listed(src[t])
  /\ op[t] = "Free" /\ pc[t] \in {"unregister", "findOld"} => Listed(src[t])
  /\ pc[t] = "erase" => idx[t] \in DOMAIN registry /\ registry[idx[t]] = src[t]

(* The table has no source twice and none that is freed.                   *)
TableInv ==
  /\ IsInjective(registry)
  /\ \A i \in DOMAIN registry : heap[registry[i]] # NoAddr

(* An allocated source is kept by its query, and not yet passed by the     *)
(* loop that frees it, and listed; or it is in the hand of the query's     *)
(* thread.                                                                 *)
BlockInv(a) ==
  heap[a] # NoAddr =>
    LET x == heap[a].owner
        t == qThread[x]
    IN /\ t \in Threads
       /\ \/ \E i \in DOMAIN sources[x] : sources[x][i] = a /\ ~Passed(t, x, i)
          \/ q[t] = x /\ src[t] = a /\ Building(t) /\ Holds(t)
       /\ \/ Listed(a)
          \/ q[t] = x /\ src[t] = a /\ MayBeUnlisted(t)

(* What place i of a query keeps: a block of its own, for a source of its  *)
(* AST.                                                                    *)
KeptAt(x, i) ==
  LET b == heap[sources[x][i]]
  IN b # NoAddr /\ b.owner = x /\ b.id < Room(x)

(* A query keeps its handles in the order of the sources they name, but    *)
(* for those its thread has just freed.                                    *)
QueryInv(x) ==
  /\ qThread[x] = NoThread => sources[x] = <<>> /\ astSize[x] = 0
  /\ qThread[x] # NoThread =>
       \A i \in DOMAIN sources[x] : ~Passed(qThread[x], x, i) =>
         /\ KeptAt(x, i)
         /\ \A j \in DOMAIN sources[x] : i < j => heap[sources[x][i]].id < heap[sources[x][j]].id

ThreadInv(t) == CallInv(t) /\ BuildInv(t) /\ FreeInv(t) /\ HandInv(t)

IInv ==
  /\ TypeOK
  /\ TableInv
  /\ \A t \in Threads : ThreadInv(t)
  /\ \A a \in Addrs : BlockInv(a)
  /\ \A x \in Queries : QueryInv(x)


-----------------------------------------------------------------------------
(* Frames.                                                                 *)

Locals(u) == <<pc[u], op[u], q[u], src[u], idx[u], id[u], next[u]>>

(* A step leaves a thread alone when it touches neither its locals nor its *)
(* query, nor what the thread has in hand.                                 *)
LEMMA OtherThread ==
  ASSUME NEW u \in Threads, ThreadInv(u), Locals(u)' = Locals(u),
         lock = u <=> lock' = u,
         q[u] \in Queries =>
           /\ qThread'[q[u]] = qThread[q[u]]
           /\ sources'[q[u]] = sources[q[u]]
           /\ astSize'[q[u]] = astSize[q[u]],
         Holds(u) \/ pc[u] \in {"accept", "checked"} => heap'[src[u]] = heap[src[u]],
         Holds(u) => (Listed(src[u])' <=> Listed(src[u])),
         pc[u] \in {"read", "erase"} => registry' = registry
  PROVE  ThreadInv(u)'
<1>. USE DEF Locals, ThreadInv, Making, Removing, Checking, Critical, Holds, Building
<1>1. /\ pc'[u] = pc[u] /\ op'[u] = op[u] /\ q'[u] = q[u] /\ src'[u] = src[u]
      /\ idx'[u] = idx[u] /\ id'[u] = id[u] /\ next'[u] = next[u]
  OBVIOUS
<1>2. CallInv(u)'
  BY <1>1 DEF CallInv
<1>3. BuildInv(u)'
  BY <1>1 DEF BuildInv, CallInv
<1>4. FreeInv(u)'
  BY <1>1 DEF FreeInv, CallInv
<1>5. HandInv(u)'
  <2>1. pc[u] = "read" => (Listed(src[u])' <=> Listed(src[u]))
    BY <1>1 DEF Listed
  <2>. QED  BY <1>1, <2>1 DEF HandInv
<1>. QED  BY <1>2, <1>3, <1>4, <1>5

(* Two threads never have the same source in hand.                         *)
LEMMA HandsDiffer ==
  ASSUME IInv, NEW t \in Threads, NEW u \in Threads, t # u, Holds(t),
         Holds(u) \/ pc[u] \in {"accept", "checked"}
  PROVE  src[t] # src[u]
<1>. USE DEF Holds, Making, Removing, Checking
<1>1. ThreadInv(t) /\ ThreadInv(u)
  BY DEF IInv
<1>2. qThread[q[t]] = t /\ qThread[q[u]] = u
  BY <1>1 DEF ThreadInv, CallInv
<1>3. heap[src[t]].owner = q[t]
  BY <1>1 DEF ThreadInv, HandInv
<1>4. heap[src[u]].owner = q[u]
  BY <1>1 DEF ThreadInv, HandInv
<1>. QED  BY <1>2, <1>3, <1>4

(* The thread that guards the table is in a guarded block, and alone.      *)
LEMMA Exclusion ==
  ASSUME IInv, NEW t \in Threads, NEW u \in Threads,
         pc[t] \in Critical, pc[u] \in Critical
  PROVE  t = u
BY DEF IInv, ThreadInv, CallInv

(* A source keeps its place with its query, in the table or in the hand of *)
(* the query's thread, across a step of thread t.                          *)
Kept(a, t) ==
  \E i \in DOMAIN sources[heap[a].owner] :
    sources[heap[a].owner][i] = a /\ ~Passed(t, heap[a].owner, i)
Held(a, t) == q[t] = heap[a].owner /\ src[t] = a /\ Building(t) /\ Holds(t)
Away(a, t) == q[t] = heap[a].owner /\ src[t] = a /\ MayBeUnlisted(t)

LEMMA OtherBlock ==
  ASSUME IInv, NEW t \in Threads, NEW a \in Addrs,
         \A u \in Threads \ {t} : Locals(u)' = Locals(u),
         heap'[a] = heap[a],
         heap[a] # NoAddr =>
           /\ qThread'[heap[a].owner] = qThread[heap[a].owner]
           /\ qThread[heap[a].owner] # t => sources'[heap[a].owner] = sources[heap[a].owner]
           /\ qThread[heap[a].owner] = t =>
                /\ Kept(a, t) => Kept(a, t)'
                /\ Held(a, t) => Kept(a, t)' \/ Held(a, t)'
                /\ Away(a, t) => Listed(a)' \/ Away(a, t)'
           /\ Listed(a) => Listed(a)' \/ (qThread[heap[a].owner] = t /\ Away(a, t)')
  PROVE  BlockInv(a)'
<1>. SUFFICES ASSUME heap'[a] # NoAddr
              PROVE  BlockInv(a)'
  BY DEF BlockInv
<1>0. PICK u \in Threads :
        /\ u = qThread[heap[a].owner]
        /\ Kept(a, u) \/ Held(a, u)
        /\ Listed(a) \/ Away(a, u)
  BY DEF IInv, BlockInv, Kept, Held, Away
<1>01. heap'[a] = heap[a] /\ heap[a] # NoAddr /\ qThread'[heap'[a].owner] = u
  BY <1>0
<1>02. ASSUME Kept(a, u)' \/ Held(a, u)', Listed(a)' \/ Away(a, u)'
       PROVE  BlockInv(a)'
  BY <1>01, <1>02 DEF BlockInv, Kept, Held, Away
<1>1. CASE u # t
  <2>1. /\ pc'[u] = pc[u] /\ op'[u] = op[u] /\ q'[u] = q[u] /\ src'[u] = src[u]
        /\ next'[u] = next[u]
    BY <1>1 DEF Locals
  <2>2. sources'[heap'[a].owner] = sources[heap[a].owner] /\ heap'[a].owner = heap[a].owner
    BY <1>0, <1>1
  <2>3. ASSUME NEW i
        PROVE  Passed(u, heap[a].owner, i) <=> Passed(u, heap[a].owner, i)'
    BY <2>1, <2>2 DEF Passed
  <2>4. Kept(a, u) => Kept(a, u)'
    BY <2>2, <2>3 DEF Kept
  <2>5. /\ Held(a, u) => Held(a, u)'
        /\ Away(a, u) => Away(a, u)'
    BY <2>1, <2>2 DEF Held, Away, Building, Holds, MayBeUnlisted
  <2>6. Kept(a, u)' \/ Held(a, u)'
    BY <1>0, <2>4, <2>5
  <2>7. Listed(a)' \/ Away(a, u)'
    BY <1>0, <1>01, <1>1, <2>5
  <2>. QED  BY <1>02, <2>6, <2>7
<1>2. CASE u = t
  <2>1. Kept(a, u)' \/ Held(a, u)'
    BY <1>0, <1>01, <1>2
  <2>2. Listed(a)' \/ Away(a, u)'
    BY <1>0, <1>01, <1>2
  <2>. QED  BY <1>02, <2>1, <2>2
<1>. QED  BY <1>1, <1>2

(* The places of what a query keeps.                                       *)
LEMMA PlacesOf ==
  ASSUME IInv, NEW x \in Queries, NEW i \in DOMAIN sources[x]
  PROVE  i \in Nat /\ i >= 1 /\ sources[x][i] \in Addrs
<1>1. sources[x] \in Seq(Addrs)
  BY DEF IInv, TypeOK
<1>2. DOMAIN sources[x] = 1 .. Len(sources[x]) /\ Len(sources[x]) \in Nat
  BY <1>1, LenProperties
<1>. QED  BY <1>1, <1>2, ElementOfSeq

(* A step of thread t leaves a query in order when it keeps what the query *)
(* keeps, or passes it, and gives its handles no less room.                *)
LEMMA OtherQuery ==
  ASSUME IInv, TypeOK', NEW t \in Threads, NEW x \in Queries,
         \A u \in Threads \ {t} : Locals(u)' = Locals(u),
         qThread'[x] = qThread[x], sources'[x] = sources[x],
         qThread[x] # t => astSize'[x] = astSize[x],
         qThread[x] = t => Room(x)' >= Room(x),
         \A i \in DOMAIN sources[x] :
           KeptAt(x, i) =>
             \/ heap'[sources[x][i]] = heap[sources[x][i]]
             \/ qThread[x] = t /\ Passed(t, x, i)',
         \A i \in DOMAIN sources[x] :
           qThread[x] = t /\ Passed(t, x, i) => Passed(t, x, i)'
  PROVE  QueryInv(x)'
<1>1. /\ QueryInv(x) /\ qThread[x] \in Threads \cup {NoThread} /\ NoThread \notin Threads
      /\ astSize[x] \in Nat /\ astSize'[x] \in Nat /\ heap \in [Addrs -> Blocks \cup {NoAddr}]
      /\ \A i \in DOMAIN sources[x] : sources[x][i] \in Addrs
  BY RegistryAssumption, LenProperties, ElementOfSeq DEF IInv, TypeOK
<1>2. CASE qThread[x] = NoThread
  BY <1>1, <1>2 DEF QueryInv
<1>3. CASE qThread[x] \in Threads
  <2>. DEFINE u == qThread[x]
  <2>1. Room(x)' >= Room(x) /\ Room(x) \in Int /\ Room(x)' \in Int
    <3>1. u # t => Locals(u)' = Locals(u) /\ astSize'[x] = astSize[x]
      BY <1>3
    <3>2. u # t => Room(x)' = Room(x)
      BY <1>3, <3>1 DEF Room, Locals, Building
    <3>3. Room(x) \in Int /\ Room(x)' \in Int
      BY <1>1 DEF Room
    <3>. QED  BY <3>2, <3>3
  <2>2. ASSUME NEW i \in DOMAIN sources[x]
        PROVE  Passed(u, x, i) => Passed(u, x, i)'
    BY <1>3 DEF Passed, Locals
  <2>3. ASSUME NEW i \in DOMAIN sources[x], ~Passed(u, x, i)'
        PROVE  /\ KeptAt(x, i) /\ heap'[sources[x][i]] = heap[sources[x][i]]
               /\ \A j \in DOMAIN sources[x] : i < j => heap[sources[x][i]].id < heap[sources[x][j]].id
    <3>1. ~Passed(u, x, i)
      BY <2>2, <2>3
    <3>. QED  BY <1>1, <1>3, <2>3, <3>1 DEF QueryInv
  <2>4. ASSUME NEW i \in DOMAIN sources[x], ~Passed(u, x, i)'
        PROVE  KeptAt(x, i)'
    <3>1. heap[sources[x][i]].id \in Int
      BY <1>1, <2>3, <2>4 DEF KeptAt, Blocks, SourceIds
    <3>. QED  BY <2>1, <2>3, <2>4, <3>1 DEF KeptAt
  <2>5. ASSUME NEW i \in DOMAIN sources[x], ~Passed(u, x, i)', NEW j \in DOMAIN sources[x], i < j
        PROVE  heap'[sources[x][i]].id < heap'[sources[x][j]].id
    <3>1. ~Passed(u, x, j)'
      <4>1. i \in Nat /\ j \in Nat
        BY PlacesOf
      <4>2. next'[u] \in Nat
        BY <1>3 DEF TypeOK
      <4>. QED  BY <2>5, <4>1, <4>2 DEF Passed
    <3>. QED  BY <2>3, <2>5, <3>1
  <2>. QED  BY <1>3, <2>4, <2>5, <1>1 DEF QueryInv
<1>. QED  BY <1>1, <1>2, <1>3

(* Threads work on queries of their own.                                   *)
LEMMA OwnQuery ==
  ASSUME IInv, NEW t \in Threads, NEW u \in Threads \ {t}, q[u] \in Queries
  PROVE  qThread[q[u]] = u /\ q[u] # q[t]
<1>1. NoQuery \notin Queries /\ CallInv(t) /\ CallInv(u)
  BY RegistryAssumption DEF IInv, ThreadInv
<1>. QED  BY <1>1 DEF CallInv

-----------------------------------------------------------------------------
(* Steps that change one thread's call, the lock and the AST alone.        *)

Memory == <<qThread, sources, heap, registry>>

LEMMA CountStep ==
  ASSUME IInv, TypeOK', NEW t \in Threads, UNCHANGED Memory, ThreadInv(t)',
         \A u \in Threads \ {t} : Locals(u)' = Locals(u) /\ (lock = u <=> lock' = u),
         \A x \in Queries : qThread[x] # t => astSize'[x] = astSize[x],
         \A x \in Queries : qThread[x] = t => Room(x)' >= Room(x),
         Building(t) /\ Holds(t) => Building(t)' /\ Holds(t)' /\ q'[t] = q[t] /\ src'[t] = src[t],
         MayBeUnlisted(t) =>
           Listed(src[t]) \/ (MayBeUnlisted(t)' /\ q'[t] = q[t] /\ src'[t] = src[t]),
         op[t] = "Free" => op'[t] = "Free" /\ q'[t] = q[t] /\ next'[t] = next[t],
         op'[t] = "Free" => op[t] = "Free" \/ next'[t] = 1
  PROVE  IInv'
<1>0. /\ qThread' = qThread /\ sources' = sources
      /\ heap' = heap /\ registry' = registry
  BY DEF Memory
<1>1. TableInv'
  BY <1>0 DEF IInv, TableInv
<1>2. ASSUME NEW u \in Threads
      PROVE  ThreadInv(u)'
  <2>1. CASE u = t
    BY <2>1
  <2>2. CASE u # t
    <3>1. ThreadInv(u) /\ Locals(u)' = Locals(u) /\ src'[u] = src[u]
      BY <2>2 DEF IInv, Locals
    <3>2. Listed(src[u])' <=> Listed(src[u])
      BY <1>0, <3>1 DEF Listed
    <3>3. q[u] \in Queries => astSize'[q[u]] = astSize[q[u]]
      BY <2>2, OwnQuery
    <3>. QED  BY <1>0, <2>2, <3>1, <3>2, <3>3, OtherThread
  <2>. QED  BY <2>1, <2>2
<1>3. ASSUME NEW x \in Queries, NEW i \in DOMAIN sources[x]
      PROVE  Passed(t, x, i) <=> Passed(t, x, i)'
  <2>1. i >= 1 /\ i \in Nat
    BY PlacesOf
  <2>. QED  BY <2>1 DEF Passed
<1>4. ASSUME NEW a \in Addrs
      PROVE  BlockInv(a)'
  <2>1. Listed(a)' <=> Listed(a)
    BY <1>0 DEF Listed
  <2>2. heap[a] # NoAddr =>
          /\ Kept(a, t) => Kept(a, t)'
          /\ Held(a, t) => Held(a, t)'
          /\ Away(a, t) => Listed(a)' \/ Away(a, t)'
    <3>1. heap[a] # NoAddr => heap[a].owner \in Queries
      BY DEF IInv, TypeOK, Blocks
    <3>. QED  BY <1>0, <1>3, <2>1, <3>1 DEF Kept, Held, Away
  <2>. QED  BY <1>0, <2>1, <2>2, OtherBlock
<1>5. ASSUME NEW x \in Queries
      PROVE  QueryInv(x)'
  BY <1>0, <1>3, OtherQuery
<1>. QED  BY <1>1, <1>2, <1>4, <1>5 DEF IInv

(* Steps that leave the AST alone too.                                     *)
Shared == <<qThread, astSize, sources, heap, registry>>

LEMMA LocalStep ==
  ASSUME IInv, TypeOK', NEW t \in Threads, UNCHANGED Shared, ThreadInv(t)',
         \A u \in Threads \ {t} : Locals(u)' = Locals(u) /\ (lock = u <=> lock' = u),
         Building(t)' <=> Building(t),
         Building(t) => q'[t] = q[t] /\ src'[t] = src[t],
         Building(t) /\ Holds(t) => Holds(t)',
         MayBeUnlisted(t) =>
           Listed(src[t]) \/ (MayBeUnlisted(t)' /\ q'[t] = q[t] /\ src'[t] = src[t]),
         op[t] = "Free" => op'[t] = "Free" /\ q'[t] = q[t] /\ next'[t] = next[t],
         op'[t] = "Free" => op[t] = "Free" \/ next'[t] = 1
  PROVE  IInv'
<1>1. UNCHANGED Memory /\ astSize' = astSize /\ qThread' = qThread
  BY DEF Shared, Memory
<1>2. ASSUME NEW x \in Queries, qThread[x] = t
      PROVE  Room(x)' >= Room(x)
  <2>1. Room(x)' = Room(x)
    BY <1>1, <1>2 DEF Room
  <2>2. Room(x) \in Int
    BY DEF IInv, TypeOK, Room
  <2>. QED  BY <2>1, <2>2
<1>. QED  BY <1>1, <1>2, CountStep

-----------------------------------------------------------------------------
(* The vector operations on the table.                                     *)

(* With no source listed twice the lookup finds the one place of a source. *)
LEMMA IndexOfListed ==
  ASSUME TypeOK, TableInv, NEW a
  PROVE  /\ IndexOf(a) \in Nat
         /\ IndexOf(a) = 0 <=> ~Listed(a)
         /\ Listed(a) => IndexOf(a) \in DOMAIN registry /\ registry[IndexOf(a)] = a
<1>1. DOMAIN registry = 1 .. Len(registry) /\ Len(registry) \in Nat
  BY LenProperties DEF TypeOK
<1>2. CASE Listed(a)
  <2>1. PICK i \in DOMAIN registry : registry[i] = a
    BY <1>2 DEF Listed
  <2>2. \A j \in 1 .. i - 1 : registry[j] # a
    <3>1. \A j \in 1 .. i - 1 : j \in DOMAIN registry /\ j # i
      BY <1>1, <2>1
    <3>. QED  BY <2>1, <3>1 DEF TableInv, IsInjective
  <2>3. IndexOf(a) \in DOMAIN registry /\ registry[IndexOf(a)] = a
    BY <2>1, <2>2 DEF IndexOf
  <2>. QED  BY <1>1, <1>2, <2>3
<1>3. CASE ~Listed(a)
  BY <1>3 DEF IndexOf, Listed
<1>. QED  BY <1>2, <1>3

(* push_back of a source that is not in the vector.                        *)
LEMMA AppendListed ==
  ASSUME TypeOK, TableInv, NEW a \in Addrs, ~Listed(a),
         registry' = Append(registry, a)
  PROVE  /\ registry' \in Seq(Addrs)
         /\ IsInjective(registry')
         /\ \A c : Listed(c)' <=> Listed(c) \/ c = a
<1>. DEFINE n == Len(registry)
<1>1. DOMAIN registry = 1 .. n /\ n \in Nat
  BY LenProperties DEF TypeOK
<1>2. /\ registry' \in Seq(Addrs) /\ Len(registry') = n + 1
      /\ \A i \in 1 .. n : registry'[i] = registry[i]
      /\ registry'[n + 1] = a
  BY AppendProperties DEF TypeOK
<1>3. DOMAIN registry' = 1 .. n + 1
  BY <1>2, LenProperties
<1>. HIDE DEF n
<1>4. \A i \in 1 .. n : registry[i] # a
  BY <1>1 DEF Listed
<1>5. \A i \in 1 .. n + 1 : i \in 1 .. n \/ i = n + 1
  BY <1>1
<1>6. IsInjective(registry')
  BY <1>1, <1>2, <1>3, <1>4, <1>5 DEF TableInv, IsInjective
<1>7. \A i \in 1 .. n : i \in 1 .. n + 1
  BY <1>1
<1>8. n + 1 \in 1 .. n + 1
  BY <1>1
<1>9. ASSUME NEW c
      PROVE  Listed(c)' <=> Listed(c) \/ c = a
  BY <1>1, <1>2, <1>3, <1>5, <1>7, <1>8 DEF Listed
<1>. QED  BY <1>2, <1>6, <1>9

(* erase of one place of the vector.                                       *)
LEMMA RemoveListed ==
  ASSUME TypeOK, TableInv, NEW k \in DOMAIN registry,
         registry' = RemoveAt(registry, k)
  PROVE  /\ registry' \in Seq(Addrs)
         /\ IsInjective(registry')
         /\ \A c : Listed(c)' <=> Listed(c) /\ c # registry[k]
<1>. DEFINE n == Len(registry)
            s1 == SubSeq(registry, 1, k - 1)
            s2 == SubSeq(registry, k + 1, n)
<1>1. /\ registry \in Seq(Addrs) /\ DOMAIN registry = 1 .. n
      /\ n \in Nat /\ k \in 1 .. n
      /\ \A i \in 1 .. n : registry[i] \in Addrs
  BY LenProperties, ElementOfSeq DEF TypeOK
<1>2. s1 \in Seq(Addrs) /\ Len(s1) = k - 1 /\ \A i \in 1 .. k - 1 : s1[i] = registry[i]
  <2>1. \A i \in 1 .. k - 1 : registry[i] \in Addrs
    BY <1>1
  <2>2. /\ s1 \in Seq(Addrs)
        /\ Len(s1) = IF 1 <= k - 1 THEN (k - 1) - 1 + 1 ELSE 0
        /\ \A i \in 1 .. (k - 1) - 1 + 1 : s1[i] = registry[1 + i - 1]
    BY <1>1, <2>1, SubSeqProperties
  <2>. QED  BY <1>1, <2>2
<1>3. s2 \in Seq(Addrs) /\ Len(s2) = n - k /\ \A i \in 1 .. n - k : s2[i] = registry[k + i]
  <2>1. \A i \in k + 1 .. n : registry[i] \in Addrs
    BY <1>1
  <2>2. /\ s2 \in Seq(Addrs)
        /\ Len(s2) = IF k + 1 <= n THEN n - (k + 1) + 1 ELSE 0
        /\ \A i \in 1 .. n - (k + 1) + 1 : s2[i] = registry[(k + 1) + i - 1]
    BY <1>1, <2>1, SubSeqProperties
  <2>. HIDE DEF n, s2
  <2>3. \A i \in 1 .. n - k : i \in 1 .. n - (k + 1) + 1 /\ (k + 1) + i - 1 = k + i
    BY <1>1
  <2>4. Len(s2) = n - k
    BY <1>1, <2>2
  <2>. QED  BY <2>2, <2>3, <2>4
<1>4. registry' = s1 \o s2
  BY DEF RemoveAt
<1>. HIDE DEF n, s1, s2
<1>5. /\ registry' \in Seq(Addrs) /\ Len(registry') = n - 1
      /\ \A i \in 1 .. n - 1 : registry'[i] = IF i < k THEN registry[i] ELSE registry[i + 1]
  <2>1. /\ registry' \in Seq(Addrs) /\ Len(registry') = Len(s1) + Len(s2)
        /\ \A i \in 1 .. Len(s1) + Len(s2) :
             registry'[i] = IF i <= Len(s1) THEN s1[i] ELSE s2[i - Len(s1)]
    BY <1>2, <1>3, <1>4, ConcatProperties
  <2>2. \A i \in 1 .. n - 1 : registry'[i] = IF i <= k - 1 THEN s1[i] ELSE s2[i - (k - 1)]
    BY <1>1, <1>2, <1>3, <2>1
  <2>3. ASSUME NEW i \in 1 .. n - 1
        PROVE  registry'[i] = IF i < k THEN registry[i] ELSE registry[i + 1]
    <3>1. CASE i < k
      <4>1. i \in 1 .. k - 1
        BY <1>1, <3>1
      <4>. QED  BY <1>1, <1>2, <2>2, <3>1, <4>1
    <3>2. CASE ~(i < k)
      <4>1. i - (k - 1) \in 1 .. n - k /\ k + (i - (k - 1)) = i + 1
        BY <1>1, <3>2
      <4>2. registry'[i] = s2[i - (k - 1)]
        BY <1>1, <2>2, <3>2
      <4>. QED  BY <1>3, <3>2, <4>1, <4>2
    <3>. QED  BY <3>1, <3>2
  <2>. QED  BY <1>1, <1>2, <1>3, <2>1, <2>3
<1>6. DOMAIN registry' = 1 .. n - 1
  BY <1>5, LenProperties
<1>. DEFINE old(i) == IF i < k THEN i ELSE i + 1
<1>7. \A i \in 1 .. n - 1 : old(i) \in 1 .. n /\ old(i) # k /\ registry'[i] = registry[old(i)]
  BY <1>1, <1>5
<1>8. \A i, j \in 1 .. n - 1 : old(i) = old(j) => i = j
  BY <1>1
<1>9. \A j \in 1 .. n : j # k => \E i \in 1 .. n - 1 : old(i) = j
  <2>1. ASSUME NEW j \in 1 .. n, j < k
        PROVE  j \in 1 .. n - 1 /\ old(j) = j
    BY <1>1, <2>1
  <2>2. ASSUME NEW j \in 1 .. n, j > k
        PROVE  j - 1 \in 1 .. n - 1 /\ old(j - 1) = j
    BY <1>1, <2>2
  <2>3. \A j \in 1 .. n : j # k => j < k \/ j > k
    BY <1>1
  <2>. QED  BY <2>1, <2>2, <2>3
<1>. HIDE DEF old
<1>10. IsInjective(registry')
  BY <1>1, <1>6, <1>7, <1>8 DEF TableInv, IsInjective
<1>11. ASSUME NEW c
       PROVE  Listed(c)' <=> Listed(c) /\ c # registry[k]
  <2>1. Listed(c)' => Listed(c) /\ c # registry[k]
    BY <1>1, <1>6, <1>7 DEF Listed, TableInv, IsInjective
  <2>2. ASSUME NEW j \in 1 .. n, registry[j] = c, c # registry[k]
        PROVE  Listed(c)'
    <3>1. PICK i \in 1 .. n - 1 : old(i) = j
      BY <1>9, <2>2
    <3>2. registry'[i] = c
      BY <1>7, <2>2, <3>1
    <3>. QED  BY <1>6, <3>1, <3>2 DEF Listed
  <2>. QED  BY <1>1, <2>1, <2>2 DEF Listed
<1>. QED  BY <1>5, <1>10, <1>11

-----------------------------------------------------------------------------
(* What any step of thread t keeps.                                        *)

LEMMA IdInRange ==
  /\ 0 \in SourceIds /\ 0 \in 0 .. MaxSources /\ 1 \in 0 .. MaxSources
  /\ \A n \in 0 .. MaxSources : n < MaxSources => n \in SourceIds /\ n + 1 \in 0 .. MaxSources
BY RegistryAssumption DEF SourceIds

LEMMA ReturnType ==
  ASSUME TypeOK, NEW t \in Threads, Return(t)
  PROVE  /\ pc' \in [Threads -> Places]
         /\ op' \in [Threads -> {"none", "From", "Join", "Use", "Free"}]
         /\ q' \in [Threads -> Queries \cup {NoQuery}]
         /\ src' \in [Threads -> Addrs \cup {NoAddr}]
         /\ idx' \in [Threads -> Nat]
         /\ id' \in [Threads -> SourceIds]
         /\ next' \in [Threads -> Nat]
BY IdInRange DEF TypeOK, Return, Goto, Places

LEMMA UndoneType ==
  ASSUME IInv, NEW t \in Threads, CreateFails(t), pc[t] \in Making \cup Removing, op[t] # "Free"
  PROVE  astSize' \in [Queries -> 0 .. MaxSources]
<1>1. /\ q[t] \in Queries
      /\ op[t] = "From" \/ astSize[q[t]] = id[t] + 1
      /\ id[t] \in SourceIds
  BY DEF IInv, TypeOK, ThreadInv, CallInv, BuildInv, Building, Making, Removing
<1>2. op[t] # "From" => astSize[q[t]] - 1 \in 0 .. MaxSources
  BY <1>1, RegistryAssumption DEF SourceIds
<1>. QED  BY <1>1, <1>2, IdInRange DEF CreateFails, AstUndone, IInv, TypeOK

LEMMA TypeStep ==
  ASSUME IInv, NEW t \in Threads, Start(t) \/ Step(t)
  PROVE  TypeOK'
<1>. USE DEF Goto, Enter, Leave, Places
<1>0. TypeOK /\ TableInv /\ CallInv(t)
  BY DEF IInv, ThreadInv
<1>1. ASSUME NEW x \in Queries, QueryCreate(t, x)  PROVE TypeOK'
  BY <1>0, <1>1, IdInRange DEF TypeOK, QueryCreate, calls
<1>2. ASSUME NEW x \in Queries, QueryFrom(t, x)  PROVE TypeOK'
  BY <1>0, <1>2, IdInRange DEF TypeOK, QueryFrom
<1>3. ASSUME NEW x \in Queries, NEW a \in Addrs, NEW name \in {"Join", "Use"}, QueryUse(t, x, a, name)
      PROVE  TypeOK'
  BY <1>0, <1>3 DEF TypeOK, QueryUse
<1>4. ASSUME NEW x \in Queries, QueryFree(t, x)  PROVE TypeOK'
  BY <1>0, <1>4 DEF TypeOK, QueryFree
<1>5. CASE ValidateFind(t)
  BY <1>0, <1>5 DEF TypeOK, ValidateFind
<1>6. CASE ValidateRead(t)
  <2>1. PICK b \in Blocks : id' = id \/ id' = [id EXCEPT ![t] = b.id]
    <3>1. pc[t] = "read" => src[t] \in Addrs
      BY <1>0 DEF CallInv, Checking
    <3>. QED  BY <1>0, <1>6, <3>1 DEF ValidateRead, TypeOK
  <2>2. b.id \in SourceIds
    BY DEF Blocks
  <2>. QED  BY <1>0, <1>6, <2>1, <2>2 DEF TypeOK, ValidateRead
<1>7. CASE ValidateRefuse(t)
  BY <1>0, <1>7, ReturnType DEF TypeOK, ValidateRefuse
<1>8. CASE ValidateAccept(t)
  BY <1>0, <1>8 DEF TypeOK, ValidateAccept
<1>9. CASE Proceed(t)
  <2>1. q[t] \in Queries
    BY <1>0, <1>9 DEF CallInv, Proceed
  <2>2. CASE Return(t) /\ UNCHANGED astSize
    BY <1>0, <1>9, <2>2, ReturnType DEF TypeOK, Proceed
  <2>3. CASE /\ astSize[q[t]] < MaxSources
             /\ id' = [id EXCEPT ![t] = astSize[q[t]]]
             /\ astSize' = [astSize EXCEPT ![q[t]] = @ + 1]
             /\ Goto(t, "alloc")
             /\ UNCHANGED <<op, q, src, idx, next>>
    <3>1. astSize[q[t]] \in SourceIds /\ astSize[q[t]] + 1 \in 0 .. MaxSources
      BY <1>0, <2>1, <2>3, IdInRange DEF TypeOK
    <3>. QED  BY <1>0, <1>9, <2>1, <2>3, <3>1 DEF TypeOK, Proceed
  <2>. QED  BY <1>9, <2>2, <2>3 DEF Proceed
<1>91. CASE JoinOnFails(t)
  <2>1. q[t] \in Queries
    BY <1>0, <1>91 DEF CallInv, JoinOnFails
  <2>2. astSize[q[t]] + 1 \in 0 .. MaxSources
    BY <1>0, <1>91, <2>1, IdInRange DEF TypeOK, JoinOnFails
  <2>. QED  BY <1>0, <1>91, <2>1, <2>2, ReturnType DEF TypeOK, JoinOnFails
<1>10. ASSUME NEW a \in Addrs, Allocate(t, a)  PROVE TypeOK'
  <2>1. [owner |-> q[t], id |-> id[t]] \in Blocks
    BY <1>0, <1>10 DEF TypeOK, CallInv, Allocate, Blocks
  <2>. QED  BY <1>0, <1>10, <2>1 DEF TypeOK, Allocate
<1>11. CASE AllocateFails(t)
  <2>1. op[t] # "Free" /\ pc[t] \in Making \cup Removing
    BY <1>0, <1>11 DEF CallInv, AllocateFails, Making
  <2>. QED  BY <1>0, <1>11, <2>1, ReturnType, UndoneType DEF TypeOK, AllocateFails, CreateFails
<1>12. CASE RegisterLock(t) \/ RegisterFails(t) \/ RegisterUnlock(t)
  BY <1>0, <1>12 DEF TypeOK, RegisterLock, RegisterFails, RegisterUnlock
<1>13. CASE RegisterSource(t)
  <2>1. src[t] \in Addrs
    BY <1>0, <1>13 DEF CallInv, RegisterSource, Making
  <2>2. registry' \in Seq(Addrs)
    BY <1>0, <1>13, <2>1, AppendProperties DEF TypeOK, RegisterSource
  <2>. QED  BY <1>0, <1>13, <2>2 DEF TypeOK, RegisterSource
<1>14. CASE KeepSource(t)
  <2>1. src[t] \in Addrs /\ q[t] \in Queries
    BY <1>0, <1>14 DEF CallInv, KeepSource, Making
  <2>2. Append(sources[q[t]], src[t]) \in Seq(Addrs)
    BY <1>0, <2>1, AppendProperties DEF TypeOK
  <2>3. sources' \in [Queries -> Seq(Addrs)] /\ issued' \in SUBSET Addrs
    BY <1>0, <1>14, <2>1, <2>2 DEF TypeOK, KeepSource
  <2>. QED  BY <1>0, <1>14, <2>3, ReturnType DEF TypeOK, KeepSource
<1>15. CASE KeepFails(t)
  BY <1>0, <1>15 DEF TypeOK, KeepFails
<1>16. CASE UnregisterLock(t) \/ UnregisterUnlock(t)
  BY <1>0, <1>16 DEF TypeOK, UnregisterLock, UnregisterUnlock
<1>17. CASE UnregisterFind(t)
  <2>1. IndexOf(src[t]) \in Nat
    BY <1>0, IndexOfListed
  <2>. QED  BY <1>0, <1>17, <2>1 DEF TypeOK, UnregisterFind
<1>18. CASE UnregisterErase(t)
  <2>1. idx[t] \in DOMAIN registry
    BY <1>18 DEF IInv, ThreadInv, HandInv, UnregisterErase
  <2>2. registry' \in Seq(Addrs)
    BY <1>0, <1>18, <2>1, RemoveListed DEF UnregisterErase
  <2>. QED  BY <1>0, <1>18, <2>2 DEF TypeOK, UnregisterErase
<1>19. CASE DeleteSource(t)
  <2>1. heap' \in [Addrs -> Blocks \cup {NoAddr}]
    BY <1>0, <1>19 DEF TypeOK, DeleteSource
  <2>2. CASE op[t] = "Free"
    <3>0. next[t] + 1 \in Nat
      BY <1>0 DEF TypeOK
    <3>1. next' \in [Threads -> Nat] /\ pc' \in [Threads -> Places]
      BY <1>0, <1>19, <2>2, <3>0 DEF TypeOK, DeleteSource
    <3>. QED  BY <1>0, <1>19, <2>1, <2>2, <3>1 DEF TypeOK, DeleteSource
  <2>3. CASE op[t] # "Free"
    <3>1. pc[t] \in Making \cup Removing
      BY <1>19 DEF DeleteSource, Removing
    <3>. QED  BY <1>0, <1>19, <2>1, <2>3, <3>1, ReturnType, UndoneType DEF TypeOK, DeleteSource, CreateFails
  <2>. QED  BY <2>2, <2>3
<1>20. CASE FreeNext(t)
  <2>1. q[t] \in Queries /\ next[t] >= 1
    BY <1>20 DEF IInv, ThreadInv, CallInv, FreeInv, FreeNext
  <2>2. sources[q[t]][next[t]] \in Addrs
    BY <1>0, <1>20, <2>1, ElementOfSeq DEF TypeOK, FreeNext
  <2>. QED  BY <1>0, <1>20, <2>2 DEF TypeOK, FreeNext
<1>21. CASE FreeDone(t)
  <2>1. << >> \in Seq(Addrs)
    OBVIOUS
  <2>2. sources' \in [Queries -> Seq(Addrs)]
    BY <1>0, <1>21, <2>1 DEF TypeOK, FreeDone
  <2>3. /\ astSize' \in [Queries -> 0 .. MaxSources]
        /\ qThread' \in [Queries -> Threads \cup {NoThread}]
    BY <1>0, <1>21, IdInRange DEF TypeOK, FreeDone
  <2>4. UNCHANGED <<heap, registry, lock, issued>> /\ Return(t)
    BY <1>21 DEF FreeDone
  <2>. QED  BY <1>0, <2>2, <2>3, <2>4, ReturnType DEF TypeOK
<1>. QED
  BY <1>1, <1>2, <1>3, <1>4, <1>5, <1>6, <1>7, <1>8, <1>9, <1>91, <1>10, <1>11, <1>12, <1>13,
     <1>14, <1>15, <1>16, <1>17, <1>18, <1>19, <1>20, <1>21
  DEF Start, Step

(* A step of t changes no other thread's call, and takes or gives the lock *)
(* only for t.                                                             *)
LEMMA OthersStay ==
  ASSUME IInv, NEW t \in Threads, Start(t) \/ Step(t), NEW u \in Threads \ {t}
  PROVE  /\ Locals(u)' = Locals(u)
         /\ lock = u <=> lock' = u
<1>. USE DEF Goto, Enter, Leave, Return, Locals
<1>0. /\ TypeOK /\ u # NoThread
      /\ pc[t] \in Critical => lock = t
  BY RegistryAssumption DEF IInv, ThreadInv, CallInv
<1>. DEFINE Stays == /\ pc'[u] = pc[u] /\ op'[u] = op[u] /\ q'[u] = q[u] /\ src'[u] = src[u]
                     /\ idx'[u] = idx[u] /\ id'[u] = id[u] /\ next'[u] = next[u]
                     /\ lock = u <=> lock' = u
<1>. SUFFICES Stays
  OBVIOUS
<1>1. ASSUME NEW x \in Queries, QueryCreate(t, x)  PROVE Stays
  BY <1>1 DEF QueryCreate, calls
<1>2. ASSUME NEW x \in Queries, QueryFrom(t, x)  PROVE Stays
  BY <1>0, <1>2 DEF TypeOK, QueryFrom
<1>3. ASSUME NEW x \in Queries, NEW a \in Addrs, NEW name \in {"Join", "Use"}, QueryUse(t, x, a, name)
      PROVE  Stays
  BY <1>0, <1>3 DEF TypeOK, QueryUse
<1>4. ASSUME NEW x \in Queries, QueryFree(t, x)  PROVE Stays
  BY <1>0, <1>4 DEF TypeOK, QueryFree
<1>5. CASE ValidateFind(t)
  BY <1>0, <1>5 DEF TypeOK, ValidateFind
<1>6. CASE ValidateRead(t)
  BY <1>0, <1>6 DEF TypeOK, ValidateRead
<1>7. CASE ValidateRefuse(t)
  BY <1>0, <1>7 DEF TypeOK, ValidateRefuse, Critical
<1>8. CASE ValidateAccept(t)
  BY <1>0, <1>8 DEF TypeOK, ValidateAccept, Critical
<1>9. CASE Proceed(t)
  BY <1>0, <1>9 DEF TypeOK, Proceed
<1>91. CASE JoinOnFails(t)
  BY <1>0, <1>91 DEF TypeOK, JoinOnFails
<1>10. ASSUME NEW a \in Addrs, Allocate(t, a)  PROVE Stays
  BY <1>0, <1>10 DEF TypeOK, Allocate
<1>11. CASE AllocateFails(t)
  BY <1>0, <1>11 DEF TypeOK, AllocateFails, CreateFails
<1>12. CASE RegisterLock(t) \/ RegisterFails(t) \/ RegisterUnlock(t)
  BY <1>0, <1>12 DEF TypeOK, RegisterLock, RegisterFails, RegisterUnlock, Critical
<1>13. CASE RegisterSource(t)
  BY <1>0, <1>13 DEF TypeOK, RegisterSource
<1>14. CASE KeepSource(t) \/ KeepFails(t)
  BY <1>0, <1>14 DEF TypeOK, KeepSource, KeepFails
<1>15. CASE UnregisterLock(t) \/ UnregisterUnlock(t)
  BY <1>0, <1>15 DEF TypeOK, UnregisterLock, UnregisterUnlock, Critical
<1>16. CASE UnregisterFind(t) \/ UnregisterErase(t)
  BY <1>0, <1>16 DEF TypeOK, UnregisterFind, UnregisterErase
<1>17. CASE DeleteSource(t)
  BY <1>0, <1>17 DEF TypeOK, DeleteSource, CreateFails
<1>18. CASE FreeNext(t) \/ FreeDone(t)
  BY <1>0, <1>18 DEF TypeOK, FreeNext, FreeDone
<1>. QED
  BY <1>1, <1>2, <1>3, <1>4, <1>5, <1>6, <1>7, <1>8, <1>9, <1>91, <1>10, <1>11, <1>12, <1>13,
     <1>14, <1>15, <1>16, <1>17, <1>18
  DEF Start, Step

(* The call of t after a step that returns: it knows nothing any more.     *)
LEMMA ReturnInv ==
  ASSUME TypeOK, NEW t \in Threads, Return(t), lock' # t
  PROVE  /\ ThreadInv(t)'
         /\ pc'[t] = "idle" /\ op'[t] = "none" /\ q'[t] = NoQuery
BY DEF TypeOK, Return, Goto, ThreadInv, CallInv, BuildInv, FreeInv, HandInv, Holds, Building,
       Making, Removing, Checking, Critical

-----------------------------------------------------------------------------
(* The lookups and the lock.                                               *)

LEMMA LookupSteps ==
  ASSUME IInv, NEW t \in Threads, Start(t) \/ Step(t),
         \/ \E x \in Queries, a \in Addrs, name \in {"Join", "Use"} : QueryUse(t, x, a, name)
         \/ \E x \in Queries : QueryFree(t, x)
         \/ ValidateFind(t) \/ ValidateRead(t) \/ ValidateRefuse(t) \/ ValidateAccept(t)
         \/ Proceed(t) /\ Return(t)
  PROVE  IInv'
<1>. USE DEF Goto, Enter, Leave, Making, Removing, Checking, Critical, Holds, Building, MayBeUnlisted
<1>0. /\ TypeOK /\ TableInv /\ NoThread \notin Threads
      /\ ThreadInv(t) /\ CallInv(t) /\ BuildInv(t) /\ FreeInv(t) /\ HandInv(t)
  BY RegistryAssumption DEF IInv, ThreadInv
<1>01. TypeOK' /\ \A u \in Threads \ {t} : Locals(u)' = Locals(u) /\ (lock = u <=> lock' = u)
  BY TypeStep, OthersStay
<1>1. ASSUME NEW x \in Queries, NEW a \in Addrs, NEW name \in {"Join", "Use"}, QueryUse(t, x, a, name)
      PROVE  IInv'
  <2>1. ThreadInv(t)'
    BY <1>0, <1>1 DEF TypeOK, QueryUse, ThreadInv, CallInv, BuildInv, FreeInv, HandInv
  <2>. QED  BY <1>0, <1>01, <1>1, <2>1, LocalStep DEF QueryUse, Shared, CallInv, TypeOK
<1>2. ASSUME NEW x \in Queries, QueryFree(t, x)
      PROVE  IInv'
  <2>1. ThreadInv(t)'
    BY <1>0, <1>2 DEF TypeOK, QueryFree, ThreadInv, CallInv, BuildInv, FreeInv, HandInv
  <2>. QED  BY <1>0, <1>01, <1>2, <2>1, LocalStep DEF QueryFree, Shared, CallInv, TypeOK
<1>3. CASE ValidateFind(t)
  <2>1. ThreadInv(t)'
    BY <1>0, <1>3, IndexOfListed
    DEF TypeOK, ValidateFind, ThreadInv, CallInv, BuildInv, FreeInv, HandInv, Listed
  <2>. QED  BY <1>0, <1>01, <1>3, <2>1, LocalStep DEF ValidateFind, Shared, CallInv
<1>4. CASE ValidateRead(t)
  <2>1. src[t] \in Addrs /\ heap[src[t]] \in Blocks /\ heap[src[t]] # NoAddr
    BY <1>0, <1>4 DEF TypeOK, TableInv, CallInv, HandInv, Listed, ValidateRead
  <2>2. \/ pc' = [pc EXCEPT ![t] = "refuse"] /\ id' = id
        \/ /\ heap[src[t]].owner = q[t]
           /\ id' = [id EXCEPT ![t] = heap[src[t]].id]
           /\ pc' = [pc EXCEPT ![t] = "accept"]
    BY <1>4, <2>1 DEF ValidateRead, Blocks
  <2>3. heap[src[t]] = [owner |-> heap[src[t]].owner, id |-> heap[src[t]].id]
    BY <2>1 DEF Blocks
  <2>4. ThreadInv(t)'
    BY <1>0, <1>4, <2>1, <2>2, <2>3 DEF TypeOK, ValidateRead, ThreadInv, CallInv, BuildInv, FreeInv, HandInv
  <2>5. pc'[t] \in {"accept", "refuse"} /\ op' = op
    BY <1>0, <1>4, <2>2 DEF TypeOK, ValidateRead
  <2>. QED  BY <1>0, <1>01, <1>4, <2>4, <2>5, LocalStep DEF ValidateRead, Shared, CallInv
<1>5. CASE ValidateRefuse(t)
  <2>1. ThreadInv(t)' /\ op'[t] = "none"
    BY <1>0, <1>5, ReturnInv DEF ValidateRefuse
  <2>. QED  BY <1>0, <1>01, <1>5, <2>1, LocalStep DEF ValidateRefuse, Shared, CallInv, TypeOK
<1>6. CASE ValidateAccept(t)
  <2>1. ThreadInv(t)'
    BY <1>0, <1>6 DEF TypeOK, ValidateAccept, ThreadInv, CallInv, BuildInv, FreeInv, HandInv
  <2>. QED  BY <1>0, <1>01, <1>6, <2>1, LocalStep DEF ValidateAccept, Shared, CallInv
<1>7. CASE Proceed(t) /\ Return(t)
  <2>1. lock' # t /\ UNCHANGED Shared
    BY <1>0, <1>7 DEF Proceed, CallInv, Return, TypeOK, Shared
  <2>2. ThreadInv(t)' /\ op'[t] = "none"
    BY <1>0, <1>7, <2>1, ReturnInv
  <2>. QED  BY <1>0, <1>01, <1>7, <2>1, <2>2, LocalStep DEF Proceed, CallInv
<1>. QED  BY <1>1, <1>2, <1>3, <1>4, <1>5, <1>6, <1>7

(* Steps on the way into and out of the table that do not change it.       *)
LEMMA HandSteps ==
  ASSUME IInv, NEW t \in Threads, Step(t),
         \/ RegisterLock(t) \/ RegisterFails(t) \/ RegisterUnlock(t) \/ KeepFails(t)
         \/ UnregisterLock(t) \/ UnregisterFind(t) \/ UnregisterUnlock(t)
         \/ FreeNext(t)
  PROVE  IInv'
<1>. USE DEF Goto, Enter, Leave, Making, Removing, Checking, Critical, Holds, Building, MayBeUnlisted
<1>0. /\ TypeOK /\ TableInv /\ NoThread \notin Threads
      /\ ThreadInv(t) /\ CallInv(t) /\ BuildInv(t) /\ FreeInv(t) /\ HandInv(t)
  BY RegistryAssumption DEF IInv, ThreadInv
<1>01. TypeOK' /\ \A u \in Threads \ {t} : Locals(u)' = Locals(u) /\ (lock = u <=> lock' = u)
  BY TypeStep, OthersStay
<1>1. CASE RegisterLock(t) \/ RegisterUnlock(t)
  <2>1. ThreadInv(t)'
    BY <1>0, <1>1
    DEF TypeOK, RegisterLock, RegisterUnlock, ThreadInv, CallInv, BuildInv, FreeInv, HandInv, Listed
  <2>. QED  BY <1>0, <1>01, <1>1, <2>1, LocalStep DEF RegisterLock, RegisterUnlock, Shared, TypeOK
<1>2. CASE RegisterFails(t) \/ KeepFails(t)
  <2>1. ThreadInv(t)'
    BY <1>0, <1>2
    DEF TypeOK, RegisterFails, KeepFails, ThreadInv, CallInv, BuildInv, FreeInv, HandInv, Listed
  <2>. QED
    BY <1>0, <1>01, <1>2, <2>1, LocalStep DEF RegisterFails, KeepFails, Shared, TypeOK, CallInv
<1>3. CASE UnregisterLock(t) \/ UnregisterUnlock(t)
  <2>1. ThreadInv(t)'
    BY <1>0, <1>3
    DEF TypeOK, UnregisterLock, UnregisterUnlock, ThreadInv, CallInv, BuildInv, FreeInv, HandInv, Listed
  <2>. QED  BY <1>0, <1>01, <1>3, <2>1, LocalStep DEF UnregisterLock, UnregisterUnlock, Shared, TypeOK
<1>4. CASE UnregisterFind(t)
  <2>1. ThreadInv(t)'
    BY <1>0, <1>4, IndexOfListed
    DEF TypeOK, UnregisterFind, ThreadInv, CallInv, BuildInv, FreeInv, HandInv, Listed
  <2>2. MayBeUnlisted(t) => Listed(src[t]) \/ MayBeUnlisted(t)'
    BY <1>0, <1>4, IndexOfListed DEF TypeOK, UnregisterFind
  <2>. QED  BY <1>0, <1>01, <1>4, <2>1, <2>2, LocalStep DEF UnregisterFind, Shared, TypeOK
<1>5. CASE FreeNext(t)
  <2>. DEFINE a == sources[q[t]][next[t]]
  <2>1. q[t] \in Queries /\ qThread[q[t]] = t /\ op[t] = "Free" /\ next[t] \in DOMAIN sources[q[t]]
    <3>1. next[t] \in Nat /\ next[t] >= 1 /\ q[t] \in Queries
      BY <1>0, <1>5 DEF TypeOK, FreeNext, FreeInv, CallInv
    <3>. QED  BY <1>0, <1>5, <3>1 DEF TypeOK, FreeNext, CallInv
  <2>2. heap[a] # NoAddr /\ heap[a].owner = q[t] /\ ~Passed(t, q[t], next[t])
    <3>1. next[t] \in Nat /\ QueryInv(q[t]) /\ t # NoThread
      BY <1>0, <2>1 DEF IInv, TypeOK
    <3>. QED  BY <2>1, <3>1 DEF QueryInv, KeptAt, Passed
  <2>3. a \in Addrs
    BY <1>0, <2>1, ElementOfSeq DEF TypeOK
  <2>5. Listed(a)
    BY <1>5, <2>1, <2>2, <2>3 DEF IInv, BlockInv, FreeNext
  <2>. HIDE DEF a
  <2>6. src' = [src EXCEPT ![t] = a]
    BY <1>5 DEF FreeNext, a
  <2>7. ThreadInv(t)'
    BY <1>0, <1>5, <2>1, <2>2, <2>3, <2>5, <2>6
    DEF TypeOK, FreeNext, ThreadInv, CallInv, BuildInv, FreeInv, HandInv, Listed, a
  <2>. QED  BY <1>0, <1>01, <1>5, <2>1, <2>7, LocalStep DEF FreeNext, Shared, TypeOK
<1>. QED  BY <1>1, <1>2, <1>3, <1>4, <1>5

-----------------------------------------------------------------------------
(* Steps that change what a query counts.                                  *)

(* What a step of thread t must show.                                      *)
LEMMA Conclude ==
  ASSUME TypeOK', TableInv', NEW t \in Threads, ThreadInv(t)',
         \A u \in Threads \ {t} : ThreadInv(u)',
         \A a \in Addrs : BlockInv(a)',
         \A x \in Queries : QueryInv(x)'
  PROVE  IInv'
<1>1. \A u \in Threads : ThreadInv(u)'
  OBVIOUS
<1>. QED  BY <1>1 DEF IInv

LEMMA QueryCreateStep ==
  ASSUME IInv, NEW t \in Threads, NEW x \in Queries, QueryCreate(t, x)
  PROVE  IInv'
<1>0. /\ TypeOK /\ TableInv /\ NoThread \notin Threads
      /\ ThreadInv(t) /\ CallInv(t) /\ BuildInv(t) /\ FreeInv(t) /\ HandInv(t)
  BY RegistryAssumption DEF IInv, ThreadInv
<1>1. TypeOK' /\ \A u \in Threads \ {t} : Locals(u)' = Locals(u) /\ (lock = u <=> lock' = u)
  BY TypeStep, OthersStay DEF Start
<1>2. /\ sources' = sources /\ heap' = heap /\ registry' = registry /\ lock' = lock
      /\ pc' = pc /\ op' = op /\ q' = q /\ src' = src /\ idx' = idx /\ id' = id /\ next' = next
      /\ pc[t] = "idle" /\ qThread[x] = NoThread
  BY DEF QueryCreate, calls
<1>3. /\ qThread'[x] = t /\ astSize'[x] = 0
      /\ \A y \in Queries \ {x} : qThread'[y] = qThread[y] /\ astSize'[y] = astSize[y]
  BY <1>0 DEF QueryCreate, TypeOK
<1>4. TableInv'
  BY <1>0, <1>2 DEF TableInv
<1>5. ThreadInv(t)'
  BY <1>0, <1>2
  DEF ThreadInv, CallInv, BuildInv, FreeInv, HandInv, Holds, Building, Making, Removing, Checking, Critical
<1>6. ASSUME NEW u \in Threads \ {t}
      PROVE  ThreadInv(u)'
  <2>1. ThreadInv(u) /\ (q[u] \in Queries => q[u] # x)
    BY <1>0, <1>2, OwnQuery DEF IInv
  <2>. QED  BY <1>1, <1>2, <1>3, <2>1, OtherThread DEF Listed
<1>7. ASSUME NEW a \in Addrs
      PROVE  BlockInv(a)'
  <2>1. heap[a] # NoAddr => heap[a].owner \in Queries /\ heap[a].owner # x
    BY <1>0, <1>2 DEF IInv, BlockInv, TypeOK, Blocks
  <2>. QED
    BY <1>1, <1>2, <1>3, <2>1, OtherBlock DEF Kept, Passed, Held, Away, Listed, Building, Holds, MayBeUnlisted
<1>8. ASSUME NEW y \in Queries
      PROVE  QueryInv(y)'
  <2>1. CASE y = x
    <3>1. sources[x] = << >>
      BY <1>2 DEF IInv, QueryInv
    <3>. QED  BY <1>0, <1>2, <1>3, <2>1, <3>1 DEF QueryInv
  <2>2. CASE y # x
    <3>1. \A i : ~Passed(t, y, i)
      BY <1>0, <1>2 DEF CallInv, Passed
    <3>2. qThread[y] = t => Room(y)' = Room(y) /\ Room(y) \in Int
      BY <1>0, <1>2, <1>3, <2>2 DEF Room, Building, TypeOK
    <3>. QED  BY <1>1, <1>2, <1>3, <2>2, <3>1, <3>2, OtherQuery
  <2>. QED  BY <2>1, <2>2
<1>. QED  BY <1>1, <1>4, <1>5, <1>6, <1>7, <1>8, Conclude

(* HdbQueryFrom and HdbQueryJoin once the AST has the new source.          *)
LEMMA AddedStep ==
  ASSUME IInv, TypeOK', NEW t \in Threads, NEW x \in Queries, qThread[x] = t,
         pc[t] = "idle" \/ (pc[t] = "checked" /\ q[t] = x), q'[t] = x,
         pc'[t] = "alloc", (op'[t] = "From" /\ id'[t] = 0) \/ op'[t] = "Join",
         id'[t] = astSize[x], astSize'[x] = astSize[x] + 1,
         \A y \in Queries \ {x} : astSize'[y] = astSize[y],
         UNCHANGED <<qThread, sources, heap, registry, lock>>,
         \A u \in Threads \ {t} : Locals(u)' = Locals(u) /\ (lock = u <=> lock' = u)
  PROVE  IInv'
<1>. USE DEF Holds, Building, MayBeUnlisted, Making, Removing
<1>0. /\ TypeOK /\ TableInv /\ t # NoThread
      /\ ThreadInv(t) /\ CallInv(t) /\ BuildInv(t) /\ FreeInv(t) /\ HandInv(t)
  BY RegistryAssumption DEF IInv, ThreadInv
<1>1. op[t] # "Free" /\ ~Building(t) /\ ~Holds(t) /\ ~MayBeUnlisted(t) /\ lock # t
  BY <1>0 DEF CallInv, Checking, Critical
<1>2. ThreadInv(t)'
  BY <1>0, <1>1 DEF ThreadInv, CallInv, BuildInv, FreeInv, HandInv, Checking, Critical
<1>3. ASSUME NEW y \in Queries, qThread[y] = t
      PROVE  Room(y)' >= Room(y)
  <2>1. astSize[y] \in Nat /\ qThread'[y] = t
    BY <1>0, <1>3 DEF TypeOK
  <2>. QED  BY <1>1, <1>3, <2>1 DEF Room
<1>. QED  BY <1>0, <1>1, <1>2, <1>3, CountStep DEF Memory

LEMMA QueryFromStep ==
  ASSUME IInv, NEW t \in Threads, NEW x \in Queries, QueryFrom(t, x)
  PROVE  IInv'
<1>1. TypeOK' /\ \A u \in Threads \ {t} : Locals(u)' = Locals(u) /\ (lock = u <=> lock' = u)
  BY TypeStep, OthersStay DEF Start
<1>2. /\ pc[t] = "idle" /\ qThread[x] = t /\ astSize[x] = 0
      /\ id[t] = 0 /\ id' = id
      /\ UNCHANGED <<qThread, sources, heap, registry, lock>>
  BY DEF QueryFrom, IInv, ThreadInv, CallInv
<1>3. /\ pc'[t] = "alloc" /\ op'[t] = "From" /\ q'[t] = x
      /\ astSize'[x] = astSize[x] + 1 /\ id'[t] = astSize[x] /\ id'[t] = 0
      /\ \A y \in Queries \ {x} : astSize'[y] = astSize[y]
  BY <1>2 DEF QueryFrom, Goto, IInv, TypeOK
<1>. QED  BY <1>1, <1>2, <1>3, AddedStep

LEMMA ProceedStep ==
  ASSUME IInv, NEW t \in Threads, Proceed(t)
  PROVE  IInv'
<1>0. Step(t)
  BY DEF Step
<1>1. CASE Return(t)
  BY <1>0, <1>1, LookupSteps
<1>2. CASE /\ op[t] = "Join" /\ id' = [id EXCEPT ![t] = astSize[q[t]]]
           /\ astSize' = [astSize EXCEPT ![q[t]] = @ + 1]
           /\ Goto(t, "alloc")
           /\ UNCHANGED <<op, q, src, idx, next>>
  <2>1. TypeOK' /\ \A u \in Threads \ {t} : Locals(u)' = Locals(u) /\ (lock = u <=> lock' = u)
    BY <1>0, TypeStep, OthersStay
  <2>2. q[t] \in Queries /\ qThread[q[t]] = t /\ pc[t] = "checked"
    BY DEF Proceed, IInv, ThreadInv, CallInv
  <2>3. /\ pc'[t] = "alloc" /\ op'[t] = "Join" /\ q'[t] = q[t] /\ id'[t] = astSize[q[t]]
        /\ astSize'[q[t]] = astSize[q[t]] + 1
        /\ \A y \in Queries \ {q[t]} : astSize'[y] = astSize[y]
    BY <1>2, <2>2 DEF Goto, IInv, TypeOK
  <2>4. UNCHANGED <<qThread, sources, heap, registry, lock>>
    BY DEF Proceed
  <2>. QED  BY <2>1, <2>2, <2>3, <2>4, AddedStep
<1>. QED  BY <1>1, <1>2 DEF Proceed

(* A call that returns without a handle may leave its source in the AST.   *)
LEMMA ReturnStep ==
  ASSUME IInv, NEW t \in Threads, Step(t), Return(t), UNCHANGED Memory, lock' = lock,
         pc[t] \in {"alloc", "checked"}, NEW x \in Queries, q[t] = x,
         \A y \in Queries \ {x} : astSize'[y] = astSize[y],
         astSize'[x] >= Room(x)
  PROVE  IInv'
<1>. USE DEF Holds, Building, MayBeUnlisted, Making, Removing
<1>0. TypeOK /\ lock # t /\ qThread[x] = t /\ op[t] # "Free"
  BY DEF IInv, ThreadInv, CallInv, Critical, Checking
<1>1. /\ TypeOK'
      /\ \A u \in Threads \ {t} : Locals(u)' = Locals(u) /\ (lock = u <=> lock' = u)
  BY TypeStep, OthersStay
<1>2. ThreadInv(t)' /\ pc'[t] = "idle" /\ op'[t] = "none" /\ q'[t] = NoQuery
  BY <1>0, ReturnInv
<1>3. ASSUME NEW y \in Queries, qThread[y] = t
      PROVE  Room(y)' >= Room(y)
  <2>1. Room(y)' = astSize'[y] /\ astSize[y] \in Nat
    BY <1>0, <1>2, <1>3 DEF Memory, Room, TypeOK
  <2>2. CASE y = x
    BY <2>1, <2>2
  <2>3. CASE y # x
    <3>1. Room(y) = astSize[y] /\ astSize'[y] = astSize[y]
      BY <1>3, <2>3 DEF Room
    <3>. QED  BY <2>1, <3>1
  <2>. QED  BY <2>2, <2>3
<1>4. \A y \in Queries : qThread[y] # t => astSize'[y] = astSize[y]
  BY <1>0
<1>5. ~Holds(t) /\ ~MayBeUnlisted(t)
  OBVIOUS
<1>. QED  BY <1>0, <1>1, <1>2, <1>3, <1>4, <1>5, CountStep

(* What is left in the AST when a call makes no handle: the other sources, *)
(* and perhaps the one it added.                                           *)
LEMMA FailedSize ==
  ASSUME TypeOK, NEW t \in Threads, NEW x \in Queries, q[t] = x, CreateFails(t),
         astSize[x] = id[t] + 1, op[t] = "From" => id[t] = 0
  PROVE  /\ id[t] \in Nat
         /\ astSize'[x] = id[t] \/ astSize'[x] = id[t] + 1
         /\ \A y \in Queries \ {x} : astSize'[y] = astSize[y]
<1>1. id[t] \in Nat /\ astSize[x] - 1 = id[t]
  BY DEF TypeOK, SourceIds
<1>2. CASE UNCHANGED astSize
  BY <1>1, <1>2
<1>3. CASE AstUndone(t)
  <2>1. /\ astSize'[x] = IF op[t] = "From" THEN 0 ELSE astSize[x] - 1
        /\ \A y \in Queries \ {x} : astSize'[y] = astSize[y]
    BY <1>3 DEF AstUndone, TypeOK
  <2>2. CASE op[t] = "From"
    BY <1>1, <2>1, <2>2
  <2>3. CASE op[t] # "From"
    BY <1>1, <2>1, <2>3
  <2>. QED  BY <2>2, <2>3
<1>. QED  BY <1>2, <1>3 DEF CreateFails

LEMMA AllocateFailsStep ==
  ASSUME IInv, NEW t \in Threads, AllocateFails(t)
  PROVE  IInv'
<1>1. CallInv(t) /\ BuildInv(t) /\ TypeOK
  BY DEF IInv, ThreadInv
<1>. PICK x \in Queries : x = q[t]
  BY <1>1 DEF CallInv, AllocateFails
<1>2. /\ x = q[t] /\ qThread[x] = t /\ Building(t)
      /\ astSize[x] = id[t] + 1 /\ id[t] \in Nat
      /\ op[t] = "From" => id[t] = 0
  BY <1>1 DEF AllocateFails, CallInv, BuildInv, Building, Making, TypeOK, SourceIds
<1>3. /\ astSize'[x] = id[t] \/ astSize'[x] = id[t] + 1
      /\ \A y \in Queries \ {x} : astSize'[y] = astSize[y]
  BY <1>1, <1>2, FailedSize DEF AllocateFails
<1>4. Room(x) = id[t]
  BY <1>2 DEF Room
<1>5. astSize'[x] >= Room(x)
  BY <1>2, <1>3, <1>4
<1>6. Step(t) /\ Return(t) /\ UNCHANGED Memory /\ lock' = lock /\ pc[t] = "alloc"
  BY DEF AllocateFails, CreateFails, Memory, Step
<1>. QED  BY <1>2, <1>3, <1>5, <1>6, ReturnStep

LEMMA JoinOnFailsStep ==
  ASSUME IInv, NEW t \in Threads, JoinOnFails(t)
  PROVE  IInv'
<1>1. CallInv(t) /\ TypeOK
  BY DEF IInv, ThreadInv
<1>. PICK x \in Queries : x = q[t]
  BY <1>1 DEF CallInv, JoinOnFails
<1>2. x = q[t] /\ qThread[x] = t /\ ~Building(t) /\ astSize[x] \in Nat
  BY <1>1 DEF JoinOnFails, CallInv, Building, Making, Removing, TypeOK
<1>3. /\ astSize'[x] = astSize[x] + 1
      /\ \A y \in Queries \ {x} : astSize'[y] = astSize[y]
  BY <1>1, <1>2 DEF JoinOnFails, TypeOK
<1>4. astSize'[x] >= Room(x)
  BY <1>2, <1>3 DEF Room
<1>5. Step(t) /\ Return(t) /\ UNCHANGED Memory /\ lock' = lock /\ pc[t] = "checked"
  BY DEF JoinOnFails, Memory, Step
<1>. QED  BY <1>2, <1>3, <1>4, <1>5, ReturnStep

(* The loop has passed every source of the query, so no block is its own.  *)
LEMMA FreeDoneStep ==
  ASSUME IInv, NEW t \in Threads, FreeDone(t)
  PROVE  IInv'
<1>. USE DEF Holds, Building, MayBeUnlisted, Making, Removing
<1>. PICK x \in Queries : x = q[t]
  BY DEF IInv, ThreadInv, CallInv, FreeDone
<1>0. /\ TypeOK /\ TableInv /\ t # NoThread /\ lock # t
      /\ pc[t] = "free" /\ op[t] = "Free" /\ x \in Queries /\ qThread[x] = t
      /\ next[t] \in Nat /\ next[t] > Len(sources[x])
      /\ UNCHANGED <<heap, registry, lock>>
  BY RegistryAssumption DEF IInv, TypeOK, ThreadInv, CallInv, FreeDone, Critical
<1>1. TypeOK' /\ \A u \in Threads \ {t} : Locals(u)' = Locals(u)
  BY TypeStep, OthersStay DEF Step
<1>2. ThreadInv(t)' /\ pc'[t] = "idle" /\ op'[t] = "none" /\ q'[t] = NoQuery
  BY <1>0, ReturnInv DEF FreeDone
<1>3. /\ astSize'[x] = 0 /\ sources'[x] = << >> /\ qThread'[x] = NoThread
      /\ \A y \in Queries \ {x} :
           astSize'[y] = astSize[y] /\ sources'[y] = sources[y] /\ qThread'[y] = qThread[y]
  BY <1>0 DEF FreeDone, TypeOK
<1>4. TableInv'
  BY <1>0 DEF TableInv
<1>5. ASSUME NEW u \in Threads \ {t}
      PROVE  ThreadInv(u)'
  <2>1. ThreadInv(u) /\ (q[u] \in Queries => q[u] # x)
    BY OwnQuery DEF IInv
  <2>2. Locals(u)' = Locals(u) /\ src'[u] = src[u]
    BY <1>1 DEF Locals
  <2>. QED  BY <1>0, <1>3, <2>1, <2>2, OtherThread DEF Listed
<1>6. ASSUME NEW a \in Addrs
      PROVE  BlockInv(a)'
  <2>1. heap[a] # NoAddr => heap[a].owner \in Queries /\ heap[a].owner # x
    <3>1. SUFFICES ASSUME heap[a] # NoAddr, heap[a].owner = x
                   PROVE  FALSE
      BY <1>0 DEF TypeOK, Blocks
    <3>2. PICK i \in DOMAIN sources[x] : ~Passed(t, x, i)
      BY <1>0, <3>1 DEF IInv, BlockInv
    <3>3. i \in 1 .. Len(sources[x]) /\ Len(sources[x]) \in Nat
      BY <1>0, LenProperties DEF TypeOK
    <3>. QED  BY <1>0, <3>2, <3>3 DEF Passed
  <2>. QED  BY <1>0, <1>1, <1>2, <1>3, <2>1, OtherBlock DEF Kept, Passed, Held, Away, Listed
<1>7. ASSUME NEW y \in Queries
      PROVE  QueryInv(y)'
  <2>1. CASE y = x
    BY <1>0, <1>3, <2>1 DEF QueryInv
  <2>2. CASE y # x
    <3>1. qThread[y] = t => Room(y)' = Room(y) /\ Room(y) \in Int
      BY <1>0, <1>2, <1>3, <2>2 DEF Room, TypeOK
    <3>. QED  BY <1>0, <1>1, <1>2, <1>3, <2>2, <3>1, OtherQuery DEF Passed
  <2>. QED  BY <2>1, <2>2
<1>. QED  BY <1>1, <1>2, <1>4, <1>5, <1>6, <1>7, Conclude

-----------------------------------------------------------------------------
(* Steps that change the memory or the table.                              *)

(* The source in a thread's hand is a block of the thread's query.         *)
LEMMA HandBlock ==
  ASSUME IInv, NEW t \in Threads, Holds(t)
  PROVE  /\ src[t] \in Addrs /\ heap[src[t]] \in Blocks /\ heap[src[t]] # NoAddr
         /\ q[t] \in Queries /\ qThread[q[t]] = t /\ heap[src[t]].owner = q[t]
         /\ op[t] # "Free" => heap[src[t]].id = id[t]
<1>. USE DEF Holds, Making, Removing
<1>1. CallInv(t) /\ HandInv(t)
  BY DEF IInv, ThreadInv
<1>2. src[t] \in Addrs /\ q[t] \in Queries /\ qThread[q[t]] = t
  BY <1>1 DEF CallInv
<1>. QED  BY <1>1, <1>2 DEF HandInv, IInv, TypeOK

(* A step that changes neither what a query counts nor whether its thread  *)
(* is adding a source leaves it as much room.                              *)
LEMMA SameRoom ==
  ASSUME TypeOK, NEW t \in Threads, NEW x \in Queries, qThread[x] = t,
         qThread'[x] = t, astSize'[x] = astSize[x],
         (q'[t] = x /\ Building(t)') <=> (q[t] = x /\ Building(t))
  PROVE  Room(x)' >= Room(x)
<1>1. Room(x)' = Room(x) /\ Room(x) \in Int
  BY DEF Room, TypeOK
<1>. QED  BY <1>1

LEMMA AllocateStep ==
  ASSUME IInv, NEW t \in Threads, NEW a \in Addrs, Allocate(t, a)
  PROVE  IInv'
<1>. USE DEF Holds, Building, MayBeUnlisted, Making, Removing
<1>. PICK x \in Queries : x = q[t]
  BY DEF IInv, ThreadInv, CallInv, Allocate
<1>0. /\ TypeOK /\ TableInv /\ t # NoThread /\ lock # t
      /\ pc[t] = "alloc" /\ op[t] \in {"From", "Join"} /\ x \in Queries /\ qThread[x] = t
      /\ UNCHANGED <<qThread, astSize, sources, registry, lock>>
      /\ heap[a] = NoAddr
      /\ astSize[x] = id[t] + 1 /\ id[t] \in SourceIds
      /\ op[t] = "From" => id[t] = 0
  BY RegistryAssumption
  DEF IInv, TypeOK, ThreadInv, CallInv, BuildInv, Allocate, Critical
<1>1. TypeOK' /\ \A u \in Threads \ {t} : Locals(u)' = Locals(u)
  BY TypeStep, OthersStay DEF Step
<1>2. /\ pc'[t] = "register" /\ src'[t] = a
      /\ op'[t] = op[t] /\ q'[t] = x /\ id'[t] = id[t]
      /\ heap'[a] = [owner |-> x, id |-> id[t]]
      /\ \A c \in Addrs \ {a} : heap'[c] = heap[c]
  BY <1>0 DEF Allocate, Goto, TypeOK
<1>3. heap'[a] \in Blocks /\ heap'[a] # NoAddr
  BY <1>0, <1>2, RegistryAssumption DEF Blocks
<1>4. ~Listed(a) /\ \A c : Listed(c)' <=> Listed(c)
  BY <1>0 DEF Listed, TableInv
<1>5. TableInv'
  <2>1. \A i \in DOMAIN registry : registry[i] \in Addrs
    BY <1>0, ElementOfSeq, LenProperties DEF TypeOK
  <2>. QED  BY <1>0, <1>2, <1>3, <2>1 DEF TableInv
<1>6. ThreadInv(t)'
  <2>1. CallInv(t)' /\ BuildInv(t)' /\ FreeInv(t)'
    BY <1>0, <1>2 DEF CallInv, BuildInv, FreeInv, Checking, Critical
  <2>2. HandInv(t)'
    BY <1>0, <1>2, <1>3, <1>4 DEF HandInv
  <2>. QED  BY <2>1, <2>2 DEF ThreadInv
<1>7. ASSUME NEW u \in Threads \ {t}
      PROVE  ThreadInv(u)'
  <2>1. ThreadInv(u)
    BY DEF IInv
  <2>2. Locals(u)' = Locals(u) /\ src'[u] = src[u]
    BY <1>1 DEF Locals
  <2>3. Holds(u) => heap[src[u]] # NoAddr /\ src[u] \in Addrs
    BY HandBlock
  <2>4. pc[u] \in {"accept", "checked"} => heap[src[u]] # NoAddr /\ src[u] \in Addrs
    BY <1>0, <2>1, RegistryAssumption DEF ThreadInv, CallInv, HandInv, Checking, Blocks, TypeOK
  <2>. QED  BY <1>0, <1>2, <1>4, <2>1, <2>2, <2>3, <2>4, OtherThread
<1>8. ASSUME NEW c \in Addrs
      PROVE  BlockInv(c)'
  <2>1. CASE c = a
    BY <1>0, <1>2, <2>1 DEF BlockInv
  <2>2. CASE c # a
    BY <1>0, <1>1, <1>2, <1>4, <2>2, OtherBlock DEF Kept, Passed, Held, Away
  <2>. QED  BY <2>1, <2>2
<1>9. ASSUME NEW y \in Queries
      PROVE  QueryInv(y)'
  <2>1. ASSUME NEW i \in DOMAIN sources[y], KeptAt(y, i)
        PROVE  heap'[sources[y][i]] = heap[sources[y][i]]
    <3>1. sources[y][i] \in Addrs
      BY <1>0, ElementOfSeq, LenProperties DEF TypeOK
    <3>. QED  BY <1>0, <1>2, <2>1, <3>1 DEF KeptAt
  <2>2. qThread[y] = t => Room(y)' >= Room(y)
    BY <1>0, <1>2, SameRoom
  <2>. QED  BY <1>0, <1>1, <1>2, <2>1, <2>2, OtherQuery DEF Passed
<1>. QED  BY <1>1, <1>5, <1>6, <1>7, <1>8, <1>9, Conclude

LEMMA RegisterSourceStep ==
  ASSUME IInv, NEW t \in Threads, RegisterSource(t)
  PROVE  IInv'
<1>. USE DEF Holds, Building, MayBeUnlisted, Making, Removing
<1>0. /\ TypeOK /\ TableInv /\ t # NoThread /\ lock = t
      /\ pc[t] = "push" /\ op[t] \in {"From", "Join"} /\ src[t] \in Addrs
      /\ UNCHANGED <<qThread, astSize, sources, heap, lock>>
      /\ UNCHANGED <<op, q, src, idx, id, next>>
      /\ ~Listed(src[t])
      /\ ThreadInv(t) /\ CallInv(t) /\ BuildInv(t) /\ FreeInv(t) /\ HandInv(t)
  BY RegistryAssumption
  DEF IInv, ThreadInv, CallInv, HandInv, RegisterSource, Critical
<1>1. TypeOK' /\ \A u \in Threads \ {t} : Locals(u)' = Locals(u)
  BY TypeStep, OthersStay DEF Step
<1>2. pc'[t] = "pushed"
  BY <1>0 DEF RegisterSource, Goto, TypeOK
<1>3. /\ registry' \in Seq(Addrs) /\ IsInjective(registry')
      /\ \A c : Listed(c)' <=> Listed(c) \/ c = src[t]
  BY <1>0, AppendListed DEF RegisterSource
<1>4. TableInv'
  <2>1. heap[src[t]] # NoAddr
    BY <1>0, HandBlock
  <2>2. ASSUME NEW i \in DOMAIN registry'
        PROVE  heap'[registry'[i]] # NoAddr
    <3>1. Listed(registry'[i]) \/ registry'[i] = src[t]
      BY <1>3 DEF Listed
    <3>. QED  BY <1>0, <2>1, <3>1 DEF Listed, TableInv
  <2>. QED  BY <1>3, <2>2 DEF TableInv
<1>5. ThreadInv(t)'
  BY <1>0, <1>2, <1>3 DEF ThreadInv, CallInv, BuildInv, FreeInv, HandInv, Checking, Critical
<1>6. ASSUME NEW u \in Threads \ {t}
      PROVE  ThreadInv(u)'
  <2>1. ThreadInv(u) /\ pc[u] \notin {"read", "erase"}
    BY <1>0, Exclusion DEF IInv, Critical
  <2>2. Locals(u)' = Locals(u) /\ src'[u] = src[u]
    BY <1>1 DEF Locals
  <2>3. Holds(u) => src[u] # src[t]
    BY <1>0, HandsDiffer
  <2>. QED  BY <1>0, <1>3, <2>1, <2>2, <2>3, OtherThread
<1>7. ASSUME NEW a \in Addrs
      PROVE  BlockInv(a)'
  BY <1>0, <1>1, <1>2, <1>3, OtherBlock DEF Kept, Passed, Held, Away
<1>8. ASSUME NEW y \in Queries
      PROVE  QueryInv(y)'
  <2>1. qThread[y] = t => Room(y)' >= Room(y)
    BY <1>0, <1>2, SameRoom
  <2>. QED  BY <1>0, <1>1, <1>2, <2>1, OtherQuery DEF Passed
<1>. QED  BY <1>1, <1>4, <1>5, <1>6, <1>7, <1>8, Conclude

LEMMA UnregisterEraseStep ==
  ASSUME IInv, NEW t \in Threads, UnregisterErase(t)
  PROVE  IInv'
<1>. USE DEF Holds, Building, MayBeUnlisted, Making, Removing
<1>0. /\ TypeOK /\ TableInv /\ t # NoThread /\ lock = t
      /\ pc[t] = "erase" /\ op[t] \in {"From", "Join", "Free"} /\ src[t] \in Addrs
      /\ UNCHANGED <<qThread, astSize, sources, heap, lock>>
      /\ UNCHANGED <<op, q, src, idx, id, next>>
      /\ idx[t] \in DOMAIN registry /\ registry[idx[t]] = src[t]
      /\ ThreadInv(t) /\ CallInv(t) /\ BuildInv(t) /\ FreeInv(t) /\ HandInv(t)
  BY RegistryAssumption
  DEF IInv, ThreadInv, CallInv, HandInv, UnregisterErase, Critical
<1>1. TypeOK' /\ \A u \in Threads \ {t} : Locals(u)' = Locals(u)
  BY TypeStep, OthersStay DEF Step
<1>2. pc'[t] = "erased"
  BY <1>0 DEF UnregisterErase, Goto, TypeOK
<1>3. /\ registry' \in Seq(Addrs) /\ IsInjective(registry')
      /\ \A c : Listed(c)' <=> Listed(c) /\ c # src[t]
  BY <1>0, RemoveListed DEF UnregisterErase
<1>4. TableInv'
  <2>1. ASSUME NEW i \in DOMAIN registry'
        PROVE  heap'[registry'[i]] # NoAddr
    <3>1. Listed(registry'[i])
      BY <1>3 DEF Listed
    <3>. QED  BY <1>0, <3>1 DEF Listed, TableInv
  <2>. QED  BY <1>3, <2>1 DEF TableInv
<1>5. ThreadInv(t)'
  BY <1>0, <1>2, <1>3 DEF ThreadInv, CallInv, BuildInv, FreeInv, HandInv, Checking, Critical
<1>6. ASSUME NEW u \in Threads \ {t}
      PROVE  ThreadInv(u)'
  <2>1. ThreadInv(u) /\ pc[u] \notin {"read", "erase"}
    BY <1>0, Exclusion DEF IInv, Critical
  <2>2. Locals(u)' = Locals(u) /\ src'[u] = src[u]
    BY <1>1 DEF Locals
  <2>3. Holds(u) => src[u] # src[t]
    BY <1>0, HandsDiffer
  <2>. QED  BY <1>0, <1>3, <2>1, <2>2, <2>3, OtherThread
<1>7. ASSUME NEW a \in Addrs
      PROVE  BlockInv(a)'
  <2>1. a = src[t] => heap[a].owner = q[t] /\ qThread[q[t]] = t
    BY <1>0, HandBlock
  <2>. QED  BY <1>0, <1>1, <1>2, <1>3, <2>1, OtherBlock DEF Kept, Passed, Held, Away
<1>8. ASSUME NEW y \in Queries
      PROVE  QueryInv(y)'
  <2>1. qThread[y] = t => Room(y)' >= Room(y)
    BY <1>0, <1>2, SameRoom
  <2>. QED  BY <1>0, <1>1, <1>2, <2>1, OtherQuery DEF Passed
<1>. QED  BY <1>1, <1>4, <1>5, <1>6, <1>7, <1>8, Conclude

LEMMA KeepSourceStep ==
  ASSUME IInv, NEW t \in Threads, KeepSource(t)
  PROVE  IInv'
<1>. USE DEF Holds, Building, MayBeUnlisted, Making, Removing
<1>. PICK x \in Queries : x = q[t]
  BY DEF IInv, ThreadInv, CallInv, KeepSource
<1>. DEFINE n == Len(sources[x])
<1>0. /\ TypeOK /\ TableInv /\ t # NoThread /\ lock # t
      /\ pc[t] = "keep" /\ op[t] \in {"From", "Join"} /\ x \in Queries /\ qThread[x] = t
      /\ src[t] \in Addrs
      /\ UNCHANGED <<qThread, astSize, heap, registry, lock>>
      /\ astSize[x] = id[t] + 1 /\ id[t] \in Nat
      /\ heap[src[t]] # NoAddr /\ heap[src[t]].owner = x /\ heap[src[t]].id = id[t]
  <2>1. pc[t] = "keep" /\ UNCHANGED <<qThread, astSize, heap, registry, lock>>
    BY DEF KeepSource
  <2>2. TypeOK /\ TableInv /\ t # NoThread /\ CallInv(t) /\ BuildInv(t)
    BY RegistryAssumption DEF IInv, ThreadInv
  <2>3. /\ lock # t /\ op[t] \in {"From", "Join"} /\ x \in Queries /\ qThread[x] = t
        /\ src[t] \in Addrs
    BY <2>1, <2>2 DEF CallInv, Critical
  <2>4. astSize[x] = id[t] + 1 /\ id[t] \in Nat
    BY <2>1, <2>2, <2>3 DEF BuildInv, TypeOK, SourceIds
  <2>5. heap[src[t]] # NoAddr /\ heap[src[t]].owner = x /\ heap[src[t]].id = id[t]
    BY <2>1, <2>3, HandBlock
  <2>. QED  BY <2>1, <2>2, <2>3, <2>4, <2>5
<1>1. TypeOK' /\ \A u \in Threads \ {t} : Locals(u)' = Locals(u)
  BY TypeStep, OthersStay DEF Step
<1>2. ThreadInv(t)' /\ pc'[t] = "idle" /\ op'[t] = "none" /\ q'[t] = NoQuery
  BY <1>0, ReturnInv DEF KeepSource
<1>3. /\ sources'[x] = Append(sources[x], src[t])
      /\ \A y \in Queries \ {x} : sources'[y] = sources[y]
  BY <1>0 DEF KeepSource, TypeOK
<1>4. /\ n \in Nat /\ DOMAIN sources[x] = 1 .. n /\ DOMAIN sources'[x] = 1 .. n + 1
      /\ Len(sources'[x]) = n + 1
      /\ \A i \in 1 .. n : sources'[x][i] = sources[x][i]
      /\ sources'[x][n + 1] = src[t]
  <2>1. sources[x] \in Seq(Addrs)
    BY <1>0 DEF TypeOK
  <2>. QED  BY <1>0, <1>3, <2>1, AppendProperties, LenProperties
<1>. HIDE DEF n
<1>5. TableInv'
  BY <1>0 DEF TableInv
<1>6. ASSUME NEW u \in Threads \ {t}
      PROVE  ThreadInv(u)'
  <2>1. ThreadInv(u) /\ (q[u] \in Queries => q[u] # x)
    BY OwnQuery DEF IInv
  <2>2. Locals(u)' = Locals(u) /\ src'[u] = src[u]
    BY <1>1 DEF Locals
  <2>. QED  BY <1>0, <1>3, <2>1, <2>2, OtherThread DEF Listed
<1>7. ASSUME NEW a \in Addrs
      PROVE  BlockInv(a)'
  <2>1. heap[a] # NoAddr => heap[a].owner \in Queries
    BY <1>0 DEF TypeOK, Blocks
  <2>2. heap[a] # NoAddr /\ Held(a, t) => Kept(a, t)'
    <3>1. n + 1 \in 1 .. n + 1
      BY <1>4
    <3>. QED  BY <1>0, <1>2, <1>4, <3>1 DEF Kept, Passed, Held
  <2>3. \A i \in 1 .. n : i \in 1 .. n + 1
    BY <1>4
  <2>4. ASSUME heap[a] # NoAddr, Kept(a, t)
        PROVE  Kept(a, t)'
    <3>1. ASSUME NEW i \in DOMAIN sources[heap[a].owner], sources[heap[a].owner][i] = a
          PROVE  /\ i \in DOMAIN sources'[heap[a].owner]
                 /\ sources'[heap[a].owner][i] = a
      <4>1. CASE heap[a].owner = x
        BY <1>4, <2>3, <3>1, <4>1
      <4>2. CASE heap[a].owner # x /\ heap[a].owner \in Queries
        BY <1>3, <3>1, <4>2
      <4>. QED  BY <2>1, <2>4, <4>1, <4>2
    <3>2. \A i : ~Passed(t, heap[a].owner, i)'
      BY <1>2 DEF Passed
    <3>. QED  BY <1>0, <2>4, <3>1, <3>2 DEF Kept
  <2>. QED  BY <1>0, <1>1, <1>2, <1>3, <2>1, <2>2, <2>4, OtherBlock DEF Away, Listed
<1>8. ASSUME NEW y \in Queries
      PROVE  QueryInv(y)'
  <2>1. CASE y = x
    <3>1. Room(x) = id[t] /\ Room(x)' = id[t] + 1
      BY <1>0, <1>2, RegistryAssumption DEF Room
    <3>2. ASSUME NEW i \in 1 .. n
          PROVE  /\ KeptAt(x, i)
                 /\ \A j \in 1 .. n : i < j => heap[sources[x][i]].id < heap[sources[x][j]].id
      <4>1. ~Passed(t, x, i)
        BY <1>0 DEF Passed
      <4>. QED  BY <1>0, <1>4, <3>2, <4>1 DEF IInv, QueryInv
    <3>3. ASSUME NEW i \in 1 .. n
          PROVE  heap[sources[x][i]].id \in Nat /\ sources'[x][i] = sources[x][i]
      <4>1. sources[x][i] \in Addrs
        BY <1>0, <1>4, <3>3, ElementOfSeq DEF TypeOK
      <4>. QED  BY <1>0, <1>4, <3>2, <3>3, <4>1 DEF KeptAt, TypeOK, Blocks, SourceIds
    <3>4. \A i \in 1 .. n + 1 : i \in 1 .. n \/ i = n + 1
      BY <1>4
    <3>5. ASSUME NEW i \in 1 .. n + 1
          PROVE  KeptAt(x, i)'
      <4>1. CASE i \in 1 .. n
        BY <1>0, <3>1, <3>2, <3>3, <4>1 DEF KeptAt
      <4>2. CASE i = n + 1
        BY <1>0, <1>4, <3>1, <4>2 DEF KeptAt
      <4>. QED  BY <3>4, <4>1, <4>2
    <3>6. ASSUME NEW i \in 1 .. n + 1, NEW j \in 1 .. n + 1, i < j
          PROVE  heap'[sources'[x][i]].id < heap'[sources'[x][j]].id
      <4>1. i \in 1 .. n
        BY <1>4, <3>6
      <4>2. CASE j \in 1 .. n
        BY <1>0, <3>2, <3>3, <3>6, <4>1, <4>2
      <4>3. CASE j = n + 1
        <5>1. heap[sources[x][i]].id < id[t]
          BY <3>1, <3>2, <4>1 DEF KeptAt
        <5>. QED  BY <1>0, <1>4, <3>3, <4>1, <4>3, <5>1
      <4>. QED  BY <3>4, <4>2, <4>3
    <3>. QED  BY <1>0, <1>4, <2>1, <3>5, <3>6 DEF QueryInv
  <2>2. CASE y # x
    <3>1. qThread[y] = t => Room(y)' >= Room(y)
      BY <1>0, <1>2, <1>3, <2>2, SameRoom
    <3>. QED  BY <1>0, <1>1, <1>2, <1>3, <2>2, <3>1, OtherQuery DEF Passed
  <2>. QED  BY <2>1, <2>2
<1>. QED  BY <1>1, <1>2, <1>5, <1>6, <1>7, <1>8, Conclude

LEMMA DeleteSourceStep ==
  ASSUME IInv, NEW t \in Threads, DeleteSource(t)
  PROVE  IInv'
<1>. USE DEF Holds, Building, MayBeUnlisted, Making, Removing
<1>. PICK x \in Queries : x = q[t]
  BY DEF IInv, ThreadInv, CallInv, DeleteSource
<1>. DEFINE a == src[t]
<1>0. /\ TypeOK /\ TableInv /\ t # NoThread /\ lock # t /\ lock' = lock
      /\ pc[t] = "delete" /\ op[t] \in {"From", "Join", "Free"}
      /\ ~Listed(a)
      /\ UNCHANGED <<qThread, sources, registry>>
      /\ ThreadInv(t) /\ CallInv(t) /\ BuildInv(t) /\ FreeInv(t) /\ HandInv(t)
  BY RegistryAssumption
  DEF IInv, ThreadInv, CallInv, HandInv, DeleteSource, Critical
<1>01. /\ a \in Addrs /\ heap[a] # NoAddr /\ x \in Queries /\ qThread[x] = t
       /\ heap[a].owner = x
       /\ op[t] # "Free" => heap[a].id = id[t]
  BY <1>0, HandBlock
<1>02. next[t] \in Nat /\ id[t] \in Nat
  BY <1>0 DEF TypeOK, SourceIds
<1>1. TypeOK' /\ \A u \in Threads \ {t} : Locals(u)' = Locals(u)
  BY TypeStep, OthersStay DEF Step
<1>2. heap'[a] = NoAddr /\ \A c \in Addrs \ {a} : heap'[c] = heap[c]
  BY <1>0, <1>01 DEF DeleteSource, TypeOK
<1>3. /\ \A y \in Queries \ {x} : astSize'[y] = astSize[y]
      /\ \/ /\ op[t] = "Free" /\ op'[t] = "Free" /\ q'[t] = x /\ next'[t] = next[t] + 1
            /\ pc'[t] = "free" /\ astSize'[x] = astSize[x]
         \/ /\ op[t] # "Free" /\ pc'[t] = "idle" /\ op'[t] = "none" /\ q'[t] = NoQuery
            /\ astSize'[x] \in Nat /\ astSize'[x] >= id[t]
  <2>1. CASE op[t] = "Free"
    BY <1>0, <2>1 DEF DeleteSource, Goto, TypeOK
  <2>2. CASE op[t] # "Free"
    <3>1. astSize[x] = id[t] + 1 /\ (op[t] = "From" => id[t] = 0)
      BY <1>0, <2>2 DEF BuildInv
    <3>2. /\ astSize'[x] = id[t] \/ astSize'[x] = id[t] + 1
          /\ \A y \in Queries \ {x} : astSize'[y] = astSize[y]
      BY <1>0, <1>01, <2>2, <3>1, FailedSize DEF DeleteSource
    <3>3. astSize'[x] \in Nat /\ astSize'[x] >= id[t]
      BY <1>02, <3>2
    <3>. QED  BY <1>0, <2>2, <3>2, <3>3 DEF DeleteSource, CreateFails, Return, Goto, TypeOK
  <2>. QED  BY <2>1, <2>2
<1>31. ASSUME NEW y \in Queries, NEW i \in DOMAIN sources[y], sources[y][i] = a, KeptAt(y, i)
       PROVE  y = x /\ (qThread[y] = t /\ ~Passed(t, y, i) => op[t] = "Free" /\ i = next[t])
  <2>1. y = x
    BY <1>01, <1>31 DEF KeptAt
  <2>2. CASE op[t] # "Free"
    <3>1. Room(x) = id[t]
      BY <1>0, <1>01, <1>02, <2>2 DEF BuildInv, Room
    <3>. QED  BY <1>01, <1>02, <1>31, <2>1, <2>2, <3>1 DEF KeptAt
  <2>3. CASE op[t] = "Free"
    <3>1. next[t] \in DOMAIN sources[x] /\ sources[x][next[t]] = a
      BY <1>0, <2>3 DEF FreeInv
    <3>2. ~Passed(t, x, next[t])
      BY <1>02 DEF Passed
    <3>3. heap[a].id \in Nat
      BY <1>01, HandBlock, <1>0 DEF Blocks, SourceIds
    <3>4. i \in Nat
      BY <1>0, <1>31, LenProperties DEF TypeOK
    <3>5. ~Passed(t, x, i) => ~(i < next[t])
      BY <1>01, <2>3 DEF Passed
    <3>6. ~(next[t] < i)
      <4>1. next[t] < i => heap[sources[x][next[t]]].id < heap[sources[x][i]].id
        BY <1>0, <1>01, <1>31, <2>1, <3>1, <3>2 DEF IInv, QueryInv
      <4>. QED  BY <1>31, <2>1, <3>1, <3>3, <4>1
    <3>. QED  BY <1>02, <2>1, <2>3, <3>4, <3>5, <3>6
  <2>. QED  BY <2>2, <2>3
<1>32. \A y \in Queries : qThread[y] = t => Room(y)' >= Room(y)
  <2>1. ASSUME NEW y \in Queries, qThread[y] = t
        PROVE  Room(y)' >= Room(y)
    <3>1. CASE op[t] = "Free" \/ y # x
      BY <1>0, <1>01, <1>3, <2>1, <3>1, SameRoom, RegistryAssumption
    <3>2. CASE op[t] # "Free" /\ y = x
      <4>1. Room(x) = id[t]
        BY <1>0, <1>01, <1>02, <3>2 DEF BuildInv, Room
      <4>2. Room(x)' = astSize'[x]
        BY <1>0, <1>01, <1>3, <3>2, RegistryAssumption DEF Room
      <4>. QED  BY <1>3, <3>2, <4>1, <4>2
    <3>. QED  BY <3>1, <3>2
  <2>. QED  BY <2>1
<1>33. \A y \in Queries : \A i \in DOMAIN sources[y] : Passed(t, y, i) => Passed(t, y, i)'
  BY <1>02, <1>3, <1>0, LenProperties DEF Passed, TypeOK
<1>4. TableInv'
  <2>1. \A i \in DOMAIN registry : registry[i] \in Addrs /\ registry[i] # a
    BY <1>0, ElementOfSeq, LenProperties DEF TypeOK, Listed
  <2>. QED  BY <1>0, <1>2, <2>1 DEF TableInv
<1>5. ThreadInv(t)'
  <2>1. CASE op[t] = "Free"
    <3>1. /\ pc'[t] = "free" /\ op'[t] = "Free" /\ q'[t] = x /\ next'[t] >= 1 /\ lock' # t
      BY <1>0, <1>02, <1>3, <2>1 DEF FreeInv
    <3>. QED
      BY <1>0, <1>01, <3>1 DEF ThreadInv, CallInv, BuildInv, FreeInv, HandInv, Checking, Critical
  <2>2. CASE op[t] # "Free"
    BY <1>0, <2>2, ReturnInv DEF DeleteSource, CreateFails
  <2>. QED  BY <2>1, <2>2
<1>6. ASSUME NEW u \in Threads \ {t}
      PROVE  ThreadInv(u)'
  <2>1. ThreadInv(u) /\ (q[u] \in Queries => q[u] # x)
    BY OwnQuery DEF IInv
  <2>2. Locals(u)' = Locals(u) /\ src'[u] = src[u]
    BY <1>1 DEF Locals
  <2>3. Holds(u) \/ pc[u] \in {"accept", "checked"} => src[u] # a /\ src[u] \in Addrs
    <3>1. Holds(u) \/ pc[u] \in {"accept", "checked"} => src[u] \in Addrs
      BY <2>1 DEF ThreadInv, CallInv, Checking
    <3>. QED  BY <1>0, <3>1, HandsDiffer
  <2>. QED  BY <1>0, <1>2, <1>3, <2>1, <2>2, <2>3, OtherThread DEF Listed
<1>7. ASSUME NEW c \in Addrs
      PROVE  BlockInv(c)'
  <2>1. CASE c = a
    BY <1>2, <2>1 DEF BlockInv
  <2>2. CASE c # a
    <3>1. Listed(c)' <=> Listed(c)
      BY <1>0 DEF Listed
    <3>2. ~Held(c, t) /\ ~Away(c, t)
      BY <2>2 DEF Held, Away
    <3>3. ASSUME heap[c] # NoAddr, Kept(c, t)
          PROVE  Kept(c, t)'
      <4>1. heap[c].owner \in Queries
        BY <1>0, <3>3 DEF TypeOK, Blocks
      <4>2. PICK i \in DOMAIN sources[heap[c].owner] :
              sources[heap[c].owner][i] = c /\ ~Passed(t, heap[c].owner, i)
        BY <3>3 DEF Kept
      <4>3. ~Passed(t, heap[c].owner, i)'
        <5>1. CASE op[t] # "Free"
          BY <1>3, <5>1 DEF Passed
        <5>2. CASE op[t] = "Free"
          <6>1. i \in Nat
            BY <1>0, <4>1, LenProperties DEF TypeOK
          <6>2. heap[c].owner = x => i # next[t]
            BY <1>0, <2>2, <4>2, <5>2 DEF FreeInv
          <6>. QED  BY <1>02, <1>2, <1>3, <2>2, <4>2, <5>2, <6>1, <6>2 DEF Passed
        <5>. QED  BY <5>1, <5>2
      <4>. QED  BY <1>0, <1>2, <2>2, <4>2, <4>3 DEF Kept
    <3>. QED  BY <1>0, <1>1, <1>2, <2>2, <3>1, <3>2, <3>3, OtherBlock
  <2>. QED  BY <2>1, <2>2
<1>8. ASSUME NEW y \in Queries
      PROVE  QueryInv(y)'
  <2>1. ASSUME NEW i \in DOMAIN sources[y], KeptAt(y, i)
        PROVE  \/ heap'[sources[y][i]] = heap[sources[y][i]]
               \/ qThread[y] = t /\ Passed(t, y, i)'
    <3>1. sources[y][i] \in Addrs /\ i \in Nat
      BY <1>0, ElementOfSeq, LenProperties DEF TypeOK
    <3>2. CASE sources[y][i] # a
      BY <1>2, <3>1, <3>2
    <3>3. CASE sources[y][i] = a
      <4>1. y = x /\ qThread[y] = t
        BY <1>01, <1>31, <2>1, <3>3
      <4>2. CASE Passed(t, y, i)
        BY <1>33, <4>1, <4>2
      <4>3. CASE ~Passed(t, y, i)
        <5>1. op[t] = "Free" /\ i = next[t]
          BY <1>31, <2>1, <3>3, <4>1, <4>3
        <5>. QED  BY <1>02, <1>3, <4>1, <5>1 DEF Passed
      <4>. QED  BY <4>2, <4>3
    <3>. QED  BY <3>2, <3>3
  <2>2. qThread'[y] = qThread[y] /\ sources'[y] = sources[y]
    BY <1>0
  <2>3. qThread[y] # t => astSize'[y] = astSize[y]
    BY <1>01, <1>3
  <2>. QED  BY <1>1, <1>32, <1>33, <2>1, <2>2, <2>3, OtherQuery
<1>. QED  BY <1>1, <1>4, <1>5, <1>6, <1>7, <1>8, Conclude

-----------------------------------------------------------------------------
(* The invariant.                                                          *)

LEMMA InitIInv ==
  ASSUME Init
  PROVE  IInv
<1>1. TypeOK
  <2>1. << >> \in Seq(Addrs)
    OBVIOUS
  <2>. QED  BY <2>1, IdInRange DEF Init, TypeOK, Places
<1>2. TableInv
  BY DEF Init, TableInv, IsInjective
<1>3. ASSUME NEW t \in Threads
      PROVE  ThreadInv(t)
  BY RegistryAssumption
  DEF Init, ThreadInv, CallInv, BuildInv, FreeInv, HandInv, Holds, Building, Making, Removing, Checking, Critical
<1>4. ASSUME NEW a \in Addrs
      PROVE  BlockInv(a)
  BY DEF Init, BlockInv
<1>5. ASSUME NEW x \in Queries
      PROVE  QueryInv(x)
  BY DEF Init, QueryInv
<1>. QED  BY <1>1, <1>2, <1>3, <1>4, <1>5 DEF IInv

LEMMA NextIInv ==
  ASSUME IInv, [Next]_vars
  PROVE  IInv'
<1>1. CASE UNCHANGED vars
  <2>1. /\ UNCHANGED <<qThread, astSize, sources, heap, registry, lock, issued>>
        /\ UNCHANGED <<pc, op, q, src, idx, id, next>>
    BY <1>1 DEF vars, calls
  <2>2. TypeOK' /\ TableInv'
    BY <2>1 DEF IInv, TypeOK, TableInv
  <2>3. ASSUME NEW u \in Threads
        PROVE  ThreadInv(u)'
    BY <2>1
    DEF IInv, ThreadInv, CallInv, BuildInv, FreeInv, HandInv, Holds, Building, Listed
  <2>4. ASSUME NEW a \in Addrs
        PROVE  BlockInv(a)'
    BY <2>1 DEF IInv, BlockInv, Passed, Holds, Building, MayBeUnlisted, Listed
  <2>5. ASSUME NEW x \in Queries
        PROVE  QueryInv(x)'
    BY <2>1 DEF IInv, QueryInv, KeptAt, Passed, Room, Building
  <2>. QED  BY <2>2, <2>3, <2>4, <2>5 DEF IInv
<1>2. ASSUME NEW t \in Threads, Start(t)
      PROVE  IInv'
  BY <1>2, QueryCreateStep, QueryFromStep, LookupSteps DEF Start
<1>3. ASSUME NEW t \in Threads, Step(t)
      PROVE  IInv'
  <2>1. CASE ValidateFind(t) \/ ValidateRead(t) \/ ValidateRefuse(t) \/ ValidateAccept(t)
    BY <1>3, <2>1, LookupSteps
  <2>2. CASE Proceed(t) \/ JoinOnFails(t)
    BY <2>2, ProceedStep, JoinOnFailsStep
  <2>3. CASE (\E a \in Addrs : Allocate(t, a)) \/ AllocateFails(t)
    BY <2>3, AllocateStep, AllocateFailsStep
  <2>4. CASE \/ RegisterLock(t) \/ RegisterFails(t) \/ RegisterUnlock(t) \/ KeepFails(t)
             \/ UnregisterLock(t) \/ UnregisterFind(t) \/ UnregisterUnlock(t) \/ FreeNext(t)
    BY <1>3, <2>4, HandSteps
  <2>5. CASE RegisterSource(t) \/ UnregisterErase(t)
    BY <2>5, RegisterSourceStep, UnregisterEraseStep
  <2>6. CASE KeepSource(t) \/ DeleteSource(t) \/ FreeDone(t)
    BY <2>6, KeepSourceStep, DeleteSourceStep, FreeDoneStep
  <2>. QED  BY <1>3, <2>1, <2>2, <2>3, <2>4, <2>5, <2>6 DEF Step
<1>. QED  BY <1>1, <1>2, <1>3 DEF Next

(* The table, the memory and the calls in progress agree, whatever order   *)
(* the threads run in and wherever memory runs out.                        *)
THEOREM Invariant == Spec => []IInv
<1>1. Init => IInv
  BY InitIInv
<1>2. IInv /\ [Next]_vars => IInv'
  BY NextIInv
<1>. QED  BY <1>1, <1>2, PTL DEF Spec

(* The handles, the table and every thread's call keep their types.        *)
THEOREM TypeCorrect == Spec => []TypeOK
<1>1. IInv => TypeOK
  BY DEF IInv
<1>. QED  BY <1>1, Invariant, PTL

(* A lookup that finds a handle in g_hdbActiveSources may dereference it:  *)
(* its block is allocated and belongs to a query that is not freed.        *)
THEOREM ListedAlive == Spec => []ListedIsAlive
<1>1. ASSUME IInv, NEW i \in DOMAIN registry
      PROVE  LET b == heap[registry[i]]
             IN b # NoAddr /\ qThread[b.owner] # NoThread
  <2>1. registry[i] \in Addrs
    BY <1>1, ElementOfSeq, LenProperties DEF IInv, TypeOK
  <2>2. heap[registry[i]] # NoAddr
    BY <1>1 DEF IInv, TableInv
  <2>3. qThread[heap[registry[i]].owner] \in Threads
    BY <1>1, <2>1, <2>2 DEF IInv, BlockInv
  <2>. QED  BY <2>2, <2>3, RegistryAssumption
<1>2. IInv => ListedIsAlive
  BY <1>1 DEF ListedIsAlive
<1>. QED  BY <1>2, Invariant, PTL

(* HdbDllValidateQuerySource reads allocated memory only, and              *)
(* HdbDllUnregisterSource erases the entry it looked up.                   *)
THEOREM NoStale == Spec => []NoStaleAccess
<1>1. ASSUME IInv, NEW t \in Threads
      PROVE  /\ pc[t] = "read" => heap[src[t]] # NoAddr
             /\ pc[t] = "erase" => idx[t] \in DOMAIN registry /\ registry[idx[t]] = src[t]
  <2>1. HandInv(t) /\ TableInv
    BY <1>1 DEF IInv, ThreadInv
  <2>. QED  BY <2>1 DEF HandInv, TableInv, Listed
<1>2. IInv => NoStaleAccess
  BY <1>1 DEF NoStaleAccess
<1>. QED  BY <1>2, Invariant, PTL

(* A handle that passed validation is a source the query itself keeps, and *)
(* the id read from it names a source of the query's AST that no other     *)
(* handle of the query names.                                              *)
THEOREM ValidatedOwn == Spec => []ValidatedIsOwn
<1>1. ASSUME IInv, NEW t \in Threads, pc[t] = "checked"
      PROVE  LET s == sources[q[t]]
             IN /\ \E i \in DOMAIN s : s[i] = src[t]
                /\ id[t] < astSize[q[t]]
                /\ \A i \in DOMAIN s : heap[s[i]].id = id[t] => s[i] = src[t]
  <2>. DEFINE x == q[t]
              s == sources[x]
  <2>1. /\ x \in Queries /\ qThread[x] = t /\ src[t] \in Addrs /\ op[t] \in {"Join", "Use"}
        /\ heap[src[t]] # NoAddr /\ heap[src[t]].owner = x /\ heap[src[t]].id = id[t]
        /\ t # NoThread
    <3>1. CallInv(t) /\ HandInv(t) /\ t # NoThread
      BY <1>1, RegistryAssumption DEF IInv, ThreadInv
    <3>2. x \in Queries /\ qThread[x] = t /\ src[t] \in Addrs /\ op[t] \in {"Join", "Use"}
      BY <1>1, <3>1 DEF CallInv, Checking
    <3>. QED  BY <1>1, <3>1, <3>2 DEF HandInv
  <2>2. ~Building(t) /\ \A i : ~Passed(t, x, i)
    BY <1>1, <2>1 DEF Building, Passed, Making, Removing
  <2>3. PICK i \in DOMAIN s : s[i] = src[t]
    BY <1>1, <2>1, <2>2 DEF IInv, BlockInv
  <2>4. \A k \in DOMAIN s :
          /\ KeptAt(x, k)
          /\ \A j \in DOMAIN s : k < j => heap[s[k]].id < heap[s[j]].id
    BY <1>1, <2>1, <2>2 DEF IInv, QueryInv
  <2>5. id[t] < astSize[x]
    BY <2>1, <2>2, <2>3, <2>4 DEF KeptAt, Room
  <2>6. ASSUME NEW j \in DOMAIN s, heap[s[j]].id = id[t]
        PROVE  s[j] = src[t]
    <3>1. i \in Nat /\ j \in Nat /\ id[t] \in Nat
      BY <1>1, <2>1, LenProperties DEF IInv, TypeOK, SourceIds
    <3>2. ~(i < j) /\ ~(j < i)
      BY <2>1, <2>3, <2>4, <2>6, <3>1
    <3>. QED  BY <2>3, <3>1, <3>2
  <2>. QED  BY <2>3, <2>5, <2>6
<1>2. IInv => ValidatedIsOwn
  BY <1>1 DEF ValidatedIsOwn
<1>. QED  BY <1>2, Invariant, PTL

(* Between calls nothing leaks and nothing dangles: a block is allocated   *)
(* exactly when it is listed, once, and its query keeps it; the handles of *)
(* a query name sources of its AST, each a later one.                      *)
THEOREM QuietExact == Spec => []QuietIsExact
<1>1. ASSUME IInv, \A t \in Threads : pc[t] = "idle"
      PROVE  QuietIsExact
  <2>1. \A t \in Threads : op[t] = "none" /\ ~Holds(t) /\ ~Building(t) /\ ~MayBeUnlisted(t)
                         /\ \A x, i : ~Passed(t, x, i)
    BY <1>1 DEF Passed, IInv, ThreadInv, CallInv, Holds, Building, MayBeUnlisted, Making, Removing
  <2>2. IsInjective(registry)
    BY <1>1 DEF IInv, TableInv
  <2>3. ASSUME NEW a \in Addrs, heap[a] # NoAddr
        PROVE  a \in Range(registry) /\ a \in Range(sources[heap[a].owner])
    <3>1. Listed(a)
      BY <1>1, <2>1, <2>3 DEF IInv, BlockInv
    <3>2. \E n \in DOMAIN sources[heap[a].owner] : sources[heap[a].owner][n] = a
      BY <1>1, <2>1, <2>3 DEF IInv, BlockInv
    <3>. QED  BY <3>1, <3>2 DEF Listed, Range
  <2>4. ASSUME NEW a \in Addrs, a \in Range(registry)
        PROVE  heap[a] # NoAddr
    BY <1>1, <2>4 DEF IInv, TableInv, Range
  <2>5. ASSUME NEW x \in Queries
        PROVE  \A i \in DOMAIN sources[x] :
                 LET b == heap[sources[x][i]]
                 IN /\ b # NoAddr /\ b.owner = x /\ b.id < astSize[x]
                    /\ \A j \in 1 .. i - 1 : heap[sources[x][j]].id < b.id
    <3>1. QueryInv(x) /\ qThread[x] \in Threads \cup {NoThread}
      BY <1>1 DEF IInv, TypeOK
    <3>2. CASE qThread[x] = NoThread
      BY <3>1, <3>2 DEF QueryInv
    <3>3. CASE qThread[x] # NoThread
      <4>1. \A i \in DOMAIN sources[x] :
              /\ KeptAt(x, i)
              /\ \A j \in DOMAIN sources[x] : i < j => heap[sources[x][i]].id < heap[sources[x][j]].id
        BY <2>1, <3>1, <3>3 DEF QueryInv
      <4>2. Room(x) = astSize[x]
        BY <2>1, <3>1, <3>3 DEF Room
      <4>3. \A i \in DOMAIN sources[x] : \A j \in 1 .. i - 1 : j \in DOMAIN sources[x] /\ j < i
        BY <1>1, LenProperties DEF IInv, TypeOK
      <4>. QED  BY <4>1, <4>2, <4>3 DEF KeptAt
    <3>. QED  BY <3>2, <3>3
  <2>. QED  BY <2>2, <2>3, <2>4, <2>5 DEF QuietIsExact
<1>2. IInv => QuietIsExact
  BY <1>1 DEF QuietIsExact
<1>. QED  BY <1>2, Invariant, PTL

=============================================================================
