---------------------------- MODULE HdbResultProofs ----------------------------
(***************************************************************************)
(* Proofs about HdbResult, for any tables, limits and buffers: what the    *)
(* decoders make of a response is what the encoders were given, so that    *)
(* the cursor and the getters of the DLL show the page of the database.    *)
(***************************************************************************)
EXTENDS HdbResult, SequenceTheorems, WellFoundedInduction, TLAPS

-----------------------------------------------------------------------------
(* Naturals and loops.                                                     *)

(* A set of naturals has a least element.                                  *)
LEMMA LeastNatural ==
  ASSUME NEW S, S \subseteq Nat, S # {}
  PROVE  \E x \in S : \A y \in S : x <= y
<1>1. PICK x \in S : \A y \in S : ~(<<y, x>> \in OpToRel(<, Nat))
  BY NatLessThanWellFounded, WFMin
<1>2. \A y \in S : ~(y < x)
  BY <1>1 DEF OpToRel
<1>. QED  BY <1>2

(* What holds of 0 and is passed on up to n holds of all up to n.          *)
LEMMA UpTo ==
  ASSUME NEW n \in Nat, NEW S, 0 \in S,
         \A i \in 0 .. n : i < n /\ i \in S => i + 1 \in S
  PROVE  0 .. n \subseteq S
<1>. DEFINE bad == {i \in 0 .. n : i \notin S}
<1>1. SUFFICES ASSUME bad # {} PROVE FALSE
  OBVIOUS
<1>2. PICK i \in bad : \A k \in bad : i <= k
  <2>1. bad \subseteq Nat
    OBVIOUS
  <2>. HIDE DEF bad
  <2>. QED  BY <1>1, <2>1, LeastNatural
<1>3. i \in 0 .. n /\ i # 0
  BY <1>2
<1>4. i - 1 \in 0 .. n /\ i - 1 < n /\ i - 1 \notin bad
  BY <1>2, <1>3
<1>5. i - 1 + 1 \in S
  BY <1>4
<1>. QED  BY <1>2, <1>3, <1>5

(* Two loops that start and go on alike are alike.                         *)
Alike(n, f, g) == f[0] = g[0] /\ \A i \in 1 .. n : f[i - 1] = g[i - 1] => f[i] = g[i]

(* Two loops that start alike and go on alike agree after every pass.      *)
LEMMA SameLoop ==
  ASSUME NEW n \in Nat, NEW f, NEW g, f[0] = g[0],
         \A i \in 1 .. n : f[i - 1] = g[i - 1] => f[i] = g[i]
  PROVE  \A i \in 0 .. n : f[i] = g[i]
<1>. DEFINE S == {i \in 0 .. n : f[i] = g[i]}
<1>1. 0 \in S
  OBVIOUS
<1>2. ASSUME NEW i \in 0 .. n, i < n, i \in S PROVE i + 1 \in S
  <2>1. i + 1 \in 1 .. n /\ i + 1 - 1 = i
    BY <1>2
  <2>2. f[i + 1] = g[i + 1]
    BY <1>2, <2>1
  <2>. QED  BY <2>1, <2>2
<1>3. 0 .. n \subseteq S
  <2>. HIDE DEF S
  <2>. QED  BY <1>1, <1>2, UpTo
<1>. QED  BY <1>3

(* The same, of loops that are Alike.                                      *)
LEMMA AlikeLoops ==
  ASSUME NEW n \in Nat, NEW f, NEW g, Alike(n, f, g)
  PROVE  \A i \in 0 .. n : f[i] = g[i]
BY SameLoop DEF Alike

-----------------------------------------------------------------------------
(* A part that stands in a sequence of units behind the first at of them.  *)

Units == Seq(Nat)

Stands(u, at, part) ==
  /\ at + Len(part) <= Len(u)
  /\ \A j \in 1 .. Len(part) : u[at + j] = part[j]

(* Sequences of units join to one of the size of both.                     *)
LEMMA JoinSize ==
  ASSUME NEW a \in Units, NEW b \in Units
  PROVE  a \o b \in Units /\ Len(a \o b) = Len(a) + Len(b) /\ Len(a) \in Nat /\ Len(b) \in Nat
BY DEF Units

(* A sequence stands in itself.                                            *)
LEMMA StandsItself ==
  ASSUME NEW u \in Units
  PROVE  Stands(u, 0, u)
BY DEF Stands, Units

(* Parts that were joined stand one behind the other.                      *)
LEMMA StandsJoined ==
  ASSUME NEW u \in Units, NEW at \in Nat, NEW a \in Units, NEW b \in Units,
         Stands(u, at, a \o b)
  PROVE  Stands(u, at, a) /\ Stands(u, at + Len(a), b)
<1>1. Len(a \o b) = Len(a) + Len(b) /\ Len(a) \in Nat /\ Len(b) \in Nat /\ Len(u) \in Nat
  BY DEF Units
<1>2. Stands(u, at, a)
  <2>1. ASSUME NEW j \in 1 .. Len(a) PROVE u[at + j] = a[j]
    <3>1. j \in 1 .. Len(a \o b) /\ (a \o b)[j] = a[j]
      BY <1>1 DEF Units
    <3>. QED  BY <3>1 DEF Stands
  <2>. QED  BY <1>1, <2>1 DEF Stands
<1>3. Stands(u, at + Len(a), b)
  <2>1. ASSUME NEW j \in 1 .. Len(b) PROVE u[at + Len(a) + j] = b[j]
    <3>1. Len(a) + j \in 1 .. Len(a \o b) /\ (a \o b)[Len(a) + j] = b[j]
      BY <1>1 DEF Units
    <3>2. u[at + (Len(a) + j)] = (a \o b)[Len(a) + j]
      BY <3>1 DEF Stands
    <3>. QED  BY <1>1, <3>1, <3>2
  <2>. QED  BY <1>1, <2>1 DEF Stands
<1>. QED  BY <1>2, <1>3

(* It still does if something is joined behind.                            *)
LEMMA StandsBefore ==
  ASSUME NEW a \in Units, NEW b \in Units, NEW at \in Nat, NEW part \in Units,
         Stands(a, at, part)
  PROVE  Stands(a \o b, at, part)
<1>1. Len(a \o b) = Len(a) + Len(b) /\ Len(a) \in Nat /\ Len(b) \in Nat /\ Len(part) \in Nat
  BY DEF Units
<1>2. ASSUME NEW j \in 1 .. Len(part) PROVE (a \o b)[at + j] = part[j]
  <2>1. at + j \in 1 .. Len(a)
    BY <1>1 DEF Stands
  <2>2. (a \o b)[at + j] = a[at + j]
    BY <2>1 DEF Units
  <2>. QED  BY <2>2 DEF Stands
<1>. QED  BY <1>1, <1>2 DEF Stands

(* The second of two joined sequences stands behind the first.             *)
LEMMA StandsBehind ==
  ASSUME NEW a \in Units, NEW b \in Units
  PROVE  Stands(a \o b, Len(a), b)
BY DEF Stands, Units

(* What stands in a part stands in the whole.                              *)
LEMMA StandsWithin ==
  ASSUME NEW u \in Units, NEW at \in Nat, NEW a \in Units, Stands(u, at, a),
         NEW k \in Nat, NEW part \in Units, Stands(a, k, part)
  PROVE  Stands(u, at + k, part)
<1>1. Len(a) \in Nat /\ Len(u) \in Nat /\ Len(part) \in Nat
  BY DEF Units
<1>2. ASSUME NEW j \in 1 .. Len(part) PROVE u[at + k + j] = part[j]
  <2>1. k + j \in 1 .. Len(a)
    BY <1>1 DEF Stands
  <2>2. u[at + (k + j)] = a[k + j]
    BY <2>1 DEF Stands
  <2>3. a[k + j] = part[j]
    BY DEF Stands
  <2>. QED  BY <2>2, <2>3
<1>. QED  BY <1>1, <1>2 DEF Stands

(* What stands there can be cut out.                                       *)
LEMMA StandsCut ==
  ASSUME NEW u \in Units, NEW at \in Nat, NEW part \in Units, Stands(u, at, part)
  PROVE  SubSeq(u, at + 1, at + Len(part)) = part
<1>. DEFINE cut == SubSeq(u, at + 1, at + Len(part))
<1>1. Len(part) \in Nat /\ Len(u) \in Nat /\ at + Len(part) <= Len(u)
  BY DEF Units, Stands
<1>2. cut \in Units /\ Len(cut) = Len(part)
  BY <1>1 DEF Units
<1>3. ASSUME NEW j \in 1 .. Len(part) PROVE cut[j] = part[j]
  <2>1. cut[j] = u[at + j]
    BY <1>1 DEF Units
  <2>. QED  BY <2>1 DEF Stands
<1>. HIDE DEF cut
<1>4. cut = part
  BY <1>2, <1>3, SeqEqual DEF Units
<1>. QED  BY <1>4 DEF cut

-----------------------------------------------------------------------------
(* FlattenSeq.                                                             *)

Flattens(f, parts) ==
  f = [i \in 1 .. Len(parts) |-> IF i = 1 THEN parts[i] ELSE f[i - 1] \o parts[i]]

(* The parts joined up to each of them.                                    *)
Joins(f, parts) ==
  /\ f \in [0 .. Len(parts) -> Units]
  /\ f[0] = <<>>
  /\ \A i \in 1 .. Len(parts) : f[i] = f[i - 1] \o parts[i]

(* Any parts can be joined one by one.                                     *)
LEMMA JoinsExist ==
  ASSUME NEW parts \in Seq(Units)
  PROVE  \E f : Joins(f, parts)
<1>. DEFINE Joined(f, m) == /\ f \in [0 .. m -> Units] /\ f[0] = <<>>
                            /\ \A i \in 1 .. m : f[i] = f[i - 1] \o parts[i]
            n == Len(parts)
            S == {i \in 0 .. n : \E f : Joined(f, i)}
<1>1. n \in Nat
  OBVIOUS
<1>2. 0 \in S
  <2>1. Joined([i \in 0 .. 0 |-> <<>>], 0)
    BY DEF Units
  <2>2. 0 \in 0 .. n
    BY <1>1
  <2>. HIDE DEF Joined, n
  <2>. QED  BY <2>1, <2>2
<1>3. ASSUME NEW i \in 0 .. n, i < n, i \in S PROVE i + 1 \in S
  <2>1. PICK f : Joined(f, i)
    BY <1>3
  <2>. DEFINE g == [k \in 0 .. i + 1 |-> IF k = i + 1 THEN f[i] \o parts[i + 1] ELSE f[k]]
  <2>2. f[i] \o parts[i + 1] \in Units
    <3>1. f[i] \in Units /\ parts[i + 1] \in Units
      BY <1>1, <1>3, <2>1
    <3>. QED  BY <3>1 DEF Units
  <2>3. g \in [0 .. i + 1 -> Units] /\ g[0] = <<>>
    BY <2>1, <2>2
  <2>4. ASSUME NEW k \in 1 .. i + 1 PROVE g[k] = g[k - 1] \o parts[k]
    <3>1. CASE k = i + 1
      BY <3>1
    <3>2. CASE k # i + 1
      <4>1. k \in 1 .. i /\ k - 1 \in 0 .. i /\ k \in 0 .. i + 1 /\ k - 1 \in 0 .. i + 1
        BY <3>2
      <4>. QED  BY <2>1, <3>2, <4>1
    <3>. QED  BY <3>1, <3>2
  <2>5. Joined(g, i + 1)
    <3>. HIDE DEF g
    <3>. QED  BY <2>3, <2>4
  <2>6. i + 1 \in 0 .. n
    BY <1>1, <1>3
  <2>. HIDE DEF Joined
  <2>. QED  BY <2>5, <2>6
<1>4. n \in S
  <2>1. 0 .. n \subseteq S
    <3>. HIDE DEF S, n
    <3>. QED  BY <1>1, <1>2, <1>3, UpTo
  <2>2. n \in 0 .. n
    BY <1>1
  <2>. HIDE DEF S, n
  <2>. QED  BY <2>1, <2>2
<1>. QED  BY <1>4 DEF Joins

(* FlattenSeq is the last of these joins.                                  *)
LEMMA FlattenJoins ==
  ASSUME NEW parts \in Seq(Units), NEW f, Joins(f, parts)
  PROVE  FlattenSeq(parts) = f[Len(parts)]
<1>1. CASE Len(parts) = 0
  BY <1>1 DEF FlattenSeq, Joins
<1>2. CASE Len(parts) # 0
  <2>. DEFINE n == Len(parts)
              h == CHOOSE g : Flattens(g, parts)
              c == [i \in 1 .. n |-> f[i]]
              d == [i \in 0 .. n |-> IF i = 0 THEN <<>> ELSE h[i]]
  <2>1. n \in Nat /\ n >= 1
    BY <1>2
  <2>2. ASSUME NEW i \in 1 .. n PROVE f[i] = IF i = 1 THEN parts[i] ELSE f[i - 1] \o parts[i]
    <3>1. parts[i] \in Units
      OBVIOUS
    <3>2. CASE i = 1
      <4>1. f[1] = f[0] \o parts[1]
        BY <2>1 DEF Joins
      <4>2. <<>> \o parts[1] = parts[1]
        BY <3>1, <3>2 DEF Units
      <4>. QED  BY <3>2, <4>1, <4>2 DEF Joins
    <3>3. CASE i # 1
      BY <3>3 DEF Joins
    <3>. QED  BY <3>2, <3>3
  <2>3. Flattens(c, parts)
    <3>1. ASSUME NEW i \in 1 .. n, i # 1 PROVE c[i - 1] = f[i - 1]
      <4>1. i - 1 \in 1 .. n
        BY <2>1, <3>1
      <4>. QED  BY <4>1
    <3>. QED  BY <2>2, <3>1 DEF Flattens
  <2>4. Flattens(h, parts)
    BY <2>3
  <2>5. FlattenSeq(parts) = h[n]
    BY <1>2 DEF FlattenSeq, Flattens
  <2>. HIDE DEF h, n
  <2>6. \A i \in 1 .. n : h[i] = IF i = 1 THEN parts[i] ELSE h[i - 1] \o parts[i]
    BY <2>4 DEF Flattens, n
  <2>7. ASSUME NEW i \in 1 .. n, d[i - 1] = f[i - 1] PROVE d[i] = f[i]
    <3>1. i \in 0 .. n /\ i - 1 \in 0 .. n /\ i # 0
      BY <2>1
    <3>2. CASE i = 1
      BY <2>2, <2>6, <3>1, <3>2
    <3>3. CASE i # 1
      <4>1. h[i - 1] = f[i - 1]
        BY <2>7, <3>1, <3>3
      <4>. QED  BY <2>2, <2>6, <3>1, <3>3, <4>1
    <3>. QED  BY <3>2, <3>3
  <2>8. d[0] = f[0]
    BY <2>1 DEF Joins
  <2>9. \A i \in 0 .. n : d[i] = f[i]
    <3>1. n \in Nat
      BY <2>1
    <3>2. \A i \in 1 .. n : d[i - 1] = f[i - 1] => d[i] = f[i]
      BY <2>7
    <3>. HIDE DEF d, c
    <3>3. Alike(n, d, f)
      BY <2>8, <3>2 DEF Alike
    <3>. QED  BY <3>1, <3>3, AlikeLoops
  <2>10. h[n] = f[n]
    BY <2>1, <2>9
  <2>. QED  BY <2>5, <2>10 DEF n
<1>. QED  BY <1>1, <1>2

(* Each part stands in the whole, behind those before it.                  *)
LEMMA PartStands ==
  ASSUME NEW parts \in Seq(Units), NEW f, Joins(f, parts), NEW i \in 1 .. Len(parts)
  PROVE  /\ FlattenSeq(parts) \in Units
         /\ Len(f[i - 1]) \in Nat /\ Len(f[i]) = Len(f[i - 1]) + Len(parts[i])
         /\ Stands(FlattenSeq(parts), Len(f[i - 1]), parts[i])
<1>. DEFINE n == Len(parts)
            at == Len(f[i - 1])
            S == {k \in 0 .. n : k >= i => Stands(f[k], at, parts[i])}
<1>1. n \in Nat /\ i \in 1 .. n /\ i - 1 \in 0 .. n /\ n \in 0 .. n /\ parts[i] \in Units
  OBVIOUS
<1>2. \A k \in 0 .. n : f[k] \in Units
  BY DEF Joins
<1>3. at \in Nat /\ Len(f[i]) = at + Len(parts[i])
  <2>1. f[i] = f[i - 1] \o parts[i]
    BY DEF Joins
  <2>2. f[i - 1] \in Units
    BY <1>1, <1>2
  <2>3. Len(f[i - 1] \o parts[i]) = Len(f[i - 1]) + Len(parts[i]) /\ Len(f[i - 1]) \in Nat
    BY <1>1, <2>2, JoinSize
  <2>. QED  BY <2>1, <2>3
<1>4. ASSUME NEW k \in 0 .. n, k < n, k \in S PROVE k + 1 \in S
  <2>1. k + 1 \in 1 .. n /\ k + 1 \in 0 .. n /\ k + 1 - 1 = k
    BY <1>1, <1>4
  <2>2. f[k + 1] = f[k] \o parts[k + 1] /\ f[k] \in Units /\ parts[k + 1] \in Units
    <3>. DEFINE m == k + 1
    <3>1. m \in 1 .. Len(parts)
      BY <2>1
    <3>2. f[m] = f[m - 1] \o parts[m]
      <4>. HIDE DEF m, S
      <4>. QED  BY <3>1 DEF Joins
    <3>3. parts[m] \in Units
      BY <3>1
    <3>4. m - 1 = k
      BY <2>1
    <3>5. f[m] = f[k] \o parts[m] /\ f[k] \in Units
      <4>. HIDE DEF m, S
      <4>. QED  BY <1>2, <3>2, <3>4
    <3>. QED  BY <3>3, <3>5
  <2>3. CASE k + 1 = i
    <3>1. f[k + 1] = f[k] \o parts[i] /\ at = Len(f[k])
      <4>1. i - 1 = k
        BY <2>1, <2>3
      <4>. HIDE DEF S
      <4>. QED  BY <2>1, <2>2, <2>3, <4>1
    <3>2. Stands(f[k + 1], at, parts[i])
      BY <1>1, <2>2, <3>1, StandsBehind
    <3>. QED  BY <2>1, <3>2
  <2>4. CASE k >= i
    <3>1. Stands(f[k], at, parts[i])
      BY <1>4, <2>4
    <3>2. Stands(f[k + 1], at, parts[i])
      <4>. HIDE DEF at
      <4>. QED  BY <1>1, <1>3, <2>2, <3>1, StandsBefore
    <3>. QED  BY <2>1, <3>2
  <2>5. CASE k + 1 < i
    BY <2>1, <2>5
  <2>. QED  BY <1>1, <2>1, <2>3, <2>4, <2>5
<1>5. 0 \in S
  BY <1>1
<1>6. n \in S
  <2>1. 0 .. n \subseteq S
    <3>. HIDE DEF S, n
    <3>. QED  BY <1>1, <1>4, <1>5, UpTo
  <2>. QED  BY <1>1, <2>1
<1>7. FlattenSeq(parts) = f[n]
  BY FlattenJoins
<1>8. Stands(f[n], at, parts[i])
  BY <1>1, <1>6
<1>. QED  BY <1>1, <1>2, <1>3, <1>7, <1>8

-----------------------------------------------------------------------------
(* The loops of the decoders are what goes from pass to pass as they do.   *)

(* ReadColumns, as the passes of its loop.                                 *)
LEMMA ColumnsRepeat ==
  ASSUME NEW u, NEW n \in Nat, NEW g, g[0] = Reader(1),
         \A i \in 1 .. n : g[i] = ReadColumn(u, g[i - 1])
  PROVE  ReadColumns(u, n) = g[n]
<1>. DEFINE Loops(h) == h = [i \in 0 .. n |-> IF i = 0 THEN Reader(1) ELSE ReadColumn(u, h[i - 1])]
            f == CHOOSE h : Loops(h)
            c == [i \in 0 .. n |-> g[i]]
<1>1. ReadColumns(u, n) = f[n]
  BY DEF ReadColumns, Repeat
<1>2. Loops(c)
  <2>1. ASSUME NEW i \in 0 .. n PROVE c[i] = IF i = 0 THEN Reader(1) ELSE ReadColumn(u, c[i - 1])
    BY i # 0 => i - 1 \in 0 .. n /\ i \in 1 .. n
  <2>. QED  BY <2>1
<1>3. Loops(f)
  <2>. HIDE DEF Loops, c
  <2>. QED  BY <1>2
<1>. HIDE DEF f
<1>4. ASSUME NEW i \in 1 .. n, f[i - 1] = g[i - 1] PROVE f[i] = g[i]
  BY <1>3, <1>4, i \in 0 .. n /\ i # 0
<1>5. f[0] = g[0]
  BY <1>3, 0 \in 0 .. n
<1>6. \A i \in 0 .. n : f[i] = g[i]
  <2>. HIDE DEF Loops, c
  <2>. QED  BY <1>4, <1>5, SameLoop
<1>. QED  BY <1>1, <1>6, n \in 0 .. n

(* ReadCells, as the passes of its loop.                                   *)
LEMMA CellsRepeat ==
  ASSUME NEW u, NEW at, NEW n \in Nat, NEW g, g[0] = Reader(at),
         \A i \in 1 .. n : g[i] = ReadCell(u, g[i - 1])
  PROVE  ReadCells(u, at, n) = g[n]
<1>. DEFINE Loops(h) == h = [i \in 0 .. n |-> IF i = 0 THEN Reader(at) ELSE ReadCell(u, h[i - 1])]
            f == CHOOSE h : Loops(h)
            c == [i \in 0 .. n |-> g[i]]
<1>1. ReadCells(u, at, n) = f[n]
  BY DEF ReadCells, Repeat
<1>2. Loops(c)
  <2>1. ASSUME NEW i \in 0 .. n PROVE c[i] = IF i = 0 THEN Reader(at) ELSE ReadCell(u, c[i - 1])
    BY i # 0 => i - 1 \in 0 .. n /\ i \in 1 .. n
  <2>. QED  BY <2>1
<1>3. Loops(f)
  <2>. HIDE DEF Loops, c
  <2>. QED  BY <1>2
<1>. HIDE DEF f
<1>4. ASSUME NEW i \in 1 .. n, f[i - 1] = g[i - 1] PROVE f[i] = g[i]
  BY <1>3, <1>4, i \in 0 .. n /\ i # 0
<1>5. f[0] = g[0]
  BY <1>3, 0 \in 0 .. n
<1>6. \A i \in 0 .. n : f[i] = g[i]
  <2>. HIDE DEF Loops, c
  <2>. QED  BY <1>4, <1>5, SameLoop
<1>. QED  BY <1>1, <1>6, n \in 0 .. n

(* ReadRows, as the passes of its loop.                                    *)
LEMMA RowsRepeat ==
  ASSUME NEW u, NEW columns, NEW n \in Nat, NEW g, g[0] = Reader(1),
         \A i \in 1 .. n : g[i] = ReadRow(u, columns, g[i - 1])
  PROVE  ReadRows(u, columns, n) = g[n]
<1>. DEFINE Loops(h) == h = [i \in 0 .. n |-> IF i = 0 THEN Reader(1) ELSE ReadRow(u, columns, h[i - 1])]
            f == CHOOSE h : Loops(h)
            c == [i \in 0 .. n |-> g[i]]
<1>1. ReadRows(u, columns, n) = f[n]
  BY DEF ReadRows, Repeat
<1>2. Loops(c)
  <2>1. ASSUME NEW i \in 0 .. n PROVE c[i] = IF i = 0 THEN Reader(1) ELSE ReadRow(u, columns, c[i - 1])
    BY i # 0 => i - 1 \in 0 .. n /\ i \in 1 .. n
  <2>. QED  BY <2>1
<1>3. Loops(f)
  <2>. HIDE DEF Loops, c
  <2>. QED  BY <1>2
<1>. HIDE DEF f
<1>4. ASSUME NEW i \in 1 .. n, f[i - 1] = g[i - 1] PROVE f[i] = g[i]
  BY <1>3, <1>4, i \in 0 .. n /\ i # 0
<1>5. f[0] = g[0]
  BY <1>3, 0 \in 0 .. n
<1>6. \A i \in 0 .. n : f[i] = g[i]
  <2>. HIDE DEF Loops, c
  <2>. QED  BY <1>4, <1>5, SameLoop
<1>. QED  BY <1>1, <1>6, n \in 0 .. n

-----------------------------------------------------------------------------
(* A decoder that stands before what an encoder wrote reads it.            *)

HasRead(r, at, items) == r = [ok |-> TRUE, at |-> at, items |-> items]

(* A word before or behind a text makes it one unit longer.                *)
LEMMA WordJoined ==
  ASSUME NEW word \in Nat, NEW text \in Units
  PROVE  /\ <<word>> \in Units /\ Len(<<word>>) = 1
         /\ <<word>> \o text \in Units /\ Len(<<word>> \o text) = 1 + Len(text)
         /\ text \o <<word>> \in Units /\ Len(text \o <<word>>) = Len(text) + 1
<1>1. <<word>> \in Units /\ Len(<<word>>) = 1
  BY DEF Units
<1>. QED  BY <1>1 DEF Units

(* A word is read where it stands.                                         *)
LEMMA WordRead ==
  ASSUME NEW u \in Units, NEW at \in Nat, NEW word \in Nat, Stands(u, at, <<word>>)
  PROVE  HasWord(u, at) /\ u[at + 1] = word
<1>1. Len(<<word>>) = 1 /\ <<word>>[1] = word /\ Len(u) \in Nat
  BY DEF Units
<1>. QED  BY <1>1 DEF Stands, HasWord

(* A word and what stands behind it.                                       *)
LEMMA HeadStands ==
  ASSUME NEW u \in Units, NEW at \in Nat, NEW word \in Nat, NEW rest \in Units,
         NEW code, code = <<word>> \o rest, Stands(u, at, code)
  PROVE  HasWord(u, at) /\ u[at + 1] = word /\ Stands(u, at + 1, rest)
<1>. DEFINE head == <<word>>
<1>1. head \in Units /\ Len(head) = 1
  BY WordJoined
<1>2. Stands(u, at, head \o rest)
  OBVIOUS
<1>. HIDE DEF head
<1>3. Stands(u, at, head) /\ Stands(u, at + Len(head), rest)
  BY <1>1, <1>2, StandsJoined
<1>4. HasWord(u, at) /\ u[at + 1] = word
  BY <1>3, WordRead DEF head
<1>. QED  BY <1>1, <1>3, <1>4

(* A text takes one unit more than its characters.                         *)
LEMMA TextSize ==
  ASSUME NEW text \in Units
  PROVE  EncodeText(text) \in Units /\ Len(EncodeText(text)) = 1 + Len(text) /\ Len(text) \in Nat
<1>1. Len(text) \in Nat
  BY DEF Units
<1>2. <<Len(text)>> \in Units /\ Len(<<Len(text)>>) = 1
  BY <1>1 DEF Units
<1>. QED  BY <1>1, <1>2 DEF EncodeText, Units

(* A text that fits a cell is read where it stands.                        *)
LEMMA TextRead ==
  ASSUME NEW u \in Units, NEW at \in Nat, NEW text \in Units, Len(text) <= MaxCell,
         Stands(u, at, EncodeText(text))
  PROVE  /\ HasText(u, at) /\ TextAt(u, at) = text
         /\ AfterText(u, at) = at + Len(EncodeText(text))
<1>1. Len(text) \in Nat /\ Len(u) \in Nat /\ Len(EncodeText(text)) = 1 + Len(text)
  BY TextSize DEF Units
<1>2. <<Len(text)>> \in Units /\ Len(<<Len(text)>>) = 1
  BY <1>1 DEF Units
<1>3. Stands(u, at, <<Len(text)>>) /\ Stands(u, at + 1, text)
  BY <1>2, StandsJoined DEF EncodeText
<1>4. HasWord(u, at) /\ u[at + 1] = Len(text)
  BY <1>1, <1>3, WordRead
<1>5. at + 1 + Len(text) <= Len(u)
  BY <1>3 DEF Stands
<1>6. HasText(u, at)
  BY <1>1, <1>4, <1>5 DEF HasText
<1>7. SubSeq(u, at + 1 + 1, at + 1 + Len(text)) = text
  BY <1>3, StandsCut
<1>8. TextAt(u, at) = text
  <2>1. at + 1 + 1 = at + 2
    OBVIOUS
  <2>. QED  BY <1>4, <1>7, <2>1 DEF TextAt
<1>. QED  BY <1>1, <1>4, <1>6, <1>8 DEF AfterText

(* What EncodeSchema and EncodeRow write for one column and one cell.      *)
EncodeColumn(column) == EncodeText(column.name) \o <<column.fieldType>>
EncodeCell(cell) == <<IF cell.isNull THEN 1 ELSE 0>> \o EncodeText(cell.value)

Columns == [name : Units, fieldType : FieldTypes]
Values  == [isNull : BOOLEAN, value : Units]

(* A column is read where it stands.                                       *)
LEMMA ColumnRead ==
  ASSUME NEW u \in Units, NEW r, r.ok, r.at \in Nat,
         NEW column \in Columns, Len(column.name) <= MaxCell,
         Stands(u, r.at, EncodeColumn(column))
  PROVE  /\ ReadColumn(u, r) = [ok |-> TRUE, at |-> r.at + Len(EncodeColumn(column)),
                                items |-> Append(r.items, column)]
         /\ EncodeColumn(column) \in Units
         /\ Len(EncodeColumn(column)) = 2 + Len(column.name)
<1>. DEFINE text == EncodeText(column.name)
            type == column.fieldType
<1>1. column.name \in Units /\ type \in FieldTypes /\ type \in Nat
      /\ column = [name |-> column.name, fieldType |-> type]
  BY DEF Columns, FieldTypes, HDB_FT_INT32, HDB_FT_INT64, HDB_FT_CHAR_ARRAY, HDB_FT_TIMESTAMP_MS
<1>2. text \in Units /\ Len(text) = 1 + Len(column.name) /\ Len(column.name) \in Nat
  BY <1>1, TextSize
<1>3. <<type>> \in Units /\ Len(<<type>>) = 1
  BY <1>1 DEF Units
<1>. HIDE DEF text, type
<1>4. EncodeColumn(column) = text \o <<type>>
  BY DEF EncodeColumn, text, type
<1>5. EncodeColumn(column) \in Units /\ Len(EncodeColumn(column)) = Len(text) + 1
  BY <1>1, <1>2, <1>4, WordJoined
<1>6. Stands(u, r.at, text) /\ Stands(u, r.at + Len(text), <<type>>)
  BY <1>2, <1>3, <1>4, StandsJoined
<1>7. HasText(u, r.at) /\ TextAt(u, r.at) = column.name /\ AfterText(u, r.at) = r.at + Len(text)
  BY <1>1, <1>6, TextRead DEF text
<1>8. r.at + Len(text) \in Nat
  BY <1>2
<1>9. HasWord(u, r.at + Len(text)) /\ u[r.at + Len(text) + 1] = type
  BY <1>1, <1>6, <1>8, WordRead
<1>10. r.at + Len(text) + 1 = r.at + Len(EncodeColumn(column))
  BY <1>2, <1>5
<1>11. ReadColumn(u, r) = [ok |-> TRUE, at |-> r.at + Len(text) + 1,
                           items |-> Append(r.items, [name |-> column.name, fieldType |-> type])]
  <2>. DEFINE typeAt == AfterText(u, r.at)
  <2>1. HasWord(u, typeAt) /\ u[typeAt + 1] = type /\ u[typeAt + 1] \in FieldTypes
    BY <1>1, <1>7, <1>9
  <2>. HIDE DEF typeAt
  <2>2. ReadColumn(u, r) = [ok |-> TRUE, at |-> typeAt + 1,
                            items |-> Append(r.items, [name |-> TextAt(u, r.at), fieldType |-> u[typeAt + 1]])]
    BY <1>7, <2>1 DEF ReadColumn, typeAt
  <2>. QED  BY <1>7, <2>1, <2>2 DEF typeAt
<1>12. Len(EncodeColumn(column)) = 2 + Len(column.name)
  BY <1>2, <1>5
<1>13. [name |-> column.name, fieldType |-> type] = column
  BY <1>1
<1>. QED  BY <1>5, <1>10, <1>11, <1>12, <1>13

(* A cell is read where it stands.                                         *)
LEMMA CellRead ==
  ASSUME NEW u \in Units, NEW r, r.ok, r.at \in Nat,
         NEW cell \in Values, Len(cell.value) <= MaxCell,
         Stands(u, r.at, EncodeCell(cell))
  PROVE  /\ ReadCell(u, r) = [ok |-> TRUE, at |-> r.at + Len(EncodeCell(cell)),
                              items |-> Append(r.items, cell)]
         /\ EncodeCell(cell) \in Units
         /\ Len(EncodeCell(cell)) = 2 + Len(cell.value)
<1>. DEFINE text == EncodeText(cell.value)
            mark == IF cell.isNull THEN 1 ELSE 0
<1>1. cell.value \in Units /\ mark \in {0, 1} /\ cell.isNull = (mark = 1)
      /\ cell = [isNull |-> cell.isNull, value |-> cell.value]
  BY DEF Values
<1>2. text \in Units /\ Len(text) = 1 + Len(cell.value) /\ Len(cell.value) \in Nat
  BY <1>1, TextSize
<1>3. <<mark>> \in Units /\ Len(<<mark>>) = 1 /\ mark \in Nat
  BY <1>1 DEF Units
<1>4. EncodeCell(cell) = <<mark>> \o text
  BY DEF EncodeCell
<1>. HIDE DEF text, mark
<1>5. EncodeCell(cell) \in Units /\ Len(EncodeCell(cell)) = 1 + Len(text)
  BY <1>2, <1>3, <1>4, WordJoined
<1>6. Stands(u, r.at, <<mark>>) /\ Stands(u, r.at + Len(<<mark>>), text)
  BY <1>2, <1>3, <1>4, StandsJoined
<1>7. r.at + 1 \in Nat
  OBVIOUS
<1>8. HasText(u, r.at + 1) /\ TextAt(u, r.at + 1) = cell.value
      /\ AfterText(u, r.at + 1) = r.at + 1 + Len(text)
  BY <1>1, <1>3, <1>6, <1>7, TextRead DEF text
<1>9. HasWord(u, r.at) /\ u[r.at + 1] = mark
  BY <1>3, <1>6, WordRead
<1>10. r.at + 1 + Len(text) = r.at + Len(EncodeCell(cell))
  BY <1>2, <1>5
<1>11. ReadCell(u, r) = [ok |-> TRUE, at |-> AfterText(u, r.at + 1),
                         items |-> Append(r.items, [isNull |-> mark = 1, value |-> cell.value])]
  <2>1. u[r.at + 1] \in {0, 1}
    BY <1>1, <1>9
  <2>. QED  BY <1>8, <1>9, <2>1 DEF ReadCell
<1>12. [isNull |-> mark = 1, value |-> cell.value] = cell
  BY <1>1
<1>13. Len(EncodeCell(cell)) = 2 + Len(cell.value)
  BY <1>2, <1>5
<1>. QED  BY <1>5, <1>8, <1>10, <1>11, <1>12, <1>13

(* The prefixes of a sequence grow by one item at a time.                  *)
LEMMA PrefixGrows ==
  ASSUME NEW T, NEW s \in Seq(T)
  PROVE  /\ SubSeq(s, 1, 0) = <<>> /\ SubSeq(s, 1, Len(s)) = s
         /\ \A i \in 1 .. Len(s) : Append(SubSeq(s, 1, i - 1), s[i]) = SubSeq(s, 1, i)
<1>1. SubSeq(s, 1, 0) = <<>> /\ SubSeq(s, 1, Len(s)) = s
  OBVIOUS
<1>2. ASSUME NEW i \in 1 .. Len(s)
      PROVE  Append(SubSeq(s, 1, i - 1), s[i]) = SubSeq(s, 1, i)
  <2>. DEFINE a == Append(SubSeq(s, 1, i - 1), s[i])
              b == SubSeq(s, 1, i)
  <2>1. a \in Seq(T) /\ Len(a) = i
    OBVIOUS
  <2>2. b \in Seq(T) /\ Len(b) = i
    OBVIOUS
  <2>3. \A j \in 1 .. i : a[j] = b[j]
    OBVIOUS
  <2>. HIDE DEF a, b
  <2>4. a = b
    BY <2>1, <2>2, <2>3, SeqEqual
  <2>. QED  BY <2>4 DEF a, b
<1>. QED  BY <1>1, <1>2

(* Where the parts of a flattened sequence stand in what it stands in.     *)
Placed(u, at, parts, f, n) ==
  /\ f[0] = 0 /\ f[n] = Len(FlattenSeq(parts))
  /\ \A i \in 0 .. n : f[i] \in Nat
  /\ \A i \in 1 .. n : f[i] = f[i - 1] + Len(parts[i]) /\ Stands(u, at + f[i - 1], parts[i])

(* Joined parts are placed in a row.                                       *)
LEMMA PartsStand ==
  ASSUME NEW u \in Units, NEW at \in Nat, NEW parts \in Seq(Units), NEW n, n = Len(parts),
         Stands(u, at, FlattenSeq(parts))
  PROVE  \E f : Placed(u, at, parts, f, n)
<1>. PICK f : Joins(f, parts)
  BY JoinsExist
<1>1. Len(f[0]) = 0
  BY DEF Joins
<1>2. \A i \in 0 .. Len(parts) : Len(f[i]) \in Nat
  BY DEF Joins, Units
<1>3. ASSUME NEW i \in 1 .. Len(parts)
      PROVE  Len(f[i]) = Len(f[i - 1]) + Len(parts[i]) /\ Stands(u, at + Len(f[i - 1]), parts[i])
  <2>1. parts[i] \in Units
    OBVIOUS
  <2>. QED  BY <2>1, PartStands, StandsWithin
<1>4. Len(f[Len(parts)]) = Len(FlattenSeq(parts))
  BY FlattenJoins
<1>. DEFINE g == [i \in 0 .. n |-> Len(f[i])]
<1>5. n \in Nat /\ 0 \in 0 .. n /\ n \in 0 .. n
  OBVIOUS
<1>6. ASSUME NEW i \in 1 .. n PROVE g[i] = Len(f[i]) /\ g[i - 1] = Len(f[i - 1])
  BY i - 1 \in 0 .. n /\ i \in 0 .. n
<1>7. g[0] = 0 /\ g[n] = Len(FlattenSeq(parts))
  BY <1>1, <1>4, <1>5
<1>8. \A i \in 0 .. n : g[i] \in Nat
  BY <1>2
<1>. HIDE DEF g
<1>9. Placed(u, at, parts, g, n)
  BY <1>3, <1>6, <1>7, <1>8 DEF Placed
<1>. QED  BY <1>9

(* Parts of units join to units.                                           *)
LEMMA FlattenUnits ==
  ASSUME NEW parts \in Seq(Units)
  PROVE  FlattenSeq(parts) \in Units
<1>1. PICK f : Joins(f, parts)
  BY JoinsExist
<1>2. f[Len(parts)] \in Units
  BY <1>1 DEF Joins
<1>. QED  BY <1>1, <1>2, FlattenJoins

Fits(values) == \A f \in DOMAIN values : Len(values[f].value) <= MaxCell

CellCodes(row) == [f \in DOMAIN row |-> EncodeCell(row[f])]

(* The size of a cell on the wire.                                         *)
LEMMA CellSize ==
  ASSUME NEW cell \in Values
  PROVE  EncodeCell(cell) \in Units /\ Len(EncodeCell(cell)) = 2 + Len(cell.value)
<1>1. cell.value \in Units
  BY DEF Values
<1>2. EncodeText(cell.value) \in Units
      /\ Len(EncodeText(cell.value)) = 1 + Len(cell.value) /\ Len(cell.value) \in Nat
  BY <1>1, TextSize
<1>. DEFINE mark == IF cell.isNull THEN 1 ELSE 0
            text == EncodeText(cell.value)
<1>3. EncodeCell(cell) = <<mark>> \o text /\ mark \in Nat
  BY DEF EncodeCell
<1>. HIDE DEF mark
<1>4. EncodeCell(cell) \in Units /\ Len(EncodeCell(cell)) = 1 + Len(text)
  BY <1>2, <1>3, WordJoined
<1>. QED  BY <1>2, <1>4

(* The codes of a row's cells, one by one.                                 *)
LEMMA CellCodesAre ==
  ASSUME NEW row \in Seq(Values), NEW parts, parts = CellCodes(row), NEW n, n = Len(row)
  PROVE  /\ parts \in Seq(Units) /\ Len(parts) = n /\ n \in Nat
         /\ \A i \in 1 .. n : row[i] \in Values /\ parts[i] = EncodeCell(row[i])
<1>1. \A i \in 1 .. n : row[i] \in Values
  OBVIOUS
<1>2. \A i \in 1 .. n : EncodeCell(row[i]) \in Units
  BY <1>1, CellSize
<1>3. n \in Nat /\ DOMAIN row = 1 .. n
  OBVIOUS
<1>4. parts = [i \in 1 .. n |-> EncodeCell(row[i])]
  BY <1>3 DEF CellCodes
<1>5. parts \in Seq(Units) /\ Len(parts) = n
  BY <1>2, <1>3, <1>4
<1>. QED  BY <1>1, <1>3, <1>4, <1>5

(* A row is its count and the codes of its cells.                          *)
LEMMA RowSizeIs ==
  ASSUME NEW row \in Seq(Values), NEW flat, flat = FlattenSeq(CellCodes(row)), NEW n, n = Len(row)
  PROVE  /\ flat \in Units /\ n \in Nat
         /\ EncodeRow(row) = <<n>> \o flat
         /\ EncodeRow(row) \in Units /\ Len(EncodeRow(row)) = 1 + Len(flat)
<1>1. EncodeRow(row) = <<n>> \o flat
  BY DEF EncodeRow, CellCodes, EncodeCell
<1>2. flat \in Units /\ n \in Nat
  BY CellCodesAre, FlattenUnits
<1>. QED  BY <1>1, <1>2, WordJoined

(* The loop over the cells of a row gives the row.                         *)
LEMMA CellsRead ==
  ASSUME NEW u \in Units, NEW at \in Nat, NEW row \in Seq(Values), Fits(row),
         NEW parts, parts = CellCodes(row), NEW n, n = Len(row),
         Stands(u, at, FlattenSeq(parts))
  PROVE  ReadCells(u, at, n) = [ok |-> TRUE, at |-> at + Len(FlattenSeq(parts)), items |-> row]
<1>1. parts \in Seq(Units) /\ Len(parts) = n /\ n \in Nat
  BY CellCodesAre
<1>2. \A i \in 1 .. n : row[i] \in Values /\ parts[i] = EncodeCell(row[i])
  BY CellCodesAre
<1>3. PICK f : Placed(u, at, parts, f, n)
  BY <1>1, PartsStand
<1>. DEFINE g == [i \in 0 .. n |-> [ok |-> TRUE, at |-> at + f[i], items |-> SubSeq(row, 1, i)]]
<1>4. ASSUME NEW i \in 0 .. n
      PROVE  g[i] = [ok |-> TRUE, at |-> at + f[i], items |-> SubSeq(row, 1, i)]
  OBVIOUS
<1>. HIDE DEF g
<1>5. ASSUME NEW i \in 1 .. n PROVE g[i] = ReadCell(u, g[i - 1])
  <2>1. i - 1 \in 0 .. n /\ i \in 0 .. n
    BY <1>1
  <2>. DEFINE cell == row[i]
              before == at + f[i - 1]
              r == g[i - 1]
  <2>2. f[i] \in Nat /\ f[i - 1] \in Nat /\ f[i] = f[i - 1] + Len(parts[i])
        /\ Stands(u, before, parts[i])
    BY <1>3, <2>1 DEF Placed
  <2>3. cell \in Values /\ parts[i] = EncodeCell(cell) /\ Len(cell.value) <= MaxCell
    <3>1. i \in DOMAIN row
      BY <1>1
    <3>. QED  BY <1>2, <3>1 DEF Fits
  <2>4. before \in Nat
    BY <2>2
  <2>5. r = [ok |-> TRUE, at |-> before, items |-> SubSeq(row, 1, i - 1)]
    BY <1>4, <2>1
  <2>. HIDE DEF before, cell, r
  <2>6. r.ok /\ r.at = before /\ r.items = SubSeq(row, 1, i - 1)
    BY <2>5
  <2>7. ReadCell(u, r) = [ok |-> TRUE, at |-> r.at + Len(EncodeCell(cell)), items |-> Append(r.items, cell)]
    BY <2>2, <2>3, <2>4, <2>6, CellRead
  <2>8. r.at + Len(EncodeCell(cell)) = at + f[i]
    <3>1. Len(EncodeCell(cell)) \in Nat
      BY <2>3, CellSize DEF Units
    <3>. QED  BY <2>2, <2>3, <2>6, <3>1 DEF before
  <2>9. Append(r.items, cell) = SubSeq(row, 1, i)
    BY <1>1, <2>6, PrefixGrows DEF cell
  <2>. QED  BY <1>4, <2>1, <2>7, <2>8, <2>9 DEF r
<1>6. g[0] = Reader(at)
  <2>1. SubSeq(row, 1, 0) = <<>> /\ 0 \in 0 .. n
    BY <1>1, PrefixGrows
  <2>2. at + f[0] = at
    BY <1>3 DEF Placed
  <2>. QED  BY <1>4, <2>1, <2>2 DEF Reader
<1>7. g[n] = [ok |-> TRUE, at |-> at + Len(FlattenSeq(parts)), items |-> row]
  <2>1. SubSeq(row, 1, n) = row /\ n \in 0 .. n
    BY <1>1, PrefixGrows
  <2>2. f[n] = Len(FlattenSeq(parts))
    BY <1>3 DEF Placed
  <2>. QED  BY <1>4, <2>1, <2>2
<1>8. \A i \in 1 .. n : g[i] = ReadCell(u, g[i - 1])
  BY <1>5
<1>. QED  BY <1>1, <1>6, <1>7, <1>8, CellsRepeat

(* A row is read where it stands.                                          *)
LEMMA RowRead ==
  ASSUME NEW u \in Units, NEW columns, NEW r, r.ok, r.at \in Nat,
         NEW row \in Seq(Values), Fits(row), Len(row) <= MaxColumns,
         columns # <<>> => Len(row) = Len(columns),
         Stands(u, r.at, EncodeRow(row))
  PROVE  ReadRow(u, columns, r) = [ok |-> TRUE, at |-> r.at + Len(EncodeRow(row)),
                                   items |-> Append(r.items, row)]
<1>. DEFINE parts == CellCodes(row)
            flat == FlattenSeq(parts)
            n == Len(row)
            at == r.at + 1
<1>1. n \in Nat /\ at \in Nat
      /\ EncodeRow(row) = <<n>> \o flat /\ Len(EncodeRow(row)) = 1 + Len(flat)
  BY RowSizeIs
<1>2. flat \in Units
  BY RowSizeIs
<1>. HIDE DEF parts, flat, n
<1>3. Len(flat) \in Nat
  BY <1>2 DEF Units
<1>4. HasWord(u, r.at) /\ u[r.at + 1] = n /\ Stands(u, r.at + 1, flat)
  BY <1>1, <1>2, HeadStands
<1>5. HasWord(u, r.at) /\ u[at] = n /\ Stands(u, at, flat)
  BY <1>4
<1>. HIDE DEF at
<1>6. ReadCells(u, at, n) = [ok |-> TRUE, at |-> at + Len(flat), items |-> row]
  BY <1>1, <1>5, CellsRead DEF parts, flat, n
<1>7. n <= MaxColumns /\ (columns # <<>> => n = Len(columns))
  BY DEF n
<1>8. ReadRow(u, columns, r) = [ok |-> TRUE, at |-> at + Len(flat), items |-> Append(r.items, row)]
  <2>1. r.at + 1 = at
    BY DEF at
  <2>2. r.ok /\ HasWord(u, r.at) /\ u[r.at + 1] <= MaxColumns
        /\ (columns # <<>> => u[r.at + 1] = Len(columns))
    BY <1>5, <1>7, <2>1
  <2>. DEFINE read == ReadCells(u, r.at + 1, u[r.at + 1])
  <2>3. ReadRow(u, columns, r) = [ok |-> read.ok, at |-> read.at, items |-> Append(r.items, read.items)]
    BY <2>2 DEF ReadRow
  <2>4. read = [ok |-> TRUE, at |-> at + Len(flat), items |-> row]
    BY <1>5, <1>6, <2>1
  <2>. HIDE DEF read
  <2>. QED  BY <2>3, <2>4
<1>9. at + Len(flat) = r.at + Len(EncodeRow(row))
  <2>1. at = r.at + 1 /\ Len(flat) \in Nat /\ Len(EncodeRow(row)) = 1 + Len(flat)
    BY <1>1, <1>3 DEF at
  <2>. QED  BY <2>1
<1>. QED  BY <1>8, <1>9

(* The columns.                                                            *)
ColumnCodes(columns) == [f \in DOMAIN columns |-> EncodeColumn(columns[f])]

(* The size of a column on the wire.                                       *)
LEMMA ColumnSize ==
  ASSUME NEW column \in Columns
  PROVE  EncodeColumn(column) \in Units /\ Len(EncodeColumn(column)) = 2 + Len(column.name)
<1>. DEFINE text == EncodeText(column.name)
            type == column.fieldType
<1>1. column.name \in Units /\ type \in Nat
  BY DEF Columns, FieldTypes, HDB_FT_INT32, HDB_FT_INT64, HDB_FT_CHAR_ARRAY, HDB_FT_TIMESTAMP_MS
<1>2. text \in Units /\ Len(text) = 1 + Len(column.name) /\ Len(column.name) \in Nat
  BY <1>1, TextSize
<1>3. EncodeColumn(column) = text \o <<type>>
  BY DEF EncodeColumn
<1>. HIDE DEF text, type
<1>4. EncodeColumn(column) \in Units /\ Len(EncodeColumn(column)) = Len(text) + 1
  BY <1>1, <1>2, <1>3, WordJoined
<1>. QED  BY <1>2, <1>4

(* The codes of the columns, one by one.                                   *)
LEMMA ColumnCodesAre ==
  ASSUME NEW columns \in Seq(Columns), NEW parts, parts = ColumnCodes(columns),
         NEW n, n = Len(columns)
  PROVE  /\ parts \in Seq(Units) /\ Len(parts) = n /\ n \in Nat
         /\ \A i \in 1 .. n : columns[i] \in Columns /\ parts[i] = EncodeColumn(columns[i])
<1>1. \A i \in 1 .. n : columns[i] \in Columns
  OBVIOUS
<1>2. \A i \in 1 .. n : EncodeColumn(columns[i]) \in Units
  BY <1>1, ColumnSize
<1>3. n \in Nat /\ DOMAIN columns = 1 .. n
  OBVIOUS
<1>4. parts = [i \in 1 .. n |-> EncodeColumn(columns[i])]
  BY <1>3 DEF ColumnCodes
<1>5. parts \in Seq(Units) /\ Len(parts) = n
  BY <1>2, <1>3, <1>4
<1>. QED  BY <1>1, <1>3, <1>4, <1>5

(* A schema is its count and the codes of its columns.                     *)
LEMMA SchemaSizeIs ==
  ASSUME NEW s, s.columns \in Seq(Columns), NEW flat, flat = FlattenSeq(ColumnCodes(s.columns)),
         NEW n, n = Len(s.columns)
  PROVE  /\ flat \in Units /\ n \in Nat
         /\ EncodeSchema(s) = <<n>> \o flat
         /\ EncodeSchema(s) \in Units /\ Len(EncodeSchema(s)) = 1 + Len(flat)
<1>1. EncodeSchema(s) = <<n>> \o flat
  BY DEF EncodeSchema, ColumnCodes, EncodeColumn
<1>2. flat \in Units /\ n \in Nat
  BY ColumnCodesAre, FlattenUnits
<1>. QED  BY <1>1, <1>2, WordJoined

(* The loop over the columns of a schema gives the columns.                *)
LEMMA ColumnsRead ==
  ASSUME NEW u \in Units, NEW columns \in Seq(Columns),
         \A f \in DOMAIN columns : Len(columns[f].name) <= MaxCell,
         NEW parts, parts = ColumnCodes(columns), NEW n, n = Len(columns),
         Stands(u, 1, FlattenSeq(parts))
  PROVE  ReadColumns(u, n) = [ok |-> TRUE, at |-> 1 + Len(FlattenSeq(parts)), items |-> columns]
<1>1. parts \in Seq(Units) /\ Len(parts) = n /\ n \in Nat
  BY ColumnCodesAre
<1>2. \A i \in 1 .. n : columns[i] \in Columns /\ parts[i] = EncodeColumn(columns[i])
  BY ColumnCodesAre
<1>3. PICK f : Placed(u, 1, parts, f, n)
  BY <1>1, PartsStand
<1>. DEFINE g == [i \in 0 .. n |-> [ok |-> TRUE, at |-> 1 + f[i], items |-> SubSeq(columns, 1, i)]]
<1>4. ASSUME NEW i \in 0 .. n
      PROVE  g[i] = [ok |-> TRUE, at |-> 1 + f[i], items |-> SubSeq(columns, 1, i)]
  OBVIOUS
<1>. HIDE DEF g
<1>5. ASSUME NEW i \in 1 .. n PROVE g[i] = ReadColumn(u, g[i - 1])
  <2>1. i - 1 \in 0 .. n /\ i \in 0 .. n
    BY <1>1
  <2>. DEFINE x == columns[i]
              before == 1 + f[i - 1]
              r == g[i - 1]
  <2>2. f[i] \in Nat /\ f[i - 1] \in Nat /\ f[i] = f[i - 1] + Len(parts[i])
        /\ Stands(u, before, parts[i])
    BY <1>3, <2>1 DEF Placed
  <2>3. x \in Columns /\ parts[i] = EncodeColumn(x) /\ Len(x.name) <= MaxCell
    <3>1. i \in DOMAIN columns
      BY <1>1
    <3>. QED  BY <1>2, <3>1
  <2>4. before \in Nat
    BY <2>2
  <2>5. r = [ok |-> TRUE, at |-> before, items |-> SubSeq(columns, 1, i - 1)]
    BY <1>4, <2>1
  <2>. HIDE DEF before, x, r
  <2>6. r.ok /\ r.at = before /\ r.items = SubSeq(columns, 1, i - 1)
    BY <2>5
  <2>7. ReadColumn(u, r) = [ok |-> TRUE, at |-> r.at + Len(EncodeColumn(x)), items |-> Append(r.items, x)]
    BY <2>2, <2>3, <2>4, <2>6, ColumnRead
  <2>8. r.at + Len(EncodeColumn(x)) = 1 + f[i]
    <3>1. Len(EncodeColumn(x)) \in Nat
      BY <2>3, ColumnSize DEF Units
    <3>. QED  BY <2>2, <2>3, <2>6, <3>1 DEF before
  <2>9. Append(r.items, x) = SubSeq(columns, 1, i)
    BY <1>1, <2>6, PrefixGrows DEF x
  <2>. QED  BY <1>4, <2>1, <2>7, <2>8, <2>9 DEF r
<1>6. g[0] = Reader(1)
  <2>1. SubSeq(columns, 1, 0) = <<>> /\ 0 \in 0 .. n
    BY <1>1, PrefixGrows
  <2>2. 1 + f[0] = 1
    BY <1>3 DEF Placed
  <2>. QED  BY <1>4, <2>1, <2>2 DEF Reader
<1>7. g[n] = [ok |-> TRUE, at |-> 1 + Len(FlattenSeq(parts)), items |-> columns]
  <2>1. SubSeq(columns, 1, n) = columns /\ n \in 0 .. n
    BY <1>1, PrefixGrows
  <2>2. f[n] = Len(FlattenSeq(parts))
    BY <1>3 DEF Placed
  <2>. QED  BY <1>4, <2>1, <2>2
<1>8. \A i \in 1 .. n : g[i] = ReadColumn(u, g[i - 1])
  BY <1>5
<1>. QED  BY <1>1, <1>6, <1>7, <1>8, ColumnsRepeat

(* A reader at the end has finished.                                       *)
LEMMA ReadToTheEnd ==
  ASSUME NEW u, NEW items, NEW at, at = Len(u), NEW r, HasRead(r, at, items)
  PROVE  Finished(u, r).ok /\ Finished(u, r).items = items
BY DEF Finished, HasRead

(* DecodeSchema undoes EncodeSchema.                                       *)
LEMMA SchemaRead ==
  ASSUME NEW s, s.columns \in Seq(Columns), Len(s.columns) <= MaxColumns,
         \A f \in DOMAIN s.columns : Len(s.columns[f].name) <= MaxCell
  PROVE  /\ EncodeSchema(s) \in Units
         /\ DecodeSchema(EncodeSchema(s)).ok /\ DecodeSchema(EncodeSchema(s)).items = s.columns
<1>. DEFINE columns == s.columns
            parts == ColumnCodes(columns)
            flat == FlattenSeq(parts)
            n == Len(columns)
            u == EncodeSchema(s)
<1>1. u = <<n>> \o flat /\ u \in Units /\ Len(u) = 1 + Len(flat) /\ n \in Nat /\ flat \in Units
  BY SchemaSizeIs
<1>. HIDE DEF parts, flat, n, u
<1>2. Len(flat) \in Nat
  BY <1>1 DEF Units
<1>3. Stands(u, 0, u)
  BY <1>1, StandsItself
<1>4. HasWord(u, 0) /\ u[0 + 1] = n /\ Stands(u, 1, flat)
  <2>1. u = <<n>> \o flat /\ u \in Units /\ n \in Nat /\ flat \in Units /\ 0 \in Nat
    BY <1>1
  <2>2. HasWord(u, 0) /\ u[0 + 1] = n /\ Stands(u, 0 + 1, flat)
    BY <1>3, <2>1, HeadStands
  <2>3. 0 + 1 = 1
    OBVIOUS
  <2>. QED  BY <2>2, <2>3
<1>5. n <= MaxColumns
  BY DEF n
<1>6. ReadColumns(u, n) = [ok |-> TRUE, at |-> 1 + Len(flat), items |-> columns]
  <2>1. u \in Units /\ columns \in Seq(Columns)
        /\ \A f \in DOMAIN columns : Len(columns[f].name) <= MaxCell
    BY <1>1
  <2>2. parts = ColumnCodes(columns) /\ n = Len(columns) /\ flat = FlattenSeq(parts)
    BY DEF parts, flat, n
  <2>3. Stands(u, 1, FlattenSeq(parts))
    BY <1>4, <2>2
  <2>. HIDE DEF columns
  <2>. QED  BY <2>1, <2>2, <2>3, ColumnsRead
<1>7. DecodeSchema(u) = Finished(u, ReadColumns(u, n))
  BY <1>4, <1>5 DEF DecodeSchema
<1>8. DecodeSchema(u).ok /\ DecodeSchema(u).items = columns
  <2>. DEFINE read == ReadColumns(u, n)
  <2>1. Finished(u, read).ok /\ Finished(u, read).items = columns
    <3>. HIDE DEF columns, read
    <3>1. HasRead(read, 1 + Len(flat), columns)
      BY <1>6 DEF read, HasRead
    <3>2. 1 + Len(flat) = Len(u)
      BY <1>1
    <3>. QED  BY <3>1, <3>2, ReadToTheEnd
  <2>. HIDE DEF read, columns
  <2>. QED  BY <1>7, <2>1 DEF read
<1>. QED  BY <1>1, <1>8 DEF u

(* The rows.                                                               *)
RowCodes(rows) == [r \in DOMAIN rows |-> EncodeRow(rows[r])]

Rows == Seq(Values)

(* The codes of the rows, one by one.                                      *)
LEMMA RowCodesAre ==
  ASSUME NEW rows \in Seq(Rows), NEW parts, parts = RowCodes(rows), NEW n, n = Len(rows)
  PROVE  /\ parts \in Seq(Units) /\ Len(parts) = n /\ n \in Nat
         /\ \A i \in 1 .. n : rows[i] \in Rows /\ parts[i] = EncodeRow(rows[i])
<1>1. \A i \in 1 .. n : rows[i] \in Rows
  OBVIOUS
<1>2. \A i \in 1 .. n : EncodeRow(rows[i]) \in Units
  BY <1>1, RowSizeIs DEF Rows
<1>3. n \in Nat /\ DOMAIN rows = 1 .. n
  OBVIOUS
<1>4. parts = [i \in 1 .. n |-> EncodeRow(rows[i])]
  BY <1>3 DEF RowCodes
<1>5. parts \in Seq(Units) /\ Len(parts) = n
  BY <1>2, <1>3, <1>4
<1>. QED  BY <1>1, <1>3, <1>4, <1>5

(* A page is its count and the codes of its rows.                          *)
LEMMA RowsSizeIs ==
  ASSUME NEW s, s.rows \in Seq(Rows), NEW flat, flat = FlattenSeq(RowCodes(s.rows)),
         NEW n, n = Len(s.rows)
  PROVE  /\ flat \in Units /\ n \in Nat
         /\ EncodeRows(s) = <<n>> \o flat
         /\ EncodeRows(s) \in Units /\ Len(EncodeRows(s)) = 1 + Len(flat)
<1>1. EncodeRows(s) = <<n>> \o flat
  BY DEF EncodeRows, RowCodes
<1>2. flat \in Units /\ n \in Nat
  BY RowCodesAre, FlattenUnits
<1>. QED  BY <1>1, <1>2, WordJoined

(* What the decoder asks of a row below these columns.                     *)
RowFits(row, columns) ==
  Fits(row) /\ Len(row) <= MaxColumns /\ (columns # <<>> => Len(row) = Len(columns))

AllFit(rows, columns) == \A r \in DOMAIN rows : RowFits(rows[r], columns)

(* A row is encoded as units.                                              *)
LEMMA RowUnits ==
  ASSUME NEW row \in Rows
  PROVE  EncodeRow(row) \in Units
BY RowSizeIs DEF Rows

(* RowRead, of a row that fits below the columns.                          *)
LEMMA RowReadBelow ==
  ASSUME NEW u \in Units, NEW columns, NEW r, r.ok, r.at \in Nat,
         NEW row \in Rows, RowFits(row, columns), Stands(u, r.at, EncodeRow(row))
  PROVE  ReadRow(u, columns, r) = [ok |-> TRUE, at |-> r.at + Len(EncodeRow(row)),
                                   items |-> Append(r.items, row)]
BY RowRead DEF Rows, RowFits

(* The loop over the rows of a page gives the rows.                        *)
LEMMA RowsRead ==
  ASSUME NEW u \in Units, NEW columns, NEW rows \in Seq(Rows),
         AllFit(rows, columns),
         NEW parts, parts = RowCodes(rows), NEW n, n = Len(rows),
         Stands(u, 1, FlattenSeq(parts))
  PROVE  ReadRows(u, columns, n) = [ok |-> TRUE, at |-> 1 + Len(FlattenSeq(parts)), items |-> rows]
<1>1. parts \in Seq(Units) /\ Len(parts) = n /\ n \in Nat
  BY RowCodesAre
<1>2. \A i \in 1 .. n : rows[i] \in Rows /\ parts[i] = EncodeRow(rows[i])
  BY RowCodesAre
<1>3. PICK f : Placed(u, 1, parts, f, n)
  BY <1>1, PartsStand
<1>. DEFINE g == [i \in 0 .. n |-> [ok |-> TRUE, at |-> 1 + f[i], items |-> SubSeq(rows, 1, i)]]
<1>4. ASSUME NEW i \in 0 .. n
      PROVE  g[i] = [ok |-> TRUE, at |-> 1 + f[i], items |-> SubSeq(rows, 1, i)]
  OBVIOUS
<1>. HIDE DEF g
<1>5. ASSUME NEW i \in 1 .. n PROVE g[i] = ReadRow(u, columns, g[i - 1])
  <2>1. i - 1 \in 0 .. n /\ i \in 0 .. n
    BY <1>1
  <2>. DEFINE x == rows[i]
              before == 1 + f[i - 1]
              r == g[i - 1]
  <2>2. f[i] \in Nat /\ f[i - 1] \in Nat /\ f[i] = f[i - 1] + Len(parts[i])
        /\ Stands(u, before, parts[i])
    BY <1>3, <2>1 DEF Placed
  <2>3. x \in Rows /\ parts[i] = EncodeRow(x) /\ RowFits(x, columns)
    <3>1. i \in DOMAIN rows
      BY <1>1
    <3>. QED  BY <1>2, <3>1 DEF AllFit
  <2>4. before \in Nat
    BY <2>2
  <2>5. r = [ok |-> TRUE, at |-> before, items |-> SubSeq(rows, 1, i - 1)]
    BY <1>4, <2>1
  <2>. HIDE DEF before, x, r
  <2>6. r.ok /\ r.at = before /\ r.items = SubSeq(rows, 1, i - 1)
    BY <2>5
  <2>7. ReadRow(u, columns, r) = [ok |-> TRUE, at |-> r.at + Len(EncodeRow(x)), items |-> Append(r.items, x)]
    BY <2>2, <2>3, <2>4, <2>6, RowReadBelow
  <2>8. r.at + Len(EncodeRow(x)) = 1 + f[i]
    <3>1. Len(EncodeRow(x)) \in Nat
      BY <2>3, RowUnits DEF Units
    <3>. QED  BY <2>2, <2>3, <2>6, <3>1 DEF before
  <2>9. Append(r.items, x) = SubSeq(rows, 1, i)
    BY <1>1, <2>6, PrefixGrows DEF x
  <2>. QED  BY <1>4, <2>1, <2>7, <2>8, <2>9 DEF r
<1>6. g[0] = Reader(1)
  <2>1. SubSeq(rows, 1, 0) = <<>> /\ 0 \in 0 .. n
    BY <1>1, PrefixGrows
  <2>2. 1 + f[0] = 1
    BY <1>3 DEF Placed
  <2>. QED  BY <1>4, <2>1, <2>2 DEF Reader
<1>7. g[n] = [ok |-> TRUE, at |-> 1 + Len(FlattenSeq(parts)), items |-> rows]
  <2>1. SubSeq(rows, 1, n) = rows /\ n \in 0 .. n
    BY <1>1, PrefixGrows
  <2>2. f[n] = Len(FlattenSeq(parts))
    BY <1>3 DEF Placed
  <2>. QED  BY <1>4, <2>1, <2>2
<1>8. \A i \in 1 .. n : g[i] = ReadRow(u, columns, g[i - 1])
  BY <1>5
<1>. QED  BY <1>1, <1>6, <1>7, <1>8, RowsRepeat

(* DecodeRows undoes EncodeRows.                                           *)
LEMMA PageRead ==
  ASSUME NEW s, s.rows \in Seq(Rows), NEW columns, Len(s.rows) <= MaxRows,
         AllFit(s.rows, columns)
  PROVE  /\ EncodeRows(s) \in Units
         /\ DecodeRows(EncodeRows(s), columns).ok
         /\ DecodeRows(EncodeRows(s), columns).items = s.rows
<1>. DEFINE rows == s.rows
            parts == RowCodes(rows)
            flat == FlattenSeq(parts)
            n == Len(rows)
            u == EncodeRows(s)
<1>1. u = <<n>> \o flat /\ u \in Units /\ Len(u) = 1 + Len(flat) /\ n \in Nat /\ flat \in Units
  BY RowsSizeIs
<1>. HIDE DEF parts, flat, n, u
<1>2. Len(flat) \in Nat
  BY <1>1 DEF Units
<1>3. Stands(u, 0, u)
  BY <1>1, StandsItself
<1>4. HasWord(u, 0) /\ u[0 + 1] = n /\ Stands(u, 1, flat)
  <2>1. u = <<n>> \o flat /\ u \in Units /\ n \in Nat /\ flat \in Units /\ 0 \in Nat
    BY <1>1
  <2>2. HasWord(u, 0) /\ u[0 + 1] = n /\ Stands(u, 0 + 1, flat)
    BY <1>3, <2>1, HeadStands
  <2>3. 0 + 1 = 1
    OBVIOUS
  <2>. QED  BY <2>2, <2>3
<1>5. n <= MaxRows
  BY DEF n
<1>6. ReadRows(u, columns, n) = [ok |-> TRUE, at |-> 1 + Len(flat), items |-> rows]
  <2>1. rows \in Seq(Rows) /\ AllFit(rows, columns)
    OBVIOUS
  <2>2. parts = RowCodes(rows) /\ n = Len(rows) /\ Stands(u, 1, FlattenSeq(parts))
    BY <1>4 DEF parts, flat, n
  <2>. HIDE DEF rows
  <2>3. u \in Units
    BY <1>1
  <2>4. ReadRows(u, columns, n) = [ok |-> TRUE, at |-> 1 + Len(FlattenSeq(parts)), items |-> rows]
    BY <2>1, <2>2, <2>3, RowsRead
  <2>. QED  BY <2>4 DEF flat
<1>7. DecodeRows(u, columns) = Finished(u, ReadRows(u, columns, n))
  BY <1>4, <1>5 DEF DecodeRows
<1>8. DecodeRows(u, columns).ok /\ DecodeRows(u, columns).items = rows
  <2>. DEFINE read == ReadRows(u, columns, n)
  <2>1. Finished(u, read).ok /\ Finished(u, read).items = rows
    <3>. HIDE DEF rows, read
    <3>1. HasRead(read, 1 + Len(flat), rows)
      BY <1>6 DEF read, HasRead
    <3>2. 1 + Len(flat) = Len(u)
      BY <1>1
    <3>. QED  BY <3>1, <3>2, ReadToTheEnd
  <2>. HIDE DEF read, rows
  <2>. QED  BY <1>7, <2>1 DEF read
<1>. QED  BY <1>1, <1>8 DEF u

-----------------------------------------------------------------------------
(* The fields of a body.                                                   *)

(* What Fields makes of the place at, if f says what comes behind it.      *)
FieldsAt(body, f, at) ==
  IF at = Len(body) THEN Reader(at)
  ELSE IF Len(body) - at < 2 \/ body[at + 2] > Len(body) - at - 2 THEN Bad(Reader(at))
  ELSE LET next == at + 2 + body[at + 2]
           rest == f[next]
       IN [rest EXCEPT !.items =
             <<[type |-> body[at + 1], data |-> SubSeq(body, at + 3, next)]>> \o @]

FieldsFrom(body, f, first) == f = [at \in first .. Len(body) |-> FieldsAt(body, f, at)]

(* The fields from a place depend only on those behind it.                 *)
LEMMA FieldsSame ==
  ASSUME NEW body \in Units, NEW at \in 0 .. Len(body), NEW f, NEW g,
         \A next \in at + 2 .. Len(body) : f[next] = g[next]
  PROVE  FieldsAt(body, f, at) = FieldsAt(body, g, at)
<1>1. CASE at = Len(body) \/ Len(body) - at < 2
  BY <1>1 DEF FieldsAt
<1>2. CASE at # Len(body) /\ ~(Len(body) - at < 2)
  <2>1. at + 2 \in 1 .. Len(body) /\ Len(body) \in Nat
    BY <1>2 DEF Units
  <2>2. body[at + 2] \in Nat
    BY <2>1 DEF Units
  <2>3. CASE body[at + 2] > Len(body) - at - 2
    BY <2>3 DEF FieldsAt
  <2>4. CASE ~(body[at + 2] > Len(body) - at - 2)
    <3>1. at + 2 + body[at + 2] \in at + 2 .. Len(body)
      BY <2>1, <2>2, <2>4
    <3>2. f[at + 2 + body[at + 2]] = g[at + 2 + body[at + 2]]
      BY <3>1
    <3>. QED  BY <3>2 DEF FieldsAt
  <2>. QED  BY <2>3, <2>4
<1>. QED  BY <1>1, <1>2

(* The recursion of Fields has a solution.                                 *)
LEMMA FieldsExist ==
  ASSUME NEW body \in Units
  PROVE  \E f : FieldsFrom(body, f, 0)
<1>. DEFINE n == Len(body)
            S == {k \in 0 .. n : \E f : FieldsFrom(body, f, n - k)}
<1>1. n \in Nat /\ 0 \in 0 .. n /\ n \in 0 .. n
  BY DEF Units
<1>2. 0 \in S
  <2>1. FieldsFrom(body, [at \in n .. n |-> Reader(n)], n)
    BY DEF FieldsFrom, FieldsAt
  <2>2. n - 0 = n
    BY <1>1
  <2>. HIDE DEF n
  <2>. QED  BY <1>1, <2>1, <2>2
<1>3. ASSUME NEW k \in 0 .. n, k < n, k \in S PROVE k + 1 \in S
  <2>1. PICK f : FieldsFrom(body, f, n - k)
    BY <1>3
  <2>. DEFINE at == n - (k + 1)
              g == [i \in at .. n |-> IF i = at THEN FieldsAt(body, f, at) ELSE f[i]]
  <2>2. at \in 0 .. n /\ at + 1 = n - k /\ k + 1 \in 0 .. n
    BY <1>1, <1>3
  <2>3. ASSUME NEW i \in at + 1 .. n PROVE i \in 0 .. n /\ i \in at .. n /\ g[i] = f[i]
    <3>. HIDE DEF n
    <3>1. i \in at .. n /\ i # at /\ i \in 0 .. n
      <4>. HIDE DEF at
      <4>. QED  BY <1>1, <2>2
    <3>. HIDE DEF at
    <3>. QED  BY <3>1
  <2>4. ASSUME NEW i \in at .. n PROVE g[i] = FieldsAt(body, g, i)
    <3>1. i \in 0 .. n
      BY <1>1, <2>2
    <3>2. \A next \in i + 2 .. n : f[next] = g[next]
      <4>. HIDE DEF g
      <4>. QED  BY <1>1, <2>2, <2>3
    <3>3. FieldsAt(body, f, i) = FieldsAt(body, g, i)
      <4>. HIDE DEF g, at
      <4>. QED  BY <3>1, <3>2, FieldsSame
    <3>4. CASE i = at
      <4>1. g[i] = FieldsAt(body, f, i)
        BY <3>4
      <4>. HIDE DEF g
      <4>. QED  BY <3>3, <4>1
    <3>5. CASE i # at
      <4>1. i \in at + 1 .. n
        <5>. HIDE DEF at, g, n
        <5>. QED  BY <1>1, <2>2, <3>5
      <4>2. f[i] = FieldsAt(body, f, i)
        <5>. HIDE DEF at, g
        <5>. QED  BY <2>1, <2>2, <4>1 DEF FieldsFrom
      <4>. HIDE DEF g
      <4>. QED  BY <2>3, <3>3, <4>1, <4>2
    <3>. QED  BY <3>4, <3>5
  <2>5. FieldsFrom(body, g, at)
    <3>1. DOMAIN g = at .. n /\ g = [i \in at .. n |-> g[i]]
      OBVIOUS
    <3>. HIDE DEF g, at
    <3>. QED  BY <2>4, <3>1 DEF FieldsFrom
  <2>. HIDE DEF g, n
  <2>. QED  BY <2>2, <2>5
<1>4. n \in S
  <2>1. 0 .. n \subseteq S
    <3>. HIDE DEF S, n
    <3>. QED  BY <1>1, <1>2, <1>3, UpTo
  <2>. HIDE DEF S, n
  <2>. QED  BY <1>1, <2>1
<1>5. n - n = 0
  BY <1>1
<1>. QED  BY <1>4, <1>5

(* Fields is that solution.                                                *)
LEMMA FieldsAre ==
  ASSUME NEW body \in Units
  PROVE  \E f : /\ Fields(body) = f[0]
                /\ \A at \in 0 .. Len(body) : f[at] = FieldsAt(body, f, at)
<1>. DEFINE f == CHOOSE g : FieldsFrom(body, g, 0)
<1>1. FieldsFrom(body, f, 0)
  BY FieldsExist
<1>2. Fields(body) = f[0]
  BY DEF Fields, FieldsFrom, FieldsAt
<1>. HIDE DEF f
<1>3. \A at \in 0 .. Len(body) : f[at] = FieldsAt(body, f, at)
  BY <1>1 DEF FieldsFrom
<1>. QED  BY <1>2, <1>3

(* A field as HdbIpcAppendField appends it.                                *)
EncodeField(type, data) == <<type, Len(data)>> \o data

(* The header of a field and what stands behind it.                        *)
LEMMA FieldSize ==
  ASSUME NEW type \in Nat, NEW data \in Units
  PROVE  /\ EncodeField(type, data) \in Units
         /\ Len(EncodeField(type, data)) = 2 + Len(data) /\ Len(data) \in Nat
         /\ EncodeField(type, data)[1] = type /\ EncodeField(type, data)[2] = Len(data)
         /\ Stands(EncodeField(type, data), 2, data)
<1>. DEFINE head == <<type, Len(data)>>
<1>1. Len(data) \in Nat
  BY DEF Units
<1>2. head \in Units /\ Len(head) = 2 /\ head[1] = type /\ head[2] = Len(data)
  BY <1>1 DEF Units
<1>. HIDE DEF head
<1>3. head \o data \in Units /\ Len(head \o data) = 2 + Len(data)
      /\ (head \o data)[1] = head[1] /\ (head \o data)[2] = head[2]
  <2>1. head \o data \in Units /\ Len(head \o data) = 2 + Len(data)
    BY <1>2, JoinSize
  <2>2. \A i \in 1 .. 2 : (head \o data)[i] = head[i]
    <3>1. Stands(head \o data, 0, head)
      BY <1>2, StandsItself, StandsBefore
    <3>. QED  BY <1>2, <3>1 DEF Stands
  <2>. QED  BY <2>1, <2>2
<1>4. Stands(head \o data, 2, data)
  BY <1>2, StandsBehind
<1>. QED  BY <1>1, <1>2, <1>3, <1>4 DEF EncodeField, head

Behind(r, field, rest) == r = [rest EXCEPT !.items = <<field>> \o @]

(* A field in front of what was read.                                      *)
LEMMA BehindHasRead ==
  ASSUME NEW r, NEW field, NEW rest, NEW at, NEW items,
         Behind(r, field, rest), HasRead(rest, at, items)
  PROVE  HasRead(r, at, <<field>> \o items)
BY DEF Behind, HasRead

(* A field is read where it stands.                                        *)
LEMMA FieldRead ==
  ASSUME NEW body \in Units, NEW at \in Nat, NEW type \in Nat, NEW data \in Units,
         Stands(body, at, EncodeField(type, data)),
         NEW f, NEW next, next = at + 2 + Len(data), f[at] = FieldsAt(body, f, at),
         NEW field, field = [type |-> type, data |-> data]
  PROVE  Behind(f[at], field, f[next])
<1>. DEFINE code == EncodeField(type, data)
<1>1. /\ code \in Units /\ Len(code) = 2 + Len(data) /\ Len(data) \in Nat
      /\ code[1] = type /\ code[2] = Len(data) /\ Stands(code, 2, data)
  BY FieldSize
<1>. HIDE DEF code
<1>2. Len(body) \in Nat /\ at + Len(code) <= Len(body)
  BY DEF Stands, Units, code
<1>3. body[at + 1] = type /\ body[at + 2] = Len(data)
  <2>1. 1 \in 1 .. Len(code) /\ 2 \in 1 .. Len(code)
    BY <1>1
  <2>. QED  BY <1>1, <2>1 DEF Stands, code
<1>4. Stands(body, at + 2, data)
  BY <1>1, StandsWithin DEF code
<1>5. SubSeq(body, at + 2 + 1, at + 2 + Len(data)) = data
  BY <1>4, StandsCut
<1>6. SubSeq(body, at + 3, next) = data
  BY <1>5, at + 2 + 1 = at + 3
<1>7. at # Len(body) /\ ~(Len(body) - at < 2 \/ body[at + 2] > Len(body) - at - 2)
  BY <1>1, <1>2, <1>3
<1>8. next = at + 2 + body[at + 2]
  BY <1>3
<1>. QED  BY <1>3, <1>6, <1>7, <1>8 DEF FieldsAt, Behind

(* Joining is associative.                                                 *)
LEMMA JoinedInTurn ==
  ASSUME NEW a \in Units, NEW b \in Units, NEW c \in Units,
         NEW ab, ab = a \o b, NEW bc, bc = b \o c
  PROVE  ab \o c = a \o bc
<1>. DEFINE l == (a \o b) \o c
            r == a \o (b \o c)
<1>1. /\ a \o b \in Units /\ Len(a \o b) = Len(a) + Len(b)
      /\ b \o c \in Units /\ Len(b \o c) = Len(b) + Len(c)
      /\ Len(a) \in Nat /\ Len(b) \in Nat /\ Len(c) \in Nat
  BY JoinSize
<1>2. /\ l \in Units /\ Len(l) = Len(a) + Len(b) + Len(c)
      /\ r \in Units /\ Len(r) = Len(a) + (Len(b) + Len(c))
  BY <1>1, JoinSize
<1>3. Stands(l, 0, a \o b) /\ Stands(l, Len(a \o b), c) /\ Stands(r, 0, a) /\ Stands(r, Len(a), b \o c)
  BY <1>1, <1>2, StandsItself, StandsBefore, StandsBehind
<1>. HIDE DEF l, r
<1>4. Stands(l, 0, a) /\ Stands(l, 0 + Len(a), b)
  BY <1>1, <1>2, <1>3, StandsJoined
<1>5. Stands(r, Len(a), b) /\ Stands(r, Len(a) + Len(b), c)
  BY <1>1, <1>2, <1>3, StandsJoined
<1>6. ASSUME NEW i \in 1 .. Len(l) PROVE l[i] = r[i]
  <2>1. CASE i \in 1 .. Len(a)
    BY <1>1, <1>3, <1>4, <2>1 DEF Stands
  <2>2. CASE i - Len(a) \in 1 .. Len(b)
    <3>1. i = Len(a) + (i - Len(a)) /\ i = 0 + Len(a) + (i - Len(a))
      BY <1>1, <1>2
    <3>2. l[0 + Len(a) + (i - Len(a))] = b[i - Len(a)] /\ r[Len(a) + (i - Len(a))] = b[i - Len(a)]
      BY <1>4, <1>5, <2>2 DEF Stands
    <3>. QED  BY <3>1, <3>2
  <2>3. CASE i - (Len(a) + Len(b)) \in 1 .. Len(c)
    <3>1. i = Len(a) + Len(b) + (i - (Len(a) + Len(b)))
      BY <1>1, <1>2
    <3>2. /\ l[Len(a) + Len(b) + (i - (Len(a) + Len(b)))] = c[i - (Len(a) + Len(b))]
          /\ r[Len(a) + Len(b) + (i - (Len(a) + Len(b)))] = c[i - (Len(a) + Len(b))]
      BY <1>1, <1>3, <1>5, <2>3 DEF Stands
    <3>. QED  BY <3>1, <3>2
  <2>. QED  BY <1>1, <1>2, <2>1, <2>2, <2>3
<1>7. l = r
  <2>1. l \in Seq(Nat) /\ r \in Seq(Nat) /\ Len(l) = Len(r)
    BY <1>1, <1>2 DEF Units
  <2>. QED  BY <1>6, <2>1, SeqEqual
<1>. QED  BY <1>7 DEF l, r

(* The body is the schema field and the rows field.                        *)
LEMMA BodyIs ==
  ASSUME NEW s, NEW schema \in Units, NEW rows \in Units,
         schema = EncodeSchema(s), rows = EncodeRows(s)
  PROVE  /\ Body(s) = EncodeField(HDB_IPC_FIELD_RESULT_SCHEMA, schema)
                      \o EncodeField(HDB_IPC_FIELD_RESULT_ROWS, rows)
         /\ Body(s) \in Units /\ Len(Body(s)) = 4 + Len(schema) + Len(rows)
<1>. DEFINE ha == <<HDB_IPC_FIELD_RESULT_SCHEMA, Len(schema)>>
            hb == <<HDB_IPC_FIELD_RESULT_ROWS, Len(rows)>>
            a == EncodeField(HDB_IPC_FIELD_RESULT_SCHEMA, schema)
            b == EncodeField(HDB_IPC_FIELD_RESULT_ROWS, rows)
<1>1. Body(s) = ((<<>> \o ha) \o schema) \o hb \o rows
  BY DEF Body, AppendField
<1>2. ha \in Units /\ hb \in Units
  BY DEF Units, HDB_IPC_FIELD_RESULT_SCHEMA, HDB_IPC_FIELD_RESULT_ROWS
<1>3. a = ha \o schema /\ b = hb \o rows
  BY DEF EncodeField
<1>4. a \in Units /\ Len(a) = 2 + Len(schema) /\ b \in Units /\ Len(b) = 2 + Len(rows)
      /\ Len(schema) \in Nat /\ Len(rows) \in Nat
  BY FieldSize DEF HDB_IPC_FIELD_RESULT_SCHEMA, HDB_IPC_FIELD_RESULT_ROWS
<1>. HIDE DEF ha, hb, a, b
<1>5. <<>> \o ha = ha
  BY <1>2, ConcatEmptySeq DEF Units
<1>. DEFINE ah == a \o hb
<1>6. ah \o rows = a \o b
  <2>1. ah = a \o hb
    OBVIOUS
  <2>. HIDE DEF ah
  <2>2. ah \o rows = a \o (hb \o rows)
    <3>1. a \in Units /\ hb \in Units /\ rows \in Units
      BY <1>2, <1>4
    <3>. QED  BY <2>1, <3>1, JoinedInTurn
  <2>. QED  BY <1>3, <2>2
<1>7. Body(s) = a \o b
  BY <1>1, <1>3, <1>5, <1>6
<1>8. a \o b \in Units /\ Len(a \o b) = Len(a) + Len(b)
  BY <1>4, JoinSize
<1>. QED  BY <1>4, <1>7, <1>8 DEF a, b

(* The two fields of a response are found.                                 *)
LEMMA BodyRead ==
  ASSUME NEW s, NEW schema \in Units, NEW rows \in Units,
         schema = EncodeSchema(s), rows = EncodeRows(s)
  PROVE  /\ Fields(Body(s)).ok
         /\ Fields(Body(s)).items =
              <<[type |-> HDB_IPC_FIELD_RESULT_SCHEMA, data |-> schema],
                [type |-> HDB_IPC_FIELD_RESULT_ROWS, data |-> rows]>>
<1>. DEFINE a == EncodeField(HDB_IPC_FIELD_RESULT_SCHEMA, schema)
            b == EncodeField(HDB_IPC_FIELD_RESULT_ROWS, rows)
            body == Body(s)
            x == [type |-> HDB_IPC_FIELD_RESULT_SCHEMA, data |-> schema]
            y == [type |-> HDB_IPC_FIELD_RESULT_ROWS, data |-> rows]
            second == 2 + Len(schema)
            end == 4 + Len(schema) + Len(rows)
<1>1. a \in Units /\ Len(a) = second /\ b \in Units /\ Len(b) = 2 + Len(rows)
      /\ Len(schema) \in Nat /\ Len(rows) \in Nat
  BY FieldSize DEF HDB_IPC_FIELD_RESULT_SCHEMA, HDB_IPC_FIELD_RESULT_ROWS
<1>2. body = a \o b /\ body \in Units /\ Len(body) = end
  BY BodyIs
<1>3. HDB_IPC_FIELD_RESULT_SCHEMA \in Nat /\ HDB_IPC_FIELD_RESULT_ROWS \in Nat
  BY DEF HDB_IPC_FIELD_RESULT_SCHEMA, HDB_IPC_FIELD_RESULT_ROWS
<1>4. second \in Nat /\ 0 + 2 + Len(schema) = second /\ second + 2 + Len(rows) = end
      /\ 0 \in 0 .. end /\ second \in 0 .. end /\ end \in 0 .. end
  BY <1>1
<1>. HIDE DEF a, b, body, second, end
<1>5. Stands(body, 0, a) /\ Stands(body, second, b)
  <2>1. Stands(body, 0, body)
    BY <1>2, StandsItself
  <2>2. Stands(body, 0, a)
    BY <1>1, <1>2, <2>1, StandsJoined
  <2>3. Stands(body, second, b)
    BY <1>1, <1>2, StandsBehind
  <2>. QED  BY <2>2, <2>3
<1>6. PICK f : /\ Fields(body) = f[0]
               /\ \A at \in 0 .. Len(body) : f[at] = FieldsAt(body, f, at)
  BY <1>2, FieldsAre
<1>7. HasRead(f[end], end, <<>>)
  BY <1>2, <1>4, <1>6 DEF FieldsAt, Reader, HasRead
<1>8. Behind(f[second], y, f[end])
  <2>1. f[second] = FieldsAt(body, f, second)
    BY <1>2, <1>4, <1>6
  <2>2. second \in Nat /\ end = second + 2 + Len(rows) /\ Stands(body, second, EncodeField(HDB_IPC_FIELD_RESULT_ROWS, rows))
    BY <1>4, <1>5 DEF b
  <2>. QED  BY <1>2, <1>3, <2>1, <2>2, FieldRead
<1>9. Behind(f[0], x, f[second])
  <2>1. f[0] = FieldsAt(body, f, 0)
    BY <1>2, <1>4, <1>6
  <2>2. 0 \in Nat /\ second = 0 + 2 + Len(schema) /\ Stands(body, 0, EncodeField(HDB_IPC_FIELD_RESULT_SCHEMA, schema))
    BY <1>4, <1>5 DEF a
  <2>. QED  BY <1>2, <1>3, <2>1, <2>2, FieldRead
<1>. HIDE DEF x, y
<1>10. HasRead(f[second], end, <<y>> \o <<>>)
  BY <1>7, <1>8, BehindHasRead
<1>11. HasRead(f[0], end, <<x>> \o (<<y>> \o <<>>))
  BY <1>9, <1>10, BehindHasRead
<1>12. <<x>> \o (<<y>> \o <<>>) = <<x, y>>
  <2>. DEFINE T == {x, y}
  <2>1. <<x>> \in Seq(T) /\ <<y>> \in Seq(T) /\ Len(<<x>>) = 1 /\ Len(<<y>>) = 1
    OBVIOUS
  <2>2. <<y>> \o <<>> = <<y>>
    BY <2>1, ConcatEmptySeq
  <2>3. <<x>> \o <<y>> \in Seq(T) /\ <<x, y>> \in Seq(T) /\ Len(<<x>> \o <<y>>) = 2 /\ Len(<<x, y>>) = 2
    BY <2>1
  <2>4. ASSUME NEW i \in 1 .. 2 PROVE (<<x>> \o <<y>>)[i] = <<x, y>>[i]
    BY i = 1 \/ i = 2
  <2>5. <<x>> \o <<y>> = <<x, y>>
    BY <2>3, <2>4, SeqEqual
  <2>. QED  BY <2>2, <2>5
<1>13. Fields(body).ok /\ Fields(body).items = <<x, y>>
  BY <1>6, <1>11, <1>12 DEF HasRead
<1>. QED  BY <1>13 DEF x, y, body

(* What was encoded is received.                                           *)
THEOREM RoundTrip ==
  ASSUME NEW s, s.columns \in Seq(Columns), s.rows \in Seq(Rows),
         Len(s.columns) <= MaxColumns, Len(s.rows) <= MaxRows,
         \A f \in DOMAIN s.columns : Len(s.columns[f].name) <= MaxCell,
         AllFit(s.rows, s.columns)
  PROVE  /\ IsComplete(Received(Body(s)))
         /\ Received(Body(s)).columns = s.columns /\ Received(Body(s)).rows = s.rows
<1>. DEFINE schema == EncodeSchema(s)
            rows == EncodeRows(s)
            x == [type |-> HDB_IPC_FIELD_RESULT_SCHEMA, data |-> schema]
            y == [type |-> HDB_IPC_FIELD_RESULT_ROWS, data |-> rows]
            fields == Fields(Body(s)).items
            first == [ok |-> Fields(Body(s)).ok, hasSchema |-> FALSE, hasRows |-> FALSE,
                      columns |-> <<>>, rows |-> <<>>]
            Takes(h) == h = [i \in 0 .. Len(fields) |->
                               IF i = 0 THEN first ELSE TakeField(h[i - 1], fields[i])]
            f == CHOOSE h : Takes(h)
            one == TakeField(first, x)
            two == TakeField(one, y)
            g == [i \in 0 .. 2 |-> IF i = 0 THEN first ELSE IF i = 1 THEN one ELSE two]
<1>1. schema \in Units /\ DecodeSchema(schema).ok /\ DecodeSchema(schema).items = s.columns
  BY SchemaRead
<1>2. rows \in Units /\ DecodeRows(rows, s.columns).ok /\ DecodeRows(rows, s.columns).items = s.rows
  BY PageRead
<1>3. first.ok /\ fields = <<x, y>>
  <2>. HIDE DEF schema, rows
  <2>. QED  BY <1>1, <1>2, BodyRead DEF schema, rows
<1>4. Received(Body(s)) = f[Len(fields)]
  BY DEF Received
<1>5. Len(fields) = 2 /\ fields[1] = x /\ fields[2] = y
  BY <1>3
<1>. HIDE DEF fields, first, x, y, schema, rows
<1>6. Takes(g)
  <2>1. \A i \in 0 .. 2 : g[i] = IF i = 0 THEN first ELSE TakeField(g[i - 1], fields[i])
    <3>1. g[0] = first /\ g[1] = TakeField(g[0], x) /\ g[2] = TakeField(g[1], y)
      OBVIOUS
    <3>. HIDE DEF g
    <3>2. ASSUME NEW i \in 0 .. 2 PROVE i = 0 \/ i = 1 \/ i = 2
      OBVIOUS
    <3>. QED  BY <1>5, <3>1, <3>2
  <2>2. g = [i \in 0 .. 2 |-> g[i]]
    OBVIOUS
  <2>. HIDE DEF g
  <2>. QED  BY <1>5, <2>1, <2>2
<1>7. Takes(f)
  <2>. HIDE DEF Takes, g
  <2>. QED  BY <1>6
<1>. HIDE DEF f, g
<1>8. f[0] = first /\ f[1] = one /\ f[2] = two
  <2>1. \A i \in 0 .. 2 : f[i] = IF i = 0 THEN first ELSE TakeField(f[i - 1], fields[i])
    BY <1>5, <1>7
  <2>2. f[0] = first /\ f[1] = TakeField(f[0], fields[1]) /\ f[2] = TakeField(f[1], fields[2])
    <3>. HIDE DEF Takes
    <3>1. f[0] = first
      BY <2>1
    <3>2. f[1] = TakeField(f[1 - 1], fields[1]) /\ f[2] = TakeField(f[2 - 1], fields[2])
      BY <2>1
    <3>. QED  BY <3>1, <3>2
  <2>. HIDE DEF Takes
  <2>. QED  BY <1>5, <2>2
<1>9. one = [ok |-> TRUE, hasSchema |-> TRUE, hasRows |-> FALSE, columns |-> s.columns, rows |-> <<>>]
  <2>. DEFINE read == DecodeSchema(schema)
  <2>1. TakeField(first, x) = [first EXCEPT !.ok = @ /\ read.ok, !.columns = read.items, !.hasSchema = TRUE]
    BY DEF TakeField, x, HDB_IPC_FIELD_RESULT_SCHEMA, HDB_IPC_FIELD_RESULT_ROWS
  <2>2. (first.ok /\ read.ok) = TRUE
    BY <1>1, <1>3
  <2>3. read.items = s.columns
    BY <1>1
  <2>. HIDE DEF read
  <2>4. TakeField(first, x) = [first EXCEPT !.ok = TRUE, !.columns = s.columns, !.hasSchema = TRUE]
    BY <2>1, <2>2, <2>3
  <2>. QED  BY <2>4 DEF first
<1>. HIDE DEF one
<1>10. two = [ok |-> TRUE, hasSchema |-> TRUE, hasRows |-> TRUE, columns |-> s.columns, rows |-> s.rows]
  <2>. DEFINE read == DecodeRows(rows, s.columns)
  <2>1. one.columns = s.columns /\ one.ok
    BY <1>9
  <2>2. TakeField(one, y) = [one EXCEPT !.ok = @ /\ read.ok, !.rows = read.items, !.hasRows = TRUE]
    BY <2>1 DEF TakeField, y, HDB_IPC_FIELD_RESULT_SCHEMA, HDB_IPC_FIELD_RESULT_ROWS
  <2>3. (one.ok /\ read.ok) = TRUE /\ read.items = s.rows
    BY <1>2, <2>1
  <2>. HIDE DEF read
  <2>4. TakeField(one, y) = [one EXCEPT !.ok = TRUE, !.rows = s.rows, !.hasRows = TRUE]
    BY <2>2, <2>3
  <2>. QED  BY <1>9, <2>4
<1>. HIDE DEF two, Takes
<1>. QED  BY <1>4, <1>5, <1>8, <1>10 DEF IsComplete

-----------------------------------------------------------------------------
(* Sums, and numbers.                                                      *)

(* What a loop over counts has come to after each of them; base is 1 for a *)
(* sum and 10 for the number digits stand for.                             *)
Counts(base, v, f) ==
  /\ f \in [0 .. Len(v) -> Nat]
  /\ f[0] = 0
  /\ \A i \in 1 .. Len(v) : f[i] = base * f[i - 1] + v[i]

(* The recursion of Number and of Total has a solution.                    *)
LEMMA CountsExist ==
  ASSUME NEW base \in {1, 10}, NEW v \in Units
  PROVE  \E f : Counts(base, v, f)
<1>. DEFINE Counted(f, m) == /\ f \in [0 .. m -> Nat] /\ f[0] = 0
                             /\ \A i \in 1 .. m : f[i] = base * f[i - 1] + v[i]
            n == Len(v)
            S == {i \in 0 .. n : \E f : Counted(f, i)}
<1>1. n \in Nat /\ \A i \in 1 .. n : v[i] \in Nat
  BY DEF Units
<1>2. 0 \in S
  <2>1. Counted([i \in 0 .. 0 |-> 0], 0)
    OBVIOUS
  <2>2. 0 \in 0 .. n
    BY <1>1
  <2>. HIDE DEF Counted, n
  <2>. QED  BY <2>1, <2>2
<1>3. ASSUME NEW i \in 0 .. n, i < n, i \in S PROVE i + 1 \in S
  <2>1. PICK f : Counted(f, i)
    BY <1>3
  <2>. DEFINE last == base * f[i] + v[i + 1]
              g == [k \in 0 .. i + 1 |-> IF k = i + 1 THEN last ELSE f[k]]
  <2>2. last \in Nat
    <3>1. f[i] \in Nat /\ v[i + 1] \in Nat
      BY <1>1, <1>3, <2>1
    <3>2. CASE base = 1
      BY <3>1, <3>2
    <3>3. CASE base = 10
      BY <3>1, <3>3
    <3>. QED  BY <3>2, <3>3
  <2>3. g \in [0 .. i + 1 -> Nat] /\ g[0] = 0
    BY <2>1, <2>2
  <2>4. ASSUME NEW k \in 1 .. i + 1 PROVE g[k] = base * g[k - 1] + v[k]
    <3>1. CASE k = i + 1
      <4>1. k \in 0 .. i + 1 /\ k - 1 \in 0 .. i + 1 /\ k - 1 = i /\ k - 1 # i + 1
        BY <3>1
      <4>2. g[k] = last /\ g[k - 1] = f[i]
        <5>. HIDE DEF last
        <5>. QED  BY <3>1, <4>1
      <4>. HIDE DEF g
      <4>. QED  BY <3>1, <4>2
    <3>2. CASE k # i + 1
      <4>1. k \in 1 .. i /\ k - 1 \in 0 .. i /\ k \in 0 .. i + 1 /\ k - 1 \in 0 .. i + 1 /\ k - 1 # i + 1
        BY <3>2
      <4>2. g[k] = f[k] /\ g[k - 1] = f[k - 1]
        <5>. HIDE DEF last
        <5>. QED  BY <3>2, <4>1
      <4>3. f[k] = base * f[k - 1] + v[k]
        BY <2>1, <4>1
      <4>. HIDE DEF g
      <4>. QED  BY <4>2, <4>3
    <3>. QED  BY <3>1, <3>2
  <2>5. Counted(g, i + 1)
    <3>. HIDE DEF g
    <3>. QED  BY <2>3, <2>4
  <2>6. i + 1 \in 0 .. n
    BY <1>1, <1>3
  <2>. HIDE DEF Counted
  <2>. QED  BY <2>5, <2>6
<1>4. n \in S
  <2>1. 0 .. n \subseteq S
    <3>. HIDE DEF S, n
    <3>. QED  BY <1>1, <1>2, <1>3, UpTo
  <2>2. n \in 0 .. n
    BY <1>1
  <2>. HIDE DEF S, n
  <2>. QED  BY <2>1, <2>2
<1>. QED  BY <1>4 DEF Counts

(* Number is that solution to base 10.                                     *)
LEMMA NumberIs ==
  ASSUME NEW text \in Units, NEW f, Counts(10, text, f)
  PROVE  Number(text) = f[Len(text)]
<1>. DEFINE n == Len(text)
            Loops(h) == h = [i \in 0 .. n |-> IF i = 0 THEN 0 ELSE 10 * h[i - 1] + text[i]]
            h == CHOOSE g : Loops(g)
<1>1. n \in Nat
  BY DEF Units
<1>2. Loops(f)
  <2>1. \A i \in 0 .. n : f[i] = IF i = 0 THEN 0 ELSE 10 * f[i - 1] + text[i]
    BY <1>1 DEF Counts
  <2>2. f = [i \in 0 .. n |-> f[i]]
    BY DEF Counts
  <2>. HIDE DEF n
  <2>. QED  BY <2>1, <2>2
<1>3. Loops(h)
  <2>. HIDE DEF Loops
  <2>. QED  BY <1>2
<1>4. Number(text) = h[n]
  BY DEF Number
<1>. HIDE DEF h, n
<1>5. \A i \in 0 .. n : h[i] = IF i = 0 THEN 0 ELSE 10 * h[i - 1] + text[i]
  BY <1>3
<1>6. h[0] = f[0]
  BY <1>1, <1>5 DEF Counts
<1>7. ASSUME NEW i \in 1 .. n, h[i - 1] = f[i - 1] PROVE h[i] = f[i]
  <2>1. h[i] = 10 * h[i - 1] + text[i]
    BY <1>1, <1>5
  <2>2. f[i] = 10 * f[i - 1] + text[i]
    BY DEF Counts, n
  <2>. QED  BY <1>7, <2>1, <2>2
<1>8. \A i \in 0 .. n : h[i] = f[i]
  <2>1. \A i \in 1 .. n : h[i - 1] = f[i - 1] => h[i] = f[i]
    BY <1>7
  <2>. HIDE DEF Loops
  <2>. QED  BY <1>1, <1>6, <2>1, SameLoop
<1>. QED  BY <1>1, <1>4, <1>8 DEF n

(* Total is that solution to base 1.                                       *)
LEMMA TotalIs ==
  ASSUME NEW counts \in Units, NEW f, Counts(1, counts, f)
  PROVE  Total(counts) = f[Len(counts)]
<1>. DEFINE n == Len(counts)
            Loops(h) == h = [i \in 0 .. n |-> IF i = 0 THEN 0 ELSE h[i - 1] + counts[i]]
            h == CHOOSE g : Loops(g)
<1>1. n \in Nat /\ \A i \in 0 .. n : f[i] \in Nat
  <2>1. n \in Nat
    BY DEF Units
  <2>2. \A i \in 0 .. n : f[i] \in Nat
    BY DEF Counts
  <2>. QED  BY <2>1, <2>2
<1>2. \A i \in 1 .. n : f[i] = f[i - 1] + counts[i]
  <2>1. TAKE i \in 1 .. n
  <2>2. f[i] = 1 * f[i - 1] + counts[i] /\ f[i - 1] \in Nat
    BY <1>1 DEF Counts
  <2>. QED  BY <2>2
<1>3. Loops(f)
  <2>1. \A i \in 0 .. n : f[i] = IF i = 0 THEN 0 ELSE f[i - 1] + counts[i]
    BY <1>1, <1>2 DEF Counts
  <2>2. f = [i \in 0 .. n |-> f[i]]
    BY DEF Counts
  <2>. HIDE DEF n
  <2>. QED  BY <2>1, <2>2
<1>4. Loops(h)
  <2>. HIDE DEF Loops
  <2>. QED  BY <1>3
<1>5. Total(counts) = h[n]
  BY DEF Total
<1>. HIDE DEF h, n
<1>6. \A i \in 0 .. n : h[i] = IF i = 0 THEN 0 ELSE h[i - 1] + counts[i]
  BY <1>4
<1>7. h[0] = f[0]
  BY <1>1, <1>6 DEF Counts
<1>8. ASSUME NEW i \in 1 .. n, h[i - 1] = f[i - 1] PROVE h[i] = f[i]
  <2>1. h[i] = h[i - 1] + counts[i]
    BY <1>1, <1>6
  <2>. QED  BY <1>2, <1>8, <2>1
<1>9. \A i \in 0 .. n : h[i] = f[i]
  <2>1. \A i \in 1 .. n : h[i - 1] = f[i - 1] => h[i] = f[i]
    BY <1>8
  <2>. HIDE DEF Loops
  <2>. QED  BY <1>1, <1>7, <2>1, SameLoop
<1>. QED  BY <1>1, <1>5, <1>9 DEF n

(* One more digit.                                                         *)
LEMMA NumberAppend ==
  ASSUME NEW text \in Units, NEW digit \in Nat
  PROVE  /\ Number(text) \in Nat
         /\ Number(Append(text, digit)) = 10 * Number(text) + digit
<1>. DEFINE n == Len(text)
            longer == Append(text, digit)
<1>1. PICK f : Counts(10, text, f)
  BY CountsExist
<1>2. longer \in Units /\ Len(longer) = n + 1 /\ n \in Nat /\ longer[n + 1] = digit
      /\ \A i \in 1 .. n : longer[i] = text[i]
  BY DEF Units
<1>. HIDE DEF longer
<1>3. PICK g : Counts(10, longer, g)
  BY <1>2, CountsExist
<1>. HIDE DEF n
<1>4. g[0] = f[0]
  BY <1>1, <1>3 DEF Counts
<1>5. ASSUME NEW i \in 1 .. n, g[i - 1] = f[i - 1] PROVE g[i] = f[i]
  <2>1. g[i] = 10 * g[i - 1] + longer[i]
    BY <1>2, <1>3 DEF Counts
  <2>2. f[i] = 10 * f[i - 1] + text[i]
    BY <1>1 DEF Counts, n
  <2>. QED  BY <1>2, <1>5, <2>1, <2>2
<1>6. g[n] = f[n]
  <2>1. \A i \in 1 .. n : g[i - 1] = f[i - 1] => g[i] = f[i]
    BY <1>5
  <2>2. n \in Nat
    BY <1>2
  <2>3. \A i \in 0 .. n : g[i] = f[i]
    BY <1>4, <2>1, <2>2, SameLoop
  <2>. QED  BY <2>2, <2>3
<1>7. Number(text) = f[n] /\ f[n] \in Nat
  <2>1. Number(text) = f[n]
    BY <1>1, NumberIs DEF n
  <2>. QED  BY <1>1, <1>2, <2>1 DEF Counts, n
<1>8. Number(longer) = g[n + 1]
  BY <1>2, <1>3, NumberIs
<1>9. g[n + 1] = 10 * g[n] + digit
  <2>1. n + 1 \in 1 .. Len(longer) /\ n + 1 - 1 = n
    BY <1>2
  <2>2. g[n + 1] = 10 * g[n + 1 - 1] + longer[n + 1]
    BY <1>3, <2>1 DEF Counts
  <2>. QED  BY <1>2, <2>1, <2>2
<1>. QED  BY <1>6, <1>7, <1>8, <1>9 DEF longer

(* No digits are zero.                                                     *)
LEMMA NumberOfNone ==  Number(<<>>) = 0
<1>1. PICK f : Counts(10, <<>>, f)
  <2>1. <<>> \in Units
    BY DEF Units
  <2>. QED  BY <2>1, CountsExist
<1>2. Number(<<>>) = f[0]
  <2>1. <<>> \in Units /\ Len(<<>>) = 0
    BY DEF Units
  <2>. QED  BY <1>1, <2>1, NumberIs
<1>. QED  BY <1>1, <1>2 DEF Counts

(* One digit is its number.                                                *)
LEMMA NumberOfOne ==
  ASSUME NEW d \in Nat
  PROVE  Number(<<d>>) = d
<1>1. <<>> \in Units /\ Append(<<>>, d) = <<d>>
  BY DEF Units
<1>2. Number(<<d>>) = 10 * Number(<<>>) + d
  <2>1. Number(Append(<<>>, d)) = 10 * Number(<<>>) + d
    BY <1>1, NumberAppend
  <2>. QED  BY <1>1, <2>1
<1>. QED  BY <1>2, NumberOfNone

(* The digits of the numbers up to n.                                      *)
Spelled(f, n) ==
  /\ f \in [0 .. n -> Units]
  /\ \A k \in 0 .. n : f[k] = IF k < 10 THEN <<k>> ELSE Append(f[k \div 10], k % 10)

(* Dividing by ten, which Digits goes on with.                             *)
LEMMA TenthSmaller ==
  ASSUME NEW k \in Nat, k >= 10
  PROVE  k \div 10 \in Nat /\ k \div 10 < k /\ k % 10 \in 0 .. 9 /\ k = 10 * (k \div 10) + (k % 10)
<1>1. k \div 10 \in Nat
  OBVIOUS
<1>2. k % 10 \in 0 .. 9
  OBVIOUS
<1>3. k = 10 * (k \div 10) + (k % 10)
  OBVIOUS
<1>. QED  BY <1>1, <1>2, <1>3

(* The recursion of Digits has a solution.                                 *)
LEMMA SpelledOut ==
  ASSUME NEW n \in Nat
  PROVE  \E f : Spelled(f, n)
<1>. DEFINE S == {i \in 0 .. n : \E f : Spelled(f, i)}
<1>1. 0 \in S
  <2>. DEFINE f == [k \in 0 .. 0 |-> <<k>>]
  <2>1. f \in [0 .. 0 -> Units]
    BY DEF Units
  <2>2. Spelled(f, 0)
    BY <2>1 DEF Spelled
  <2>. HIDE DEF f
  <2>. QED  BY <2>2
<1>2. ASSUME NEW i \in 0 .. n, i < n, i \in S PROVE i + 1 \in S
  <2>1. PICK f : Spelled(f, i)
    BY <1>2
  <2>. DEFINE m == i + 1
              last == IF m < 10 THEN <<m>> ELSE Append(f[m \div 10], m % 10)
              g == [k \in 0 .. m |-> IF k = m THEN last ELSE f[k]]
  <2>2. last \in Units
    <3>1. CASE m < 10
      BY <3>1 DEF Units
    <3>2. CASE m >= 10
      <4>1. m \div 10 \in 0 .. i /\ m % 10 \in Nat
        BY <3>2, TenthSmaller
      <4>2. f[m \div 10] \in Units
        BY <2>1, <4>1 DEF Spelled
      <4>. HIDE DEF m
      <4>3. last = Append(f[m \div 10], m % 10)
        BY <3>2 DEF m
      <4>. QED  BY <4>1, <4>2, <4>3 DEF Units
    <3>. QED  BY <3>1, <3>2
  <2>3. g \in [0 .. m -> Units]
    <3>1. \A k \in 0 .. m : k # m => f[k] \in Units
      BY <2>1 DEF Spelled
    <3>. HIDE DEF m, last
    <3>. QED  BY <2>2, <3>1
  <2>4. ASSUME NEW k \in 0 .. m
        PROVE  g[k] = IF k < 10 THEN <<k>> ELSE Append(g[k \div 10], k % 10)
    <3>1. k >= 10 => k \div 10 \in 0 .. m /\ k \div 10 # m /\ k \div 10 < k
      BY TenthSmaller
    <3>2. k >= 10 => g[k \div 10] = f[k \div 10]
      <4>. HIDE DEF m, last
      <4>. QED  BY <3>1
    <3>3. CASE k = m
      <4>1. g[k] = last
        <5>. HIDE DEF m, last
        <5>. QED  BY <3>3
      <4>. HIDE DEF g
      <4>. QED  BY <3>2, <3>3, <4>1
    <3>4. CASE k # m
      <4>1. g[k] = f[k]
        <5>. HIDE DEF m, last
        <5>. QED  BY <3>4
      <4>2. f[k] = IF k < 10 THEN <<k>> ELSE Append(f[k \div 10], k % 10)
        <5>1. k \in 0 .. i
          BY <3>4
        <5>. QED  BY <2>1, <5>1 DEF Spelled
      <4>. HIDE DEF g
      <4>. QED  BY <3>2, <4>1, <4>2
    <3>. QED  BY <3>3, <3>4
  <2>5. Spelled(g, m)
    <3>. HIDE DEF g, m
    <3>. QED  BY <2>3, <2>4 DEF Spelled
  <2>6. m \in 0 .. n
    BY <1>2
  <2>. HIDE DEF g
  <2>. QED  BY <2>5, <2>6
<1>3. n \in S
  <2>1. 0 .. n \subseteq S
    <3>. HIDE DEF S
    <3>. QED  BY <1>1, <1>2, UpTo
  <2>. HIDE DEF S
  <2>. QED  BY <2>1
<1>. QED  BY <1>3

(* Digits is that solution.                                                *)
LEMMA DigitsAre ==
  ASSUME NEW n \in Nat
  PROVE  \E f : Spelled(f, n) /\ Digits(n) = f[n]
<1>. DEFINE Loops(h) == h = [k \in 0 .. n |-> IF k < 10 THEN <<k>> ELSE Append(h[k \div 10], k % 10)]
            h == CHOOSE g : Loops(g)
<1>1. PICK f : Spelled(f, n)
  BY SpelledOut
<1>2. Loops(f)
  <2>1. f = [k \in 0 .. n |-> f[k]]
    BY <1>1 DEF Spelled
  <2>. QED  BY <1>1, <2>1 DEF Spelled
<1>3. Loops(h)
  <2>. HIDE DEF Loops
  <2>. QED  BY <1>2
<1>4. Digits(n) = h[n]
  BY DEF Digits
<1>. HIDE DEF h
<1>5. \A k \in 0 .. n : h[k] = IF k < 10 THEN <<k>> ELSE Append(h[k \div 10], k % 10)
  BY <1>3
<1>6. h \in [0 .. n -> Units]
  <2>. DEFINE bad == {k \in 0 .. n : h[k] \notin Units}
  <2>1. SUFFICES ASSUME bad # {} PROVE FALSE
    <3>1. \A k \in 0 .. n : h[k] \in Units
      BY <2>1
    <3>2. h = [k \in 0 .. n |-> h[k]]
      BY <1>3
    <3>. HIDE DEF Loops
    <3>. QED  BY <3>1, <3>2
  <2>2. PICK k \in bad : \A l \in bad : k <= l
    <3>1. bad \subseteq Nat
      OBVIOUS
    <3>. HIDE DEF bad
    <3>. QED  BY <2>1, <3>1, LeastNatural
  <2>3. k \in 0 .. n /\ h[k] \notin Units
    BY <2>2
  <2>4. h[k] = IF k < 10 THEN <<k>> ELSE Append(h[k \div 10], k % 10)
    BY <1>5, <2>3
  <2>5. CASE k < 10
    <3>1. h[k] = <<k>> /\ k \in Nat
      BY <2>3, <2>4, <2>5
    <3>2. h[k] \in Units
      BY <3>1 DEF Units
    <3>. QED  BY <2>3, <3>2
  <2>6. CASE k >= 10
    <3>1. k \div 10 \in 0 .. n /\ k \div 10 < k /\ k % 10 \in Nat
      BY <2>3, <2>6, TenthSmaller
    <3>2. h[k \div 10] \in Units
      BY <2>2, <3>1
    <3>3. h[k] = Append(h[k \div 10], k % 10)
      BY <2>3, <2>4, <2>6
    <3>4. h[k] \in Units
      BY <3>1, <3>2, <3>3 DEF Units
    <3>. QED  BY <2>3, <3>4
  <2>. QED  BY <2>3, <2>5, <2>6
<1>7. Spelled(h, n)
  BY <1>5, <1>6 DEF Spelled
<1>. QED  BY <1>4, <1>7

(* Digits are the text of a number, and Number gives it back.              *)
LEMMA DigitsStandForIt ==
  ASSUME NEW n \in Nat
  PROVE  Digits(n) \in Units /\ IsNumber(Digits(n)) /\ Number(Digits(n)) = n
<1>1. PICK f : Spelled(f, n) /\ Digits(n) = f[n]
  BY DigitsAre
<1>. DEFINE Is(k) == IsNumber(f[k]) /\ Number(f[k]) = k
            bad == {k \in 0 .. n : ~Is(k)}
<1>2. SUFFICES ASSUME bad # {} PROVE FALSE
  <2>1. Is(n)
    BY <1>2
  <2>2. f[n] \in Units
    BY <1>1 DEF Spelled
  <2>. QED  BY <1>1, <2>1, <2>2
<1>3. PICK k \in bad : \A l \in bad : k <= l
  <2>1. bad \subseteq Nat
    OBVIOUS
  <2>. HIDE DEF bad
  <2>. QED  BY <1>2, <2>1, LeastNatural
<1>4. k \in 0 .. n /\ ~Is(k)
  BY <1>3
<1>5. CASE k < 10
  <2>1. f[k] = <<k>> /\ k \in Nat
    BY <1>1, <1>4, <1>5 DEF Spelled
  <2>2. IsNumber(<<k>>)
    BY <1>4, <1>5 DEF IsNumber
  <2>. QED  BY <1>4, <2>1, <2>2, NumberOfOne
<1>6. CASE k >= 10
  <2>. DEFINE t == f[k \div 10]
              d == k % 10
  <2>1. k \div 10 \in 0 .. n /\ k \div 10 < k /\ d \in 0 .. 9 /\ k = 10 * (k \div 10) + d
    BY <1>4, <1>6, TenthSmaller
  <2>2. Is(k \div 10)
    BY <1>3, <2>1
  <2>3. t \in Units /\ f[k] = Append(t, d)
    BY <1>1, <1>4, <1>6, <2>1 DEF Spelled
  <2>4. IsNumber(t) /\ Number(t) = k \div 10
    BY <2>2
  <2>. HIDE DEF t, d
  <2>5. Number(Append(t, d)) = 10 * Number(t) + d
    BY <2>1, <2>3, NumberAppend
  <2>6. IsNumber(Append(t, d))
    <3>1. t \in Seq(Nat) /\ \A i \in 1 .. Len(t) : t[i] \in 0 .. 9
      <4>1. t \in Seq(Nat)
        BY <2>3 DEF Units
      <4>2. DOMAIN t = 1 .. Len(t)
        BY <4>1
      <4>3. \A i \in DOMAIN t : t[i] \in 0 .. 9
        BY <2>4 DEF IsNumber
      <4>. QED  BY <4>1, <4>2, <4>3
    <3>2. \A i \in 1 .. Len(t) + 1 : Append(t, d)[i] \in 0 .. 9
      BY <2>1, <3>1
    <3>3. Append(t, d) # <<>> /\ DOMAIN Append(t, d) = 1 .. Len(t) + 1
      BY <2>1, <3>1
    <3>. QED  BY <3>2, <3>3 DEF IsNumber
  <2>. QED  BY <1>4, <2>1, <2>3, <2>4, <2>5, <2>6
<1>. QED  BY <1>4, <1>5, <1>6

(* long is short and one number more.                                      *)
OneMore(long, short, n) ==
    /\ short \in Seq(Nat) /\ n \in Nat
    /\ long \in Seq(Nat) /\ Len(long) = Len(short) + 1
    /\ long[Len(short) + 1] = n
    /\ \A i \in 1 .. Len(short) : long[i] = short[i]

(* One number more is that number appended.                                *)
LEMMA OneMoreAppended ==
  ASSUME NEW long, NEW short, NEW n, OneMore(long, short, n)
  PROVE  Append(short, n) = long
<1>. DEFINE l == Append(short, n)
<1>1. short \in Seq(Nat) /\ n \in Nat /\ long \in Seq(Nat) /\ Len(long) = Len(short) + 1
  BY DEF OneMore
<1>2. l \in Seq(Nat) /\ Len(l) = Len(short) + 1
  BY <1>1
<1>3. ASSUME NEW i \in 1 .. Len(short) + 1 PROVE l[i] = long[i]
  BY <1>1 DEF OneMore
<1>. HIDE DEF l
<1>4. l = long
  BY <1>1, <1>2, <1>3, SeqEqual
<1>. QED  BY <1>4 DEF l

(* A second digit appended.                                                *)
LEMMA TwoDigits ==
  ASSUME NEW a \in Nat, NEW b \in Nat
  PROVE  Append(<<a>>, b) = <<a, b>>
<1>1. OneMore(<<a, b>>, <<a>>, b)
  BY DEF OneMore
<1>. QED  BY <1>1, OneMoreAppended

(* A third digit appended.                                                 *)
LEMMA DigitsOfThree ==
  ASSUME NEW a \in Nat, NEW b \in Nat, NEW c \in Nat
  PROVE  Append(<<a, b>>, c) = <<a, b, c>>
<1>1. OneMore(<<a, b, c>>, <<a, b>>, c)
  BY DEF OneMore
<1>. QED  BY <1>1, OneMoreAppended

(* Three digits of a fraction give its milliseconds.                       *)
LEMMA ThreeDigits ==
  ASSUME NEW m \in 0 .. 999, m % 10 # 0
  PROVE  Fraction(m) \in Units /\ Number(Fraction(m)) = m
<1>. DEFINE a == m \div 100
            b == (m \div 10) % 10
            c == m % 10
<1>1. a \in Nat /\ b \in Nat /\ c \in Nat
  OBVIOUS
<1>2. 100 * a + 10 * b + c = m
  OBVIOUS
<1>3. m # 0 /\ m % 100 # 0
  OBVIOUS
<1>4. Fraction(m) = <<a, b, c>>
  BY <1>3 DEF Fraction
<1>. HIDE DEF a, b, c
<1>5. Number(<<a>>) = a
  BY <1>1, NumberOfOne
<1>6. <<a>> \in Units /\ <<a, b>> \in Units /\ <<a, b, c>> \in Units
      /\ Append(<<a>>, b) = <<a, b>> /\ Append(<<a, b>>, c) = <<a, b, c>>
  <2>1. <<a>> \in Units /\ <<a, b>> \in Units
    BY <1>1 DEF Units
  <2>2. <<a, b, c>> \in Units
    BY <1>1 DEF Units
  <2>3. Append(<<a>>, b) = <<a, b>> /\ Append(<<a, b>>, c) = <<a, b, c>>
    BY <1>1, TwoDigits, DigitsOfThree
  <2>. QED  BY <2>1, <2>2, <2>3
<1>7. Number(<<a, b>>) = 10 * a + b
  <2>1. Number(Append(<<a>>, b)) = 10 * Number(<<a>>) + b
    BY <1>1, <1>6, NumberAppend
  <2>. QED  BY <1>5, <1>6, <2>1
<1>8. Number(<<a, b, c>>) = 10 * (10 * a + b) + c
  <2>1. Number(Append(<<a, b>>, c)) = 10 * Number(<<a, b>>) + c
    BY <1>1, <1>6, NumberAppend
  <2>. QED  BY <1>6, <1>7, <2>1
<1>. QED  BY <1>1, <1>2, <1>4, <1>6, <1>8

(* A moment of whole seconds, or whose fraction does not end in zero.      *)
FractionKept(ms) == ms % 1000 = 0 \/ ms % 10 # 0

(* What the executor reads of a printed moment.                            *)
LEMMA MomentRead ==
  ASSUME NEW cell, cell.kind = "moment", NEW ms \in Nat, cell.ms = ms,
         NEW text, text = Printed(cell), ms \div 1000 \in DOMAIN Mktime, IsTimestamp(text)
  PROVE  /\ text \in Units /\ text # <<>> /\ text[1] = DATE
         /\ ParseTimestampMs(text) \in Nat
         /\ FractionKept(ms) => ParseTimestampMs(text) = EpochMs(ms)
<1>. DEFINE seconds == ms \div 1000
            millis == ms % 1000
            epoch == Mktime[seconds]
            date == <<DATE, seconds>>
            fraction == Fraction(millis)
<1>1. seconds \in Nat /\ millis \in 0 .. 999 /\ EpochMs(ms) = epoch * 1000 + millis
  BY DEF EpochMs
<1>0. epoch \in Nat \cup {-1}
  BY ResultAssumption
<1>2. (ms % 10 # 0 => millis % 10 # 0) /\ (ms % 1000 = 0 => millis = 0)
  OBVIOUS
<1>3. text = date \o fraction
  BY DEF Printed
<1>4. fraction \in Units
  <2>1. millis \div 100 \in Nat /\ (millis \div 10) % 10 \in Nat /\ millis % 10 \in Nat
    BY <1>1
  <2>. HIDE DEF millis
  <2>. QED  BY <2>1 DEF Fraction, Units
<1>5. date \in Units /\ Len(date) = 2 /\ date[1] = DATE /\ date[2] = seconds
  BY <1>1 DEF Units, DATE
<1>. DEFINE kept == FractionKept(ms)
<1>6. kept => Number(fraction) = millis
  <2>1. CASE millis = 0
    <3>1. fraction = <<>>
      BY <2>1 DEF Fraction
    <3>. QED  BY <2>1, <3>1, NumberOfNone
  <2>2. CASE millis % 10 # 0
    <3>. HIDE DEF millis
    <3>. QED  BY <1>1, <2>2, ThreeDigits
  <2>3. kept => millis = 0 \/ millis % 10 # 0
    BY <1>2 DEF FractionKept
  <2>. QED  BY <2>1, <2>2, <2>3
<1>. HIDE DEF date, fraction, millis, seconds, kept, epoch
<1>7. text \in Units /\ Len(text) = 2 + Len(fraction) /\ Len(fraction) \in Nat
  <2>1. Len(date \o fraction) = 2 + Len(fraction) /\ date \o fraction \in Units
    BY <1>4, <1>5, JoinSize
  <2>2. Len(fraction) \in Nat
    BY <1>4 DEF Units
  <2>. QED  BY <1>3, <2>1, <2>2
<1>8. Stands(text, 0, date) /\ Stands(text, 2, fraction)
  <2>1. Stands(text, 0, text)
    BY <1>7, StandsItself
  <2>2. Stands(text, 0, date)
    BY <1>3, <1>4, <1>5, <1>7, <2>1, StandsJoined
  <2>. QED  BY <1>3, <1>4, <1>5, <2>2, StandsBehind
<1>9. text[1] = DATE /\ text[2] = seconds
  <2>1. text[0 + 1] = date[1] /\ text[0 + 2] = date[2]
    BY <1>5, <1>8 DEF Stands
  <2>. QED  BY <1>5, <2>1
<1>10. SubSeq(text, 3, Len(text)) = fraction
  <2>1. SubSeq(text, 2 + 1, 2 + Len(fraction)) = fraction
    BY <1>4, <1>7, <1>8, StandsCut
  <2>. QED  BY <1>7, <2>1
<1>11. ParseTimestampMs(text) = epoch * 1000 + Number(fraction)
  <2>1. ParseTimestampMs(text) = Mktime[text[2]] * 1000 + Number(SubSeq(text, 3, Len(text)))
    BY <1>9, Zenon DEF ParseTimestampMs
  <2>. DEFINE rest == SubSeq(text, 3, Len(text))
  <2>2. ParseTimestampMs(text) = Mktime[text[2]] * 1000 + Number(rest) /\ rest = fraction
    BY <1>10, <2>1
  <2>3. Mktime[text[2]] = epoch
    BY <1>9 DEF epoch
  <2>. HIDE DEF rest
  <2>. QED  BY <2>2, <2>3
<1>12. Number(fraction) \in Nat
  BY <1>4, NumberAppend
<1>13. text # <<>>
  BY <1>7
<1>14. ParseTimestampMs(text) \in Nat
  <2>1. ~IsNumber(text)
    <3>1. 1 \in DOMAIN text /\ text[1] \notin 0 .. 9
      BY <1>7, <1>9 DEF Units, DATE
    <3>. QED  BY <3>1 DEF IsNumber
  <2>2. epoch # -1
    BY <1>9, <2>1 DEF IsTimestamp, epoch
  <2>3. epoch \in Nat
    BY <1>0, <2>2
  <2>. QED  BY <1>11, <1>12, <2>3
<1>15. kept => ParseTimestampMs(text) = EpochMs(ms)
  BY <1>1, <1>6, <1>11
<1>. QED  BY <1>7, <1>9, <1>13, <1>14, <1>15 DEF kept

-----------------------------------------------------------------------------
(* The page of the database.                                               *)

(* Min is the least of a set of naturals.                                  *)
LEMMA LeastOf ==
  ASSUME NEW S, S \subseteq Nat, S # {}
  PROVE  Min(S) \in S /\ \A y \in S : Min(S) <= y
<1>1. \E x \in S : \A y \in S : x <= y
  BY LeastNatural
<1>. QED  BY <1>1 DEF Min

(* The fractions of all moments are printed to their last digit, or empty. *)
Kept(t) ==
  \A r \in DOMAIN t.rows : \A f \in DOMAIN t.names :
    t.rows[r][f].kind = "moment" => FractionKept(t.rows[r][f].ms)

FractionsKept == \A t \in Tables : Kept(t)

(* A table cut to what a response may hold.                                *)
IsPage(p) == IsTable(p) /\ Len(p.rows) <= MaxRows /\ (FractionsKept => Kept(p))

(* What the database answers is a page.                                    *)
LEMMA AnswerIsPage ==
  ASSUME NEW table \in Tables, NEW limit \in 0 .. MaxRows, NEW offset \in Offsets
  PROVE  IsPage(Answer(table, limit, offset))
<1>. DEFINE count == IF limit > 0 THEN limit ELSE DefaultLimit
            all == table.rows
            end == Min({Len(all), offset + count})
            some == SubSeq(all, offset + 1, end)
            p == Answer(table, limit, offset)
<1>1. IsTable(table)
  BY ResultAssumption
<1>2. count \in 0 .. MaxRows /\ offset \in Nat /\ MaxRows \in Nat
  BY ResultAssumption
<1>3. all \in Seq(Seq(Cells)) /\ Len(all) \in Nat
  BY <1>1 DEF IsTable
<1>4. p = [table EXCEPT !.rows = some]
  BY DEF Answer
<1>. HIDE DEF count, p
<1>5. end \in Nat /\ end <= Len(all) /\ end <= offset + count
  <2>. DEFINE both == {Len(all), offset + count}
  <2>1. both \subseteq Nat /\ both # {} /\ Len(all) \in both /\ offset + count \in both
    BY <1>2, <1>3
  <2>2. end = Min(both)
    OBVIOUS
  <2>. HIDE DEF both, end
  <2>3. end \in both /\ \A y \in both : end <= y
    BY <2>1, <2>2, LeastOf
  <2>. QED  BY <2>1, <2>3
<1>. HIDE DEF end, all
<1>6. some \in Seq(Seq(Cells)) /\ Len(some) <= MaxRows
      /\ \A r \in DOMAIN some : offset + r \in DOMAIN all /\ some[r] = all[offset + r]
  <2>1. CASE end <= offset
    <3>1. some = <<>>
      BY <1>2, <1>3, <1>5, <2>1
    <3>2. <<>> \in Seq(Seq(Cells)) /\ Len(<<>>) = 0 /\ DOMAIN <<>> = {}
      OBVIOUS
    <3>. HIDE DEF some
    <3>. QED  BY <1>2, <3>1, <3>2
  <2>2. CASE end > offset
    <3>1. some = [r \in 1 .. end - offset |-> all[offset + r]]
      BY <1>2, <1>3, <1>5, <2>2
    <3>2. \A r \in 1 .. end - offset : offset + r \in 1 .. Len(all)
      BY <1>2, <1>3, <1>5, <2>2
    <3>3. \A r \in 1 .. end - offset : all[offset + r] \in Seq(Cells)
      BY <1>3, <3>2
    <3>4. end - offset \in Nat /\ end - offset <= MaxRows
      BY <1>2, <1>5, <2>2
    <3>. HIDE DEF some
    <3>5. some \in Seq(Seq(Cells)) /\ Len(some) = end - offset /\ DOMAIN some = 1 .. end - offset
      BY <3>1, <3>3, <3>4
    <3>6. DOMAIN all = 1 .. Len(all)
      BY <1>3
    <3>. QED  BY <3>1, <3>2, <3>4, <3>5, <3>6
  <2>. QED  BY <1>2, <1>3, <1>5, <2>1, <2>2
<1>. HIDE DEF some
<1>7. p.names = table.names /\ p.types = table.types /\ p.rows = some
      /\ p \in [names : Seq(Seq(Nat)), types : Seq(FieldTypes), rows : Seq(Seq(Cells))]
  <2>1. table \in [names : Seq(Seq(Nat)), types : Seq(FieldTypes), rows : Seq(Seq(Cells))]
    BY <1>1 DEF IsTable
  <2>. QED  BY <1>4, <1>6, <2>1
<1>8. ASSUME NEW r \in DOMAIN some
      PROVE  /\ Len(some[r]) = Len(table.names)
             /\ \A f \in DOMAIN table.names :
                  some[r][f].kind = "moment" =>
                    /\ table.types[f] = HDB_FT_TIMESTAMP_MS
                    /\ some[r][f].ms \div 1000 \in DOMAIN Mktime
  BY <1>1, <1>6 DEF IsTable, all
<1>9. IsTable(p)
  BY <1>1, <1>7, <1>8 DEF IsTable
<1>10. ASSUME FractionsKept PROVE Kept(p)
  <2>1. Kept(table)
    BY <1>10 DEF FractionsKept
  <2>2. \A r \in DOMAIN some : offset + r \in DOMAIN table.rows /\ some[r] = table.rows[offset + r]
    BY <1>6 DEF all
  <2>. QED  BY <1>7, <2>1, <2>2 DEF Kept
<1>. QED  BY <1>6, <1>7, <1>9, <1>10 DEF IsPage, p

(* So is the page before there is one.                                     *)
LEMMA NoPageIsPage ==  IsPage(NoPage)
<1>1. NoPage \in [names : Seq(Seq(Nat)), types : Seq(FieldTypes), rows : Seq(Seq(Cells))]
  BY DEF NoPage
<1>2. Len(NoPage.types) = Len(NoPage.names) /\ Len(NoPage.rows) = 0 /\ DOMAIN NoPage.rows = {}
  BY DEF NoPage
<1>. QED  BY <1>1, <1>2, ResultAssumption DEF IsPage, IsTable, Kept

(* What stands in the cells of a page.                                     *)
LEMMA PageCells ==
  ASSUME NEW p, IsPage(p), NEW r \in DOMAIN p.rows, NEW f \in DOMAIN p.names
  PROVE  /\ p.rows[r] \in Seq(Cells) /\ p.rows[r][f] \in Cells /\ f \in DOMAIN p.types
         /\ p.types[f] \in FieldTypes
         /\ p.rows[r][f].kind = "moment" =>
              p.types[f] = HDB_FT_TIMESTAMP_MS /\ p.rows[r][f].ms \div 1000 \in DOMAIN Mktime
<1>1. p.names \in Seq(Seq(Nat)) /\ p.types \in Seq(FieldTypes) /\ p.rows \in Seq(Seq(Cells))
      /\ Len(p.types) = Len(p.names)
  BY DEF IsPage, IsTable
<1>2. p.rows[r] \in Seq(Cells)
  BY <1>1
<1>3. Len(p.rows[r]) = Len(p.names)
  BY DEF IsPage, IsTable
<1>4. f \in 1 .. Len(p.names)
  BY <1>1
<1>5. p.rows[r][f] \in Cells
  <2>. DEFINE row == p.rows[r]
  <2>1. row \in Seq(Cells) /\ f \in 1 .. Len(row)
    BY <1>2, <1>3, <1>4
  <2>. HIDE DEF row
  <2>2. row[f] \in Cells
    BY <2>1
  <2>. QED  BY <2>2 DEF row
<1>6. f \in DOMAIN p.types /\ p.types[f] \in FieldTypes
  <2>. DEFINE types == p.types
  <2>1. types \in Seq(FieldTypes) /\ f \in 1 .. Len(types)
    BY <1>1, <1>4
  <2>. HIDE DEF types
  <2>2. f \in DOMAIN types /\ types[f] \in FieldTypes
    BY <2>1
  <2>. QED  BY <2>2 DEF types
<1>7. p.rows[r][f].kind = "moment" =>
        p.types[f] = HDB_FT_TIMESTAMP_MS /\ p.rows[r][f].ms \div 1000 \in DOMAIN Mktime
  BY DEF IsPage, IsTable
<1>. QED  BY <1>2, <1>5, <1>6, <1>7

(* A cell that passes the executor.                                        *)
Passes(cell, type) ==
  /\ cell \in Cells /\ type \in FieldTypes
  /\ cell.kind = "moment" =>
       type = HDB_FT_TIMESTAMP_MS /\ cell.ms \div 1000 \in DOMAIN Mktime
  /\ type = HDB_FT_TIMESTAMP_MS /\ cell.kind # "null" => IsTimestamp(Printed(cell))

(* A text is printed as it is and never looks like a moment.               *)
LEMMA TextCell ==
  ASSUME NEW cell \in Cells, cell.kind = "text"
  PROVE  Printed(cell) = cell.text /\ cell.text \in Units /\ (cell.text # <<>> => cell.text[1] # DATE)
<1>1. cell.text \in Seq(Nat \ {DATE})
  BY DEF Cells
<1>2. Printed(cell) = cell.text
  BY DEF Printed
<1>3. cell.text \in Units
  BY <1>1 DEF Units
<1>4. ASSUME cell.text # <<>> PROVE cell.text[1] # DATE
  <2>. DEFINE text == cell.text
  <2>1. text \in Seq(Nat \ {DATE}) /\ text # <<>>
    BY <1>1, <1>4
  <2>. HIDE DEF text
  <2>2. 1 \in 1 .. Len(text)
    BY <2>1
  <2>3. text[1] \in Nat \ {DATE}
    BY <2>1, <2>2
  <2>. QED  BY <2>3 DEF text
<1>. QED  BY <1>2, <1>3, <1>4

(* What becomes of a cell: its text, or the number of its milliseconds.    *)
LEMMA CellOfIs ==
  ASSUME NEW cell, NEW type, Passes(cell, type), NEW value, value = CellOf(cell, type).value
  PROVE  /\ CellOf(cell, type) \in Values
         /\ CellOf(cell, type).isNull = (cell.kind = "null")
         /\ cell.kind = "text" /\ type # HDB_FT_TIMESTAMP_MS => value = cell.text
         /\ cell.kind = "text" => Number(value) = Number(cell.text)
         /\ cell.kind = "moment" /\ FractionKept(cell.ms) => Number(value) = EpochMs(cell.ms)
<1>. DEFINE null == cell.kind = "null"
            time == type = HDB_FT_TIMESTAMP_MS
            text == Printed(cell)
            ms == ParseTimestampMs(text)
<1>1. CellOf(cell, type) = [isNull |-> null, value |-> IF time /\ ~null THEN Digits(ms) ELSE text]
  BY DEF CellOf
<1>2. cell \in Cells /\ cell.kind \in {"null", "text", "moment"} /\ null \in BOOLEAN
  BY DEF Passes, Cells
<1>3. CellOf(cell, type).isNull = null /\ value = IF time /\ ~null THEN Digits(ms) ELSE text
  BY <1>1
<1>4. value \in Units => CellOf(cell, type) \in Values
  BY <1>1, <1>2, <1>3 DEF Values
<1>5. CASE cell.kind = "null"
  <2>1. value = <<>>
    BY <1>3, <1>5 DEF Printed
  <2>2. value \in Units
    BY <2>1 DEF Units
  <2>. QED  BY <1>3, <1>4, <1>5, <2>2
<1>6. CASE cell.kind = "text"
  <2>1. text = cell.text /\ text \in Units /\ (text # <<>> => text[1] # DATE)
    BY <1>2, <1>6, TextCell
  <2>2. CASE ~time
    <3>1. value = cell.text
      BY <1>3, <2>1, <2>2
    <3>. QED  BY <1>3, <1>4, <1>6, <2>1, <3>1
  <2>3. CASE time
    <3>1. IsTimestamp(text)
      BY <1>6, <2>3 DEF Passes
    <3>2. text # <<>>
      BY <3>1 DEF IsTimestamp, IsNumber
    <3>. HIDE DEF text
    <3>3. ms = Number(text)
      BY <2>1, <3>2, Zenon DEF ParseTimestampMs
    <3>4. ms \in Nat
      BY <2>1, <3>3, NumberAppend
    <3>5. value = Digits(ms)
      BY <1>3, <1>6, <2>3
    <3>. HIDE DEF ms
    <3>6. value \in Units /\ Number(value) = ms
      BY <3>4, <3>5, DigitsStandForIt
    <3>. QED  BY <1>3, <1>4, <1>6, <2>1, <2>3, <3>3, <3>6
  <2>. QED  BY <2>2, <2>3
<1>7. CASE cell.kind = "moment"
  <2>1. time /\ ~null /\ cell.ms \in Nat /\ cell.ms \div 1000 \in DOMAIN Mktime /\ IsTimestamp(text)
    BY <1>2, <1>7 DEF Passes, Cells
  <2>2. ms \in Nat /\ (FractionKept(cell.ms) => ms = EpochMs(cell.ms))
    BY <1>7, <2>1, MomentRead
  <2>3. value = Digits(ms)
    BY <1>3, <2>1
  <2>. HIDE DEF ms
  <2>4. value \in Units /\ Number(value) = ms
    BY <2>2, <2>3, DigitsStandForIt
  <2>. QED  BY <1>3, <1>4, <1>7, <2>2, <2>4
<1>. QED  BY <1>2, <1>5, <1>6, <1>7

(* What the command handler makes of a page.                               *)
LEMMA ConvertIs ==
  ASSUME NEW p, IsPage(p), Normalizes(p), NEW s, s = Convert(p)
  PROVE  /\ s.columns \in Seq(Columns) /\ Len(s.columns) = Len(p.names)
         /\ DOMAIN s.columns = DOMAIN p.names
         /\ \A f \in DOMAIN p.names :
              s.columns[f] = [name |-> p.names[f], fieldType |-> p.types[f]]
         /\ s.rows \in Seq(Rows) /\ Len(s.rows) = Len(p.rows) /\ DOMAIN s.rows = DOMAIN p.rows
         /\ \A r \in DOMAIN p.rows :
              /\ Len(s.rows[r]) = Len(p.names) /\ DOMAIN s.rows[r] = DOMAIN p.names
              /\ \A f \in DOMAIN p.names :
                   /\ s.rows[r][f] = CellOf(p.rows[r][f], p.types[f])
                   /\ Passes(p.rows[r][f], p.types[f])
<1>. DEFINE n == Len(p.names)
            m == Len(p.rows)
            column(f) == [name |-> p.names[f], fieldType |-> p.types[f]]
            cell(r, f) == CellOf(p.rows[r][f], p.types[f])
<1>1. n \in Nat /\ DOMAIN p.names = 1 .. n /\ m \in Nat /\ DOMAIN p.rows = 1 .. m
  BY DEF IsPage, IsTable
<1>2. s.columns = [f \in 1 .. n |-> column(f)]
      /\ s.rows = [r \in 1 .. m |-> [f \in 1 .. n |-> cell(r, f)]]
  BY <1>1 DEF Convert
<1>3. ASSUME NEW f \in 1 .. n PROVE column(f) \in Columns
  <2>1. p.names[f] \in Units
    BY <1>1 DEF IsPage, IsTable, Units
  <2>2. p.types[f] \in FieldTypes
    <3>1. p.types \in Seq(FieldTypes) /\ f \in 1 .. Len(p.types)
      BY DEF IsPage, IsTable
    <3>. QED  BY <3>1
  <2>. QED  BY <2>1, <2>2 DEF Columns
<1>4. ASSUME NEW r \in 1 .. m, NEW f \in 1 .. n
      PROVE  Passes(p.rows[r][f], p.types[f]) /\ cell(r, f) \in Values
  <2>1. /\ p.rows[r][f] \in Cells /\ p.types[f] \in FieldTypes /\ f \in DOMAIN p.types
        /\ p.rows[r][f].kind = "moment" =>
             p.types[f] = HDB_FT_TIMESTAMP_MS /\ p.rows[r][f].ms \div 1000 \in DOMAIN Mktime
    <3>1. r \in DOMAIN p.rows /\ f \in DOMAIN p.names
      BY <1>1
    <3>. QED  BY <3>1, PageCells
  <2>2. p.types[f] = HDB_FT_TIMESTAMP_MS /\ p.rows[r][f].kind # "null"
        => IsTimestamp(Printed(p.rows[r][f]))
    BY <1>1, <2>1 DEF Normalizes
  <2>3. Passes(p.rows[r][f], p.types[f])
    BY <2>1, <2>2 DEF Passes
  <2>. QED  BY <2>3, CellOfIs
<1>. HIDE DEF column, cell, n, m
<1>5. s.columns \in Seq(Columns) /\ Len(s.columns) = n /\ DOMAIN s.columns = 1 .. n
      /\ \A f \in 1 .. n : s.columns[f] = column(f)
  BY <1>1, <1>2, <1>3
<1>6. ASSUME NEW r \in 1 .. m
      PROVE  /\ s.rows[r] \in Rows /\ Len(s.rows[r]) = n /\ DOMAIN s.rows[r] = 1 .. n
             /\ \A f \in 1 .. n : s.rows[r][f] = cell(r, f)
  <2>1. s.rows[r] = [f \in 1 .. n |-> cell(r, f)]
    BY <1>2
  <2>2. \A f \in 1 .. n : cell(r, f) \in Values
    BY <1>4
  <2>. QED  BY <1>1, <2>1, <2>2 DEF Rows
<1>7. s.rows \in Seq(Rows) /\ Len(s.rows) = m /\ DOMAIN s.rows = 1 .. m
  <2>1. \A r \in 1 .. m : [f \in 1 .. n |-> cell(r, f)] \in Rows
    <3>1. \A r \in 1 .. m : [f \in 1 .. n |-> cell(r, f)] = s.rows[r]
      BY <1>2
    <3>. QED  BY <1>6, <3>1
  <2>. QED  BY <1>1, <1>2, <2>1
<1>. QED  BY <1>1, <1>4, <1>5, <1>6, <1>7 DEF n, m, column, cell

(* A page that was encoded arrives.                                        *)
LEMMA PageArrives ==
  ASSUME NEW p, IsPage(p), Normalizes(p), NEW s, s = Convert(p), Encodes(s)
  PROVE  /\ IsComplete(Received(Body(s)))
         /\ Received(Body(s)).columns = s.columns /\ Received(Body(s)).rows = s.rows
<1>1. /\ s.columns \in Seq(Columns) /\ Len(s.columns) = Len(p.names)
      /\ s.rows \in Seq(Rows) /\ Len(s.rows) = Len(p.rows) /\ DOMAIN s.rows = DOMAIN p.rows
      /\ \A r \in DOMAIN p.rows : Len(s.rows[r]) = Len(p.names)
  BY ConvertIs
<1>2. /\ Len(s.columns) <= MaxColumns /\ Len(s.rows) <= MaxRows
      /\ \A f \in DOMAIN s.columns : Len(s.columns[f].name) <= MaxCell
      /\ \A r \in DOMAIN s.rows : Fits(s.rows[r])
  BY DEF Encodes, Fits
<1>3. \A r \in DOMAIN s.rows : RowFits(s.rows[r], s.columns)
  BY <1>1, <1>2 DEF RowFits
<1>4. AllFit(s.rows, s.columns)
  BY <1>3 DEF AllFit
<1>. QED  BY <1>1, <1>2, <1>4, RoundTrip

(* What HdbQueryExecute answers to a page p.                               *)
Sent(p)  == Encodes(Convert(p)) /\ Len(Body(Convert(p))) <= MaxBody

CodeFor(p) ==
  IF ~Normalizes(p) THEN "HDB_ERR_TYPE_MISMATCH"
  ELSE IF Sent(p) THEN "HDB_OK" ELSE "HDB_ERR_BUFFER"

Executed(p) ==
  /\ page' = p
  /\ told' = Told("Execute", <<>>, CodeFor(p))
  /\ IF CodeFor(p) = "HDB_OK" THEN result' = Convert(p) /\ currentRow' = -1
                              ELSE UNCHANGED <<result, currentRow>>
  /\ UNCHANGED visited

(* A request is Executed of some page.                                     *)
LEMMA ExecuteIs ==
  ASSUME NEW table \in Tables, NEW limit \in 0 .. MaxRows, NEW offset \in Offsets,
         HdbQueryExecute(table, limit, offset)
  PROVE  result = NoResult /\ \E p : IsPage(p) /\ Executed(p)
<1>. DEFINE p == Answer(table, limit, offset)
            s == Convert(p)
            response == HandleQueryExecute(p)
            received == Received(response.body)
            code == IF response.status # "HDB_OK" THEN response.status
                    ELSE IF IsComplete(received) THEN "HDB_OK" ELSE "HDB_ERR_BUFFER"
<1>1. IsPage(p)
  BY AnswerIsPage
<1>2. /\ result = NoResult
      /\ page' = p
      /\ told' = Told("Execute", <<>>, code)
      /\ IF code = "HDB_OK" THEN FillResult(received.columns, received.rows)
                            ELSE UNCHANGED <<result, currentRow>>
      /\ UNCHANGED visited
  BY DEF HdbQueryExecute
<1>. HIDE DEF p
<1>3. CASE ~Normalizes(p)
  <2>1. response.status = "HDB_ERR_TYPE_MISMATCH"
    BY <1>3 DEF HandleQueryExecute, Refuse
  <2>2. code = CodeFor(p) /\ code # "HDB_OK"
    BY <1>3, <2>1 DEF CodeFor
  <2>. HIDE DEF code
  <2>. QED  BY <1>1, <1>2, <2>2 DEF Executed
<1>4. CASE Normalizes(p) /\ ~Sent(p)
  <2>1. s \in [columns : {s.columns}, rows : {s.rows}]
    BY DEF Convert
  <2>2. response.status = "HDB_ERR_BUFFER"
    <3>1. ~Encodes(s) \/ ~(Len(Body(s)) <= MaxBody)
      BY <1>4 DEF Sent
    <3>2. Encodes(s) => Body(s) \in Units
      <4>1. s.columns \in Seq(Columns) /\ s.rows \in Seq(Rows)
        BY <1>1, <1>4, ConvertIs
      <4>2. EncodeSchema(s) \in Units /\ EncodeRows(s) \in Units
        BY <4>1, SchemaSizeIs, RowsSizeIs
      <4>. QED  BY <4>2, BodyIs
    <3>3. ~Encodes(s) \/ Len(Body(s)) > MaxBody
      <4>1. Encodes(s) => Len(Body(s)) \in Nat
        BY <3>2 DEF Units
      <4>2. MaxBody \in Nat
        BY ResultAssumption
      <4>. QED  BY <3>1, <4>1, <4>2
    <3>. QED  BY <1>4, <3>3 DEF HandleQueryExecute, Refuse
  <2>3. code = CodeFor(p) /\ code # "HDB_OK"
    BY <1>4, <2>2 DEF CodeFor
  <2>. HIDE DEF code
  <2>. QED  BY <1>1, <1>2, <2>3 DEF Executed
<1>5. CASE Normalizes(p) /\ Sent(p)
  <2>1. Encodes(s) /\ Len(Body(s)) <= MaxBody
    BY <1>5 DEF Sent
  <2>2. Body(s) \in Units
    <3>1. s.columns \in Seq(Columns) /\ s.rows \in Seq(Rows)
      BY <1>1, <1>5, ConvertIs
    <3>2. EncodeSchema(s) \in Units /\ EncodeRows(s) \in Units
      BY <3>1, SchemaSizeIs, RowsSizeIs
    <3>. QED  BY <3>2, BodyIs
  <2>3. ~(Len(Body(s)) > MaxBody)
    <3>1. Len(Body(s)) \in Nat /\ MaxBody \in Nat
      BY <2>2, ResultAssumption DEF Units
    <3>. QED  BY <2>1, <3>1
  <2>4. response.status = "HDB_OK" /\ response.body = Body(s)
    BY <1>5, <2>1, <2>3 DEF HandleQueryExecute
  <2>5. IsComplete(received) /\ received.columns = s.columns /\ received.rows = s.rows
    BY <1>1, <1>5, <2>1, <2>4, PageArrives
  <2>6. code = CodeFor(p) /\ code = "HDB_OK"
    BY <1>5, <2>4, <2>5 DEF CodeFor
  <2>7. FillResult(s.columns, s.rows)
    BY <1>2, <2>5, <2>6
  <2>8. s = [columns |-> s.columns, rows |-> s.rows]
    BY DEF Convert
  <2>9. result' = s /\ currentRow' = -1
    <3>. HIDE DEF s
    <3>. QED  BY <2>7, <2>8 DEF FillResult
  <2>. HIDE DEF code
  <2>. QED  BY <1>1, <1>2, <2>6, <2>9 DEF Executed
<1>. QED  BY <1>3, <1>4, <1>5

-----------------------------------------------------------------------------
(* The inductive invariant.                                                *)

PageIn == IsPage(page)

(* The handle holds what the handler made of the page.                     *)
HandleIs ==
  result # NoResult => Normalizes(page) /\ Sent(page) /\ result = Convert(page)

CursorIn ==
  /\ currentRow \in -1 .. Len(result.rows) - 1
  /\ visited = [i \in 1 .. currentRow + 1 |-> i]

(* A caller was told the size its text needs.                              *)
RequiredIs ==
  \A name : told.call = "GetString" /\ told.code = "HDB_ERR_BUFFER" /\ told.name = name
            => /\ result # NoResult
               /\ Readable(name, {HDB_FT_CHAR_ARRAY}) = "HDB_OK"
               /\ told.required = Len(CurrentCell(name).value) + 1

IInv == PageIn /\ HandleIs /\ CursorIn /\ RequiredIs

(* The invariant holds at first.                                           *)
LEMMA InitIInv ==
  ASSUME Init
  PROVE  IInv
<1>1. PageIn
  BY NoPageIsPage DEF Init, PageIn
<1>2. HandleIs
  BY DEF Init, HandleIs
<1>3. CursorIn
  <2>1. result.rows = <<>> /\ currentRow = -1 /\ visited = <<>>
    BY DEF Init, NoResult
  <2>2. [i \in 1 .. -1 + 1 |-> i] = <<>>
    OBVIOUS
  <2>. QED  BY <2>1, <2>2 DEF CursorIn
<1>4. RequiredIs
  BY DEF Init, RequiredIs, Told
<1>. QED  BY <1>1, <1>2, <1>3, <1>4 DEF IInv

(* The parts of the invariant that a call which only reads keeps.          *)
LEMMA ReadKeeps ==
  ASSUME IInv, UNCHANGED <<page, result, currentRow, visited>>
  PROVE  PageIn' /\ HandleIs' /\ CursorIn'
BY DEF IInv, PageIn, HandleIs, CursorIn

(* Only HdbResultGetString tells a required size.                          *)
LEMMA OthersRequireNothing ==
  ASSUME told'.call # "GetString"
  PROVE  RequiredIs'
BY DEF RequiredIs

(* Reading depends on the handle and the cursor alone.                     *)
LEMMA ReadableSame ==
  ASSUME UNCHANGED <<result, currentRow>>, NEW name, NEW types
  PROVE  /\ Readable(name, types)' = Readable(name, types)
         /\ CurrentCell(name)' = CurrentCell(name)
BY DEF Readable, GetCurrentCell, CurrentCell, CurrentType, FoundColumns, OnRow

(* What a getter of a number and GetString tell.                           *)
LEMMA IntegerTold ==
  ASSUME NEW call, NEW name, NEW types, NEW max, GetInteger(call, name, types, max)
  PROVE  /\ result # NoResult /\ UNCHANGED <<page, result, currentRow, visited>>
         /\ told'.call = call /\ told'.name = name
         /\ told'.code = "HDB_OK" =>
              /\ Readable(name, types) = "HDB_OK"
              /\ told'.number = Number(CurrentCell(name).value)
<1>. DEFINE access == Readable(name, types)
            text == CurrentCell(name).value
            code == IF access = "HDB_OK" /\ ~(IsNumber(text) /\ Number(text) <= max)
                    THEN "HDB_ERR_TYPE_MISMATCH" ELSE access
            number == IF code = "HDB_OK" THEN Number(text) ELSE 0
<1>1. /\ result # NoResult /\ UNCHANGED <<page, result, currentRow, visited>>
      /\ told' = [Told(call, name, code) EXCEPT !.number = number]
  BY DEF GetInteger
<1>2. code = "HDB_OK" => access = "HDB_OK" /\ number = Number(text)
  OBVIOUS
<1>. HIDE DEF access, text, code, number
<1>3. told'.call = call /\ told'.name = name /\ told'.code = code /\ told'.number = number
  BY <1>1 DEF Told
<1>. QED  BY <1>1, <1>2, <1>3 DEF access, text

(* What reading a text answers, of the access to its cell.                 *)
StringCode(access, text, size) ==
    IF access = "HDB_OK" /\ ~Copies(text, size) THEN "HDB_ERR_BUFFER" ELSE access

(* What HdbResultGetString tells.                                          *)
LEMMA StringTold ==
  ASSUME NEW name, NEW size, HdbResultGetString(name, size),
         NEW access, access = Readable(name, {HDB_FT_CHAR_ARRAY}),
         NEW text, text = CurrentCell(name).value
  PROVE  /\ result # NoResult /\ UNCHANGED <<page, result, currentRow, visited>>
         /\ told'.call = "GetString" /\ told'.name = name /\ told'.size = size
         /\ told'.code = StringCode(access, text, size)
         /\ access = "HDB_OK" => told'.required = Len(text) + 1
         /\ told'.code = "HDB_OK" => access = "HDB_OK" /\ told'.text = text
<1>. DEFINE code == StringCode(access, text, size)
            required == IF access = "HDB_OK" THEN Len(text) + 1 ELSE 0
            copied == IF code = "HDB_OK" THEN text ELSE <<>>
<1>1. /\ result # NoResult /\ UNCHANGED <<page, result, currentRow, visited>>
      /\ told' = [Told("GetString", name, code) EXCEPT
                    !.size = size, !.required = required, !.text = copied]
  BY DEF HdbResultGetString, StringCode
<1>. HIDE DEF code, required, copied
<1>2. told'.call = "GetString" /\ told'.name = name /\ told'.size = size /\ told'.code = code
      /\ told'.required = required /\ told'.text = copied
  BY <1>1 DEF Told
<1>3. code = "HDB_OK" => access = "HDB_OK" /\ copied = text
  BY DEF code, copied, StringCode
<1>. QED  BY <1>1, <1>2, <1>3 DEF code, required

(* A request keeps the invariant.                                          *)
LEMMA ExecuteKeeps ==
  ASSUME IInv, result = NoResult, NEW p, IsPage(p), Executed(p)
  PROVE  IInv'
<1>1. page' = p /\ told' = Told("Execute", <<>>, CodeFor(p)) /\ visited' = visited
  BY DEF Executed
<1>2. currentRow = -1 /\ visited = [i \in 1 .. currentRow + 1 |-> i]
  <2>1. Len(result.rows) = 0
    BY DEF NoResult
  <2>. QED  BY <2>1 DEF IInv, CursorIn
<1>3. currentRow' = -1
  BY <1>2 DEF Executed
<1>4. HandleIs'
  <2>1. CASE CodeFor(p) = "HDB_OK"
    <3>1. Normalizes(p) /\ Sent(p) /\ result' = Convert(p)
      BY <2>1 DEF CodeFor, Executed
    <3>. QED  BY <1>1, <3>1 DEF HandleIs
  <2>2. CASE CodeFor(p) # "HDB_OK"
    <3>1. result' = NoResult
      BY <2>2 DEF Executed
    <3>. QED  BY <3>1 DEF HandleIs
  <2>. QED  BY <2>1, <2>2
<1>5. Len(result'.rows) \in Nat
  <2>1. CASE CodeFor(p) = "HDB_OK"
    <3>1. Normalizes(p) /\ result' = Convert(p)
      BY <2>1 DEF CodeFor, Executed
    <3>2. Convert(p).rows \in Seq(Rows)
      BY <3>1, ConvertIs
    <3>. QED  BY <3>1, <3>2
  <2>2. CASE CodeFor(p) # "HDB_OK"
    <3>1. result'.rows = <<>>
      BY <2>2 DEF Executed, NoResult
    <3>. QED  BY <3>1
  <2>. QED  BY <2>1, <2>2
<1>6. CursorIn'
  <2>1. currentRow' \in -1 .. Len(result'.rows) - 1
    BY <1>3, <1>5
  <2>2. visited' = [i \in 1 .. currentRow' + 1 |-> i]
    BY <1>1, <1>2, <1>3
  <2>. QED  BY <2>1, <2>2 DEF CursorIn
<1>7. PageIn'
  BY <1>1 DEF PageIn
<1>8. RequiredIs'
  <2>1. told'.call # "GetString"
    BY <1>1 DEF Told
  <2>. QED  BY <2>1, OthersRequireNothing
<1>. QED  BY <1>4, <1>6, <1>7, <1>8 DEF IInv

(* The handle has as many rows as the page.                                *)
LEMMA HandleRows ==
  ASSUME IInv
  PROVE  /\ Len(result.rows) \in Nat
         /\ result # NoResult => Len(result.rows) = Len(page.rows) /\ DOMAIN page.rows = 1 .. Len(page.rows)
<1>1. CASE result = NoResult
  BY <1>1 DEF NoResult
<1>2. CASE result # NoResult
  <2>1. IsPage(page) /\ Normalizes(page) /\ result = Convert(page)
    BY <1>2 DEF IInv, PageIn, HandleIs
  <2>2. result.rows \in Seq(Rows) /\ Len(result.rows) = Len(page.rows)
    BY <2>1, ConvertIs
  <2>3. page.rows \in Seq(Seq(Cells))
    BY <2>1 DEF IsPage, IsTable
  <2>4. DOMAIN page.rows = 1 .. Len(page.rows)
    BY <2>3
  <2>. QED  BY <2>2, <2>4
<1>. QED  BY <1>1, <1>2

(* HdbResultNext keeps the invariant, and stops only behind the last row.  *)
LEMMA NextKeeps ==
  ASSUME IInv, HdbResultNext
  PROVE  IInv' /\ PageIsWhole'
<1>. DEFINE hasRow == currentRow + 1 < Len(result.rows)
<1>1. /\ result # NoResult
      /\ currentRow' = IF hasRow THEN currentRow + 1 ELSE currentRow
      /\ visited' = IF hasRow THEN Append(visited, currentRow' + 1) ELSE visited
      /\ told' = [Told("Next", <<>>, "HDB_OK") EXCEPT !.flag = hasRow]
      /\ page' = page /\ result' = result
  BY DEF HdbResultNext
<1>2. Len(result.rows) \in Nat /\ currentRow \in -1 .. Len(result.rows) - 1
      /\ visited = [i \in 1 .. currentRow + 1 |-> i]
  BY HandleRows DEF IInv, CursorIn
<1>3. currentRow' \in -1 .. Len(result.rows) - 1
  BY <1>1, <1>2
<1>4. visited' = [i \in 1 .. currentRow' + 1 |-> i]
  <2>1. CASE hasRow
    <3>. DEFINE n == currentRow + 1
                v == visited
                l == Append(v, n + 1)
                r == [i \in 1 .. n + 1 |-> i]
    <3>1. n \in Nat /\ v = [i \in 1 .. n |-> i]
      BY <1>2
    <3>. HIDE DEF n, v
    <3>2. v \in Seq(Nat) /\ Len(v) = n
      BY <3>1
    <3>3. l \in Seq(Nat) /\ Len(l) = n + 1 /\ r \in Seq(Nat) /\ Len(r) = n + 1
      BY <3>1, <3>2
    <3>4. ASSUME NEW i \in 1 .. n + 1 PROVE l[i] = r[i]
      BY <3>1, <3>2
    <3>5. l = r
      <4>. HIDE DEF l, r
      <4>. QED  BY <3>3, <3>4, SeqEqual
    <3>6. visited' = Append(visited, currentRow' + 1) /\ currentRow' = currentRow + 1
      BY <1>1, <2>1
    <3>. HIDE DEF hasRow
    <3>. QED  BY <3>5, <3>6 DEF l, r, n, v
  <2>2. CASE ~hasRow
    BY <1>1, <1>2, <2>2
  <2>. QED  BY <2>1, <2>2
<1>. HIDE DEF hasRow
<1>5. told'.call = "Next" /\ told'.flag = hasRow
  BY <1>1 DEF Told
<1>6. PageIn' /\ HandleIs' /\ CursorIn' /\ RequiredIs'
  <2>1. PageIn' /\ HandleIs'
    BY <1>1 DEF IInv, PageIn, HandleIs
  <2>2. CursorIn'
    BY <1>1, <1>3, <1>4 DEF CursorIn
  <2>3. RequiredIs'
    BY <1>5, OthersRequireNothing
  <2>. QED  BY <2>1, <2>2, <2>3
<1>7. PageIsWhole'
  <2>1. CASE hasRow
    BY <1>5, <2>1 DEF PageIsWhole
  <2>2. CASE ~hasRow
    <3>1. currentRow' + 1 = Len(page'.rows)
      BY <1>1, <1>2, <2>2, HandleRows DEF hasRow
    <3>2. DOMAIN page'.rows = 1 .. Len(page'.rows)
      BY <1>1, HandleRows
    <3>3. visited' = [r \in DOMAIN page'.rows |-> r]
      BY <1>4, <3>1, <3>2
    <3>. QED  BY <3>3 DEF PageIsWhole
  <2>. QED  BY <2>1, <2>2
<1>. QED  BY <1>6, <1>7 DEF IInv

(* HdbResultFree keeps the invariant.                                      *)
LEMMA FreeKeeps ==
  ASSUME IInv, HdbResultFree
  PROVE  IInv'
<1>1. page' = NoPage /\ result' = NoResult /\ currentRow' = -1 /\ visited' = <<>>
      /\ told' = Told("Free", <<>>, "HDB_OK")
  BY DEF HdbResultFree
<1>2. PageIn'
  BY <1>1, NoPageIsPage DEF PageIn
<1>3. HandleIs'
  BY <1>1 DEF HandleIs
<1>4. CursorIn'
  <2>1. result'.rows = <<>>
    BY <1>1 DEF NoResult
  <2>2. [i \in 1 .. -1 + 1 |-> i] = <<>>
    OBVIOUS
  <2>. QED  BY <1>1, <2>1, <2>2 DEF CursorIn
<1>5. RequiredIs'
  <2>1. told'.call # "GetString"
    BY <1>1 DEF Told
  <2>. QED  BY <2>1, OthersRequireNothing
<1>. QED  BY <1>2, <1>3, <1>4, <1>5 DEF IInv

(* HdbResultGetString keeps it.                                            *)
LEMMA StringKeeps ==
  ASSUME IInv, NEW name, NEW size, HdbResultGetString(name, size)
  PROVE  IInv'
<1>. DEFINE access == Readable(name, {HDB_FT_CHAR_ARRAY})
            text == CurrentCell(name).value
<1>1. /\ result # NoResult /\ UNCHANGED <<page, result, currentRow, visited>>
      /\ told'.call = "GetString" /\ told'.name = name
      /\ told'.code = StringCode(access, text, size)
      /\ access = "HDB_OK" => told'.required = Len(text) + 1
  BY StringTold
<1>2. access # "HDB_ERR_BUFFER"
  BY DEF Readable, GetCurrentCell
<1>3. told'.code = "HDB_ERR_BUFFER" => access = "HDB_OK"
  <2>. HIDE DEF access
  <2>. QED  BY <1>1, <1>2 DEF StringCode
<1>4. Readable(name, {HDB_FT_CHAR_ARRAY})' = access /\ CurrentCell(name)'.value = text
  BY <1>1, ReadableSame
<1>5. RequiredIs'
  <2>. SUFFICES ASSUME NEW asked, told'.code = "HDB_ERR_BUFFER", told'.name = asked
                PROVE  /\ result' # NoResult /\ Readable(asked, {HDB_FT_CHAR_ARRAY})' = "HDB_OK"
                       /\ told'.required = Len(CurrentCell(asked)'.value) + 1
    BY DEF RequiredIs
  <2>1. asked = name
    BY <1>1
  <2>. HIDE DEF access, text
  <2>. QED  BY <1>1, <1>3, <1>4, <2>1
<1>6. PageIn' /\ HandleIs' /\ CursorIn'
  BY <1>1, ReadKeeps
<1>. QED  BY <1>5, <1>6 DEF IInv

(* HdbResultGetInt32 and HdbResultGetInt64 keep it.                        *)
LEMMA IntegerKeeps ==
  ASSUME IInv, NEW call, call # "GetString", NEW name, NEW types, NEW max,
         GetInteger(call, name, types, max)
  PROVE  IInv'
BY IntegerTold, ReadKeeps, OthersRequireNothing DEF IInv

(* What HdbResultIsNull tells.                                             *)
LEMMA IsNullTold ==
  ASSUME NEW name, HdbResultIsNull(name)
  PROVE  /\ result # NoResult /\ UNCHANGED <<page, result, currentRow, visited>>
         /\ told'.call = "IsNull" /\ told'.name = name /\ told'.code = GetCurrentCell(name)
         /\ told'.flag = (GetCurrentCell(name) = "HDB_OK" /\ CurrentCell(name).isNull)
<1>. DEFINE code == GetCurrentCell(name)
            null == CurrentCell(name).isNull
<1>1. /\ result # NoResult /\ UNCHANGED <<page, result, currentRow, visited>>
      /\ told' = [Told("IsNull", name, code) EXCEPT !.flag = code = "HDB_OK" /\ null]
  BY DEF HdbResultIsNull
<1>. HIDE DEF code, null
<1>2. told'.call = "IsNull" /\ told'.name = name /\ told'.code = code
      /\ told'.flag = (code = "HDB_OK" /\ null)
  BY <1>1 DEF Told
<1>. QED  BY <1>1, <1>2 DEF code, null

(* HdbResultIsNull keeps the invariant.                                    *)
LEMMA IsNullKeeps ==
  ASSUME IInv, NEW name, HdbResultIsNull(name)
  PROVE  IInv'
BY IsNullTold, ReadKeeps, OthersRequireNothing DEF IInv

(* So does a step that changes nothing.                                    *)
LEMMA StutterKeeps ==
  ASSUME IInv, UNCHANGED vars
  PROVE  IInv'
<1>1. UNCHANGED <<page, result, currentRow, visited>> /\ told' = told
  BY DEF vars
<1>2. PageIn' /\ HandleIs' /\ CursorIn'
  BY <1>1, ReadKeeps
<1>3. ASSUME NEW name
      PROVE  /\ Readable(name, {HDB_FT_CHAR_ARRAY})' = Readable(name, {HDB_FT_CHAR_ARRAY})
             /\ CurrentCell(name)' = CurrentCell(name)
  BY <1>1, ReadableSame
<1>4. RequiredIs'
  <2>1. RequiredIs
    BY DEF IInv
  <2>. QED  BY <1>1, <1>3, <2>1 DEF RequiredIs
<1>. QED  BY <1>2, <1>4 DEF IInv

(* Every step keeps the invariant.                                         *)
LEMMA NextIInv ==
  ASSUME IInv, [Next]_vars
  PROVE  IInv'
<1>1. ASSUME NEW table \in Tables, NEW limit \in 0 .. MaxRows, NEW offset \in Offsets,
             HdbQueryExecute(table, limit, offset)
      PROVE  IInv'
  BY <1>1, ExecuteIs, ExecuteKeeps
<1>2. CASE HdbResultNext
  BY <1>2, NextKeeps
<1>3. CASE HdbResultFree
  BY <1>3, FreeKeeps
<1>4. ASSUME NEW name, HdbResultIsNull(name) PROVE IInv'
  BY <1>4, IsNullKeeps
<1>5. ASSUME NEW name, HdbResultGetInt32(name) PROVE IInv'
  BY <1>5, IntegerKeeps DEF HdbResultGetInt32
<1>6. ASSUME NEW name, HdbResultGetInt64(name) PROVE IInv'
  BY <1>6, IntegerKeeps DEF HdbResultGetInt64
<1>7. ASSUME NEW name, NEW size, HdbResultGetString(name, size) PROVE IInv'
  BY <1>7, StringKeeps
<1>8. CASE UNCHANGED vars
  BY <1>8, StutterKeeps
<1>. QED  BY <1>1, <1>2, <1>3, <1>4, <1>5, <1>6, <1>7, <1>8 DEF Next

(* The invariant holds in every behaviour.                                 *)
LEMMA Invariance ==  Spec => []IInv
<1>1. Init => IInv
  BY InitIInv
<1>2. IInv /\ [Next]_vars => IInv'
  BY NextIInv
<1>. QED  BY <1>1, <1>2, PTL DEF Spec

-----------------------------------------------------------------------------
(* THEOREMS                                                                *)

(* The cursor is between its start and the last row; the rows the handle   *)
(* shows have a cell for every column.                                     *)
THEOREM TypeCorrect ==  Spec => []TypeOK
<1>1. IInv => TypeOK
  <2>. SUFFICES ASSUME IInv PROVE TypeOK
    OBVIOUS
  <2>1. CursorIn /\ Len(result.rows) \in Nat
    BY HandleRows DEF IInv
  <2>2. \A i \in DOMAIN visited : visited[i] \in 1 .. Len(result.rows)
    BY <2>1 DEF CursorIn
  <2>3. /\ \A r \in DOMAIN result.rows : Len(result.rows[r]) = Len(result.columns)
        /\ \A f \in DOMAIN result.columns : result.columns[f].fieldType \in FieldTypes
    <3>1. CASE result = NoResult
      BY <3>1 DEF NoResult
    <3>2. CASE result # NoResult
      <4>1. IsPage(page) /\ Normalizes(page) /\ result = Convert(page)
        BY <3>2 DEF IInv, PageIn, HandleIs
      <4>2. /\ result.columns \in Seq(Columns) /\ Len(result.columns) = Len(page.names)
            /\ DOMAIN result.rows = DOMAIN page.rows
            /\ \A r \in DOMAIN page.rows : Len(result.rows[r]) = Len(page.names)
        BY <4>1, ConvertIs
      <4>3. \A f \in DOMAIN result.columns : result.columns[f] \in Columns
        BY <4>2
      <4>. QED  BY <4>2, <4>3 DEF Columns
    <3>. QED  BY <3>1, <3>2
  <2>. QED  BY <2>1, <2>2, <2>3 DEF TypeOK, CursorIn
<1>. QED  BY <1>1, Invariance, PTL

(* Only HdbResultNext tells that there is no further row.                  *)
LEMMA OthersEndNothing ==
  ASSUME told'.call # "Next"
  PROVE  PageIsWhole'
BY DEF PageIsWhole

(* A caller whom HdbResultNext tells that there is no further row has been *)
(* on every row the database answered, once and in order.                  *)
THEOREM WholePage ==  Spec => []PageIsWhole
<1>1. Init => PageIsWhole
  BY DEF Init, Told, PageIsWhole
<1>2. ASSUME IInv, PageIsWhole, [Next]_vars PROVE PageIsWhole'
  <2>1. ASSUME NEW table \in Tables, NEW limit \in 0 .. MaxRows, NEW offset \in Offsets,
               HdbQueryExecute(table, limit, offset)
        PROVE  PageIsWhole'
    <3>1. \E p : Executed(p)
      BY <2>1, ExecuteIs
    <3>2. told'.call = "Execute"
      BY <3>1 DEF Executed, Told
    <3>. QED  BY <3>2, OthersEndNothing
  <2>2. CASE HdbResultNext
    BY <1>2, <2>2, NextKeeps
  <2>3. CASE HdbResultFree
    <3>1. told'.call = "Free"
      BY <2>3 DEF HdbResultFree, Told
    <3>. QED  BY <3>1, OthersEndNothing
  <2>4. ASSUME NEW name, HdbResultIsNull(name) PROVE PageIsWhole'
    BY <2>4, IsNullTold, OthersEndNothing
  <2>5. ASSUME NEW name, HdbResultGetInt32(name) PROVE PageIsWhole'
    BY <2>5, IntegerTold, OthersEndNothing DEF HdbResultGetInt32
  <2>6. ASSUME NEW name, HdbResultGetInt64(name) PROVE PageIsWhole'
    BY <2>6, IntegerTold, OthersEndNothing DEF HdbResultGetInt64
  <2>7. ASSUME NEW name, NEW size, HdbResultGetString(name, size) PROVE PageIsWhole'
    BY <2>7, StringTold, OthersEndNothing
  <2>8. CASE UNCHANGED vars
    BY <1>2, <2>8 DEF vars, PageIsWhole
  <2>. QED  BY <1>2, <2>1, <2>2, <2>3, <2>4, <2>5, <2>6, <2>7, <2>8 DEF Next
<1>. QED  BY <1>1, <1>2, Invariance, PTL DEF Spec

(* A caller that comes back for a text with the size it was told gets it.  *)
LEMMA AskedAgain ==
  ASSUME IInv, [Next]_vars,
         told.call = "GetString", told.code = "HDB_ERR_BUFFER",
         told'.call = "GetString", told'.name = told.name, told'.size >= told.required
  PROVE  told'.code = "HDB_OK" \/ UNCHANGED vars
<1>1. ASSUME NEW name, NEW size \in BufferSizes, HdbResultGetString(name, size)
      PROVE  told'.code = "HDB_OK"
  <2>. DEFINE access == Readable(name, {HDB_FT_CHAR_ARRAY})
              text == CurrentCell(name).value
  <2>1. told'.name = name /\ told'.size = size
        /\ told'.code = StringCode(access, text, size)
    BY <1>1, StringTold
  <2>2. told.name = name
    BY <2>1
  <2>3. access = "HDB_OK" /\ told.required = Len(text) + 1
    BY <2>2 DEF IInv, RequiredIs
  <2>4. Copies(text, size)
    BY <2>1, <2>3 DEF Copies
  <2>. HIDE DEF access, text
  <2>. QED  BY <2>1, <2>3, <2>4 DEF StringCode
<1>2. ASSUME NEW table \in Tables, NEW limit \in 0 .. MaxRows, NEW offset \in Offsets,
             HdbQueryExecute(table, limit, offset)
      PROVE  FALSE
  <2>1. \E p : Executed(p)
    BY <1>2, ExecuteIs
  <2>. QED  BY <2>1 DEF Executed, Told
<1>3. CASE HdbResultNext
  <2>1. told'.call = "Next"
    BY <1>3 DEF HdbResultNext, Told
  <2>. QED  BY <2>1
<1>4. CASE HdbResultFree
  BY <1>4 DEF HdbResultFree, Told
<1>5. ASSUME NEW name, HdbResultIsNull(name) PROVE FALSE
  BY <1>5, IsNullTold
<1>6. ASSUME NEW name, HdbResultGetInt32(name) PROVE FALSE
  BY <1>6, IntegerTold DEF HdbResultGetInt32
<1>7. ASSUME NEW name, HdbResultGetInt64(name) PROVE FALSE
  BY <1>7, IntegerTold DEF HdbResultGetInt64
<1>. QED  BY <1>1, <1>2, <1>3, <1>4, <1>5, <1>6, <1>7 DEF Next

(* The same for every step of the program.                                 *)
THEOREM StringFits ==  Spec => StringAsAsked
<1>1. IInv /\ [Next]_vars
      => [told.call = "GetString" /\ told.code = "HDB_ERR_BUFFER"
          /\ told'.call = "GetString" /\ told'.name = told.name /\ told'.size >= told.required
          => told'.code = "HDB_OK"]_vars
  BY AskedAgain
<1>. QED  BY <1>1, Invariance, PTL DEF Spec, StringAsAsked

(* The column of a name and the cell of the database below it.             *)
LEMMA FoundCell ==
  ASSUME IInv, result # NoResult, NEW name, GetCurrentCell(name) = "HDB_OK"
  PROVE  /\ \E f \in DOMAIN page.names :
              /\ Passes(Stored(name), page.types[f]) /\ CurrentType(name) = page.types[f]
              /\ CurrentCell(name) = CellOf(Stored(name), page.types[f])
         /\ FractionsKept /\ Stored(name).kind = "moment" => FractionKept(Stored(name).ms)
<1>. DEFINE found == {f \in DOMAIN page.names : page.names[f] = name}
            f == Min(found)
            r == currentRow + 1
<1>1. IsPage(page) /\ Normalizes(page) /\ result = Convert(page)
  BY DEF IInv, PageIn, HandleIs
<1>2. /\ DOMAIN result.columns = DOMAIN page.names
      /\ \A g \in DOMAIN page.names :
           result.columns[g] = [name |-> page.names[g], fieldType |-> page.types[g]]
      /\ Len(result.rows) = Len(page.rows) /\ DOMAIN result.rows = DOMAIN page.rows
      /\ \A q \in DOMAIN page.rows : \A g \in DOMAIN page.names :
           /\ result.rows[q][g] = CellOf(page.rows[q][g], page.types[g])
           /\ Passes(page.rows[q][g], page.types[g])
  BY <1>1, ConvertIs
<1>3. FoundColumns(name) = found
  <2>1. ASSUME NEW g \in DOMAIN page.names PROVE result.columns[g].name = page.names[g]
    <3>1. result.columns[g] = [name |-> page.names[g], fieldType |-> page.types[g]]
      BY <1>2
    <3>. QED  BY <3>1
  <2>2. DOMAIN result.columns = DOMAIN page.names
    BY <1>2
  <2>. QED  BY <2>1, <2>2 DEF FoundColumns
<1>4. found # {} /\ OnRow
  BY <1>3 DEF GetCurrentCell
<1>5. DOMAIN page.names \subseteq Nat
  <2>1. page.names \in Seq(Seq(Nat))
    BY <1>1 DEF IsPage, IsTable
  <2>. QED  BY <2>1
<1>6. f \in DOMAIN page.names
  <2>1. found \subseteq Nat
    BY <1>5
  <2>2. f \in found
    <3>. HIDE DEF found
    <3>. QED  BY <1>4, <2>1, LeastOf
  <2>. HIDE DEF f
  <2>. QED  BY <2>2
<1>7. r \in DOMAIN page.rows
  <2>1. DOMAIN page.rows = 1 .. Len(page.rows) /\ Len(result.rows) \in Nat
    BY HandleRows
  <2>2. currentRow \in -1 .. Len(result.rows) - 1 /\ currentRow >= 0
    BY <1>4 DEF OnRow, IInv, CursorIn
  <2>. QED  BY <1>2, <2>1, <2>2
<1>8. Stored(name) = page.rows[r][f]
  BY DEF Stored
<1>9. CurrentCell(name) = result.rows[r][f] /\ CurrentType(name) = result.columns[f].fieldType
  BY <1>3 DEF CurrentCell, CurrentType
<1>. HIDE DEF f, r, found
<1>10. result.rows[r][f] = CellOf(page.rows[r][f], page.types[f]) /\ Passes(page.rows[r][f], page.types[f])
       /\ result.columns[f].fieldType = page.types[f]
  <2>1. result.columns[f] = [name |-> page.names[f], fieldType |-> page.types[f]]
    BY <1>2, <1>6
  <2>2. result.rows[r][f] = CellOf(page.rows[r][f], page.types[f])
        /\ Passes(page.rows[r][f], page.types[f])
    BY <1>2, <1>6, <1>7
  <2>. QED  BY <2>1, <2>2
<1>11. FractionsKept /\ page.rows[r][f].kind = "moment" => FractionKept(page.rows[r][f].ms)
  BY <1>1, <1>6, <1>7 DEF IsPage, Kept
<1>. QED  BY <1>6, <1>8, <1>9, <1>10, <1>11

(* What a getter tells of a cell is what the database keeps there.         *)
LEMMA IsNullTrue ==
  ASSUME IInv, NEW name, HdbResultIsNull(name)
  PROVE  told'.code = "HDB_OK" => told'.flag = (Stored(name).kind = "null")
<1>. DEFINE stored == Stored(name)
            cell == CurrentCell(name)
<1>. SUFFICES ASSUME told'.code = "HDB_OK" PROVE told'.flag = (stored.kind = "null")
  OBVIOUS
<1>1. result # NoResult /\ GetCurrentCell(name) = "HDB_OK"
      /\ told'.flag = (GetCurrentCell(name) = "HDB_OK" /\ cell.isNull)
  BY IsNullTold
<1>2. PICK f \in DOMAIN page.names : Passes(stored, page.types[f]) /\ cell = CellOf(stored, page.types[f])
  BY <1>1, FoundCell
<1>. DEFINE null == stored.kind = "null"
<1>. HIDE DEF stored, cell
<1>3. cell.isNull = null
  BY <1>2, CellOfIs
<1>. QED  BY <1>1, <1>3

(* A text handed out is the stored one.                                    *)
LEMMA StringTrue ==
  ASSUME IInv, NEW name, NEW size, HdbResultGetString(name, size)
  PROVE  told'.code = "HDB_OK" => Stored(name).kind = "text" /\ told'.text = Stored(name).text
<1>. DEFINE stored == Stored(name)
            cell == CurrentCell(name)
            access == Readable(name, {HDB_FT_CHAR_ARRAY})
<1>. SUFFICES ASSUME told'.code = "HDB_OK" PROVE stored.kind = "text" /\ told'.text = stored.text
  OBVIOUS
<1>1. result # NoResult /\ access = "HDB_OK" /\ told'.text = cell.value
  <2>1. /\ result # NoResult
        /\ told'.code = "HDB_OK" => access = "HDB_OK" /\ told'.text = cell.value
    BY StringTold
  <2>. QED  BY <2>1
<1>2. GetCurrentCell(name) = "HDB_OK" /\ ~cell.isNull /\ CurrentType(name) = HDB_FT_CHAR_ARRAY
  BY <1>1 DEF Readable
<1>3. PICK f \in DOMAIN page.names :
        /\ Passes(stored, page.types[f]) /\ CurrentType(name) = page.types[f]
        /\ cell = CellOf(stored, page.types[f])
  BY <1>1, <1>2, FoundCell
<1>. HIDE DEF stored, cell, access
<1>4. page.types[f] # HDB_FT_TIMESTAMP_MS
  BY <1>2, <1>3 DEF HDB_FT_TIMESTAMP_MS, HDB_FT_CHAR_ARRAY
<1>5. stored.kind # "null"
  BY <1>2, <1>3, CellOfIs
<1>6. stored.kind = "text"
  BY <1>3, <1>4, <1>5 DEF Passes, Cells
<1>7. cell.value = stored.text
  BY <1>3, <1>4, <1>6, CellOfIs
<1>. QED  BY <1>1, <1>6, <1>7

(* A number handed out is the stored one.                                  *)
LEMMA IntegerTrue ==
  ASSUME FractionsKept, IInv, NEW call, NEW name, NEW types, NEW max,
         GetInteger(call, name, types, max)
  PROVE  told'.code = "HDB_OK" =>
           IF Stored(name).kind = "moment" THEN told'.number = EpochMs(Stored(name).ms)
           ELSE Stored(name).kind = "text" /\ told'.number = Number(Stored(name).text)
<1>. DEFINE stored == Stored(name)
            cell == CurrentCell(name)
            access == Readable(name, types)
<1>. SUFFICES ASSUME told'.code = "HDB_OK"
              PROVE  IF stored.kind = "moment" THEN told'.number = EpochMs(stored.ms)
                     ELSE stored.kind = "text" /\ told'.number = Number(stored.text)
  OBVIOUS
<1>1. result # NoResult /\ access = "HDB_OK" /\ told'.number = Number(cell.value)
  BY IntegerTold
<1>2. GetCurrentCell(name) = "HDB_OK" /\ ~cell.isNull
  BY <1>1 DEF Readable
<1>3. PICK f \in DOMAIN page.names :
        Passes(stored, page.types[f]) /\ cell = CellOf(stored, page.types[f])
  BY <1>1, <1>2, FoundCell
<1>4. stored.kind = "moment" => FractionKept(stored.ms)
  BY <1>1, <1>2, FoundCell
<1>. HIDE DEF stored, cell, access
<1>5. stored.kind # "null"
  BY <1>2, <1>3, CellOfIs
<1>6. stored.kind = "text" \/ stored.kind = "moment"
  BY <1>3, <1>5 DEF Passes, Cells
<1>7. stored.kind = "text" => Number(cell.value) = Number(stored.text)
  BY <1>3, CellOfIs
<1>8. stored.kind = "moment" => Number(cell.value) = EpochMs(stored.ms)
  BY <1>3, <1>4, CellOfIs
<1>. QED  BY <1>1, <1>6, <1>7, <1>8

(* Other calls hand out no value.                                          *)
LEMMA OthersReadNothing ==
  ASSUME told'.call \notin Reads
  PROVE  ReadsAreTrue'
BY DEF ReadsAreTrue

(* The stored cell depends on the page and the cursor alone.               *)
LEMMA StoredSame ==
  ASSUME UNCHANGED <<page, currentRow>>, NEW name
  PROVE  Stored(name)' = Stored(name)
BY DEF Stored

(* If the fraction of no moment ends in zero, what a getter hands out is   *)
(* what the database holds in the current row under the asked name.        *)
THEOREM TrueReads ==
  ASSUME FractionsKept
  PROVE  Spec => []ReadsAreTrue
<1>1. Init => ReadsAreTrue
  BY DEF Init, Told, ReadsAreTrue, Reads
<1>2. ASSUME IInv, ReadsAreTrue, [Next]_vars PROVE ReadsAreTrue'
  <2>1. ASSUME NEW table \in Tables, NEW limit \in 0 .. MaxRows, NEW offset \in Offsets,
               HdbQueryExecute(table, limit, offset)
        PROVE  ReadsAreTrue'
    <3>1. \E p : Executed(p)
      BY <2>1, ExecuteIs
    <3>2. told'.call = "Execute"
      BY <3>1 DEF Executed, Told
    <3>. QED  BY <3>2, OthersReadNothing DEF Reads
  <2>2. CASE HdbResultNext
    <3>1. told'.call = "Next"
      BY <2>2 DEF HdbResultNext, Told
    <3>. QED  BY <3>1, OthersReadNothing DEF Reads
  <2>3. CASE HdbResultFree
    <3>1. told'.call = "Free"
      BY <2>3 DEF HdbResultFree, Told
    <3>. QED  BY <3>1, OthersReadNothing DEF Reads
  <2>4. ASSUME NEW name, HdbResultIsNull(name) PROVE ReadsAreTrue'
    <3>. DEFINE stored == Stored(name)
                null == stored.kind = "null"
    <3>1. told'.call = "IsNull" /\ told'.name = name
          /\ (told'.code = "HDB_OK" => told'.flag = null)
      BY <1>2, <2>4, IsNullTold, IsNullTrue
    <3>2. Stored(name)' = stored
      BY <2>4, IsNullTold, StoredSame
    <3>3. told'.code = "HDB_OK" => told'.flag = (Stored(name)'.kind = "null")
      BY <3>1, <3>2
    <3>. QED  BY <3>1, <3>3 DEF ReadsAreTrue
  <2>5. ASSUME NEW call \in {"GetInt32", "GetInt64"}, NEW name, NEW types, NEW max,
               GetInteger(call, name, types, max)
        PROVE  ReadsAreTrue'
    <3>. DEFINE stored == Stored(name)
    <3>1. told'.call = call /\ told'.name = name
      BY <2>5, IntegerTold
    <3>2. told'.code = "HDB_OK" =>
            IF stored.kind = "moment" THEN told'.number = EpochMs(stored.ms)
            ELSE stored.kind = "text" /\ told'.number = Number(stored.text)
      BY <1>2, <2>5, IntegerTrue
    <3>3. Stored(name)' = stored
      BY <2>5, IntegerTold, StoredSame
    <3>. HIDE DEF stored
    <3>. QED  BY <3>1, <3>2, <3>3 DEF ReadsAreTrue
  <2>6. ASSUME NEW name, HdbResultGetInt32(name) PROVE ReadsAreTrue'
    BY <2>5, <2>6 DEF HdbResultGetInt32
  <2>7. ASSUME NEW name, HdbResultGetInt64(name) PROVE ReadsAreTrue'
    BY <2>5, <2>7 DEF HdbResultGetInt64
  <2>8. ASSUME NEW name, NEW size, HdbResultGetString(name, size) PROVE ReadsAreTrue'
    <3>. DEFINE stored == Stored(name)
    <3>1. told'.call = "GetString" /\ told'.name = name
      BY <2>8, StringTold
    <3>2. told'.code = "HDB_OK" => stored.kind = "text" /\ told'.text = stored.text
      BY <1>2, <2>8, StringTrue
    <3>3. Stored(name)' = stored
      BY <2>8, StringTold, StoredSame
    <3>. HIDE DEF stored
    <3>. QED  BY <3>1, <3>2, <3>3 DEF ReadsAreTrue
  <2>9. CASE UNCHANGED vars
    <3>1. told' = told /\ UNCHANGED <<page, currentRow>>
      BY <2>9 DEF vars
    <3>2. Stored(told.name)' = Stored(told.name)
      BY <3>1 DEF Stored
    <3>. QED  BY <1>2, <3>1, <3>2 DEF ReadsAreTrue
  <2>. QED  BY <1>2, <2>1, <2>2, <2>3, <2>4, <2>6, <2>7, <2>8, <2>9 DEF Next
<1>. QED  BY <1>1, <1>2, Invariance, PTL DEF Spec

-----------------------------------------------------------------------------
(* Sizes.                                                                  *)

(* What is joined step by step is as long as what is added step by step.   *)
InStep(n, parts, f, g) ==
  /\ f[0] = <<>> /\ g[0] = 0
  /\ \A i \in 1 .. n : /\ parts[i] \in Units /\ f[i] = f[i - 1] \o parts[i]
                       /\ g[i] = g[i - 1] + Len(parts[i])
  /\ \A i \in 0 .. n : f[i] \in Units

(* The size of what is joined is the sum of the sizes.                     *)
LEMMA AddsUp ==
  ASSUME NEW n \in Nat, NEW parts, NEW f, NEW g, InStep(n, parts, f, g)
  PROVE  Len(f[n]) = g[n]
<1>. DEFINE h == [i \in 0 .. n |-> Len(f[i])]
<1>1. h[0] = g[0]
  BY DEF InStep
<1>2. ASSUME NEW i \in 1 .. n, h[i - 1] = g[i - 1] PROVE h[i] = g[i]
  <2>1. i \in 0 .. n /\ i - 1 \in 0 .. n
    OBVIOUS
  <2>2. f[i] = f[i - 1] \o parts[i] /\ f[i - 1] \in Units /\ parts[i] \in Units
    BY <2>1 DEF InStep
  <2>3. Len(f[i - 1] \o parts[i]) = Len(f[i - 1]) + Len(parts[i])
    BY <2>2, JoinSize
  <2>4. h[i] = Len(f[i]) /\ h[i - 1] = Len(f[i - 1])
    BY <2>1
  <2>5. g[i] = g[i - 1] + Len(parts[i])
    BY DEF InStep
  <2>. HIDE DEF h
  <2>. QED  BY <1>2, <2>2, <2>3, <2>4, <2>5
<1>3. h[n] = Len(f[n])
  OBVIOUS
<1>. HIDE DEF h
<1>4. \A i \in 0 .. n : h[i] = g[i]
  BY <1>1, <1>2, SameLoop
<1>. QED  BY <1>3, <1>4

Sizes(parts) == [i \in DOMAIN parts |-> Len(parts[i])]

(* The parts joined are as long as their lengths added up.                 *)
LEMMA FlattenSize ==
  ASSUME NEW parts \in Seq(Units), NEW counts, counts = Sizes(parts)
  PROVE  Total(counts) \in Nat /\ Len(FlattenSeq(parts)) = Total(counts)
<1>. DEFINE n == Len(parts)
<1>1. n \in Nat /\ DOMAIN parts = 1 .. n /\ \A i \in 1 .. n : parts[i] \in Units
  OBVIOUS
<1>2. \A i \in 1 .. n : Len(parts[i]) \in Nat
  BY <1>1 DEF Units
<1>3. counts \in Units /\ Len(counts) = n /\ \A i \in 1 .. n : counts[i] = Len(parts[i])
  BY <1>1, <1>2 DEF Units, Sizes
<1>4. PICK f : Joins(f, parts)
  BY JoinsExist
<1>5. PICK g : Counts(1, counts, g)
  BY <1>3, CountsExist
<1>6. (\A i \in 0 .. n : f[i] \in Units) /\ f[0] = <<>>
      /\ \A i \in 1 .. n : f[i] = f[i - 1] \o parts[i]
  BY <1>4 DEF Joins
<1>7. g[0] = 0 /\ g[n] \in Nat
  BY <1>1, <1>3, <1>5 DEF Counts
<1>8. ASSUME NEW i \in 1 .. n PROVE g[i] = g[i - 1] + Len(parts[i])
  <2>1. i \in 1 .. Len(counts) /\ i - 1 \in 0 .. Len(counts)
    BY <1>1, <1>3
  <2>2. g[i] = 1 * g[i - 1] + counts[i] /\ g[i - 1] \in Nat
    BY <1>5, <2>1 DEF Counts
  <2>3. Len(parts[i]) \in Nat
    BY <1>2
  <2>. HIDE DEF n
  <2>. QED  BY <1>3, <2>2, <2>3
<1>9. Total(counts) = g[n] /\ FlattenSeq(parts) = f[n]
  BY <1>3, <1>4, <1>5, TotalIs, FlattenJoins
<1>. HIDE DEF n
<1>10. InStep(n, parts, f, g)
  BY <1>1, <1>6, <1>7, <1>8 DEF InStep
<1>11. Len(f[n]) = g[n]
  BY <1>1, <1>10, AddsUp
<1>. QED  BY <1>7, <1>9, <1>11

NamesTotal(p) == Total([f \in DOMAIN p.names |-> 2 + Len(p.names[f])])
RowsTotal(p)  == Total([r \in DOMAIN p.rows |-> RowSize(p, r)])

(* The size of a schema, counted from the names.                           *)
LEMMA NamesSize ==
  ASSUME NEW p, IsPage(p), Normalizes(p), NEW s, s = Convert(p)
  PROVE  NamesTotal(p) \in Nat /\ Len(EncodeSchema(s)) = 1 + NamesTotal(p)
<1>. DEFINE parts == ColumnCodes(s.columns)
            counts == [f \in DOMAIN p.names |-> 2 + Len(p.names[f])]
            sizes == Sizes(parts)
            n == Len(s.columns)
<1>1. /\ s.columns \in Seq(Columns) /\ DOMAIN s.columns = DOMAIN p.names
      /\ \A f \in DOMAIN p.names : s.columns[f] = [name |-> p.names[f], fieldType |-> p.types[f]]
  BY ConvertIs
<1>2. parts \in Seq(Units) /\ Len(parts) = n /\ n \in Nat
  BY <1>1, ColumnCodesAre
<1>3. \A i \in 1 .. n : s.columns[i] \in Columns /\ parts[i] = EncodeColumn(s.columns[i])
  BY <1>1, ColumnCodesAre
<1>4. DOMAIN parts = 1 .. n /\ DOMAIN p.names = 1 .. n
  BY <1>1, <1>2
<1>. HIDE DEF parts, n
<1>5. ASSUME NEW i \in 1 .. n PROVE Len(parts[i]) = 2 + Len(p.names[i])
  <2>1. Len(EncodeColumn(s.columns[i])) = 2 + Len(s.columns[i].name)
    BY <1>3, ColumnSize
  <2>2. s.columns[i] = [name |-> p.names[i], fieldType |-> p.types[i]]
    BY <1>1, <1>4
  <2>3. s.columns[i].name = p.names[i]
    BY <2>2
  <2>. QED  BY <1>3, <2>1, <2>3
<1>6. sizes = counts
  BY <1>4, <1>5 DEF Sizes
<1>7. Total(sizes) \in Nat /\ Len(FlattenSeq(parts)) = Total(sizes)
  BY <1>2, FlattenSize
<1>8. Len(EncodeSchema(s)) = 1 + Len(FlattenSeq(parts))
  BY <1>1, SchemaSizeIs DEF parts
<1>. HIDE DEF sizes, counts
<1>9. Total(counts) \in Nat /\ Len(EncodeSchema(s)) = 1 + Total(counts)
  BY <1>6, <1>7, <1>8
<1>10. NamesTotal(p) = Total(counts)
  BY DEF NamesTotal, counts
<1>. QED  BY <1>9, <1>10

(* The size of a row, counted from the cells.                              *)
LEMMA CellsSize ==
  ASSUME NEW p, IsPage(p), Normalizes(p), NEW s, s = Convert(p), NEW r \in DOMAIN p.rows
  PROVE  Len(EncodeRow(s.rows[r])) = RowSize(p, r)
<1>. DEFINE row == s.rows[r]
            parts == CellCodes(row)
            counts == [f \in DOMAIN p.names |-> 2 + Len(CellOf(p.rows[r][f], p.types[f]).value)]
            sizes == Sizes(parts)
            n == Len(row)
<1>1. /\ s.rows \in Seq(Rows) /\ DOMAIN s.rows = DOMAIN p.rows
      /\ DOMAIN row = DOMAIN p.names
      /\ \A f \in DOMAIN p.names : row[f] = CellOf(p.rows[r][f], p.types[f])
  BY ConvertIs
<1>2. row \in Seq(Values)
  <2>1. s.rows[r] \in Rows
    BY <1>1
  <2>. QED  BY <2>1 DEF Rows
<1>. HIDE DEF row
<1>3. parts \in Seq(Units) /\ Len(parts) = n /\ n \in Nat
      /\ \A i \in 1 .. n : row[i] \in Values /\ parts[i] = EncodeCell(row[i])
  BY <1>2, CellCodesAre
<1>4. DOMAIN parts = 1 .. n /\ DOMAIN p.names = 1 .. n
  <2>1. DOMAIN row = 1 .. n
    BY <1>2
  <2>2. DOMAIN parts = 1 .. n
    <3>. HIDE DEF parts
    <3>. QED  BY <1>3
  <2>. QED  BY <1>1, <2>1, <2>2
<1>. HIDE DEF parts, n
<1>5. ASSUME NEW i \in 1 .. n PROVE Len(parts[i]) = 2 + Len(CellOf(p.rows[r][i], p.types[i]).value)
  <2>1. Len(EncodeCell(row[i])) = 2 + Len(row[i].value)
    BY <1>3, CellSize
  <2>2. row[i] = CellOf(p.rows[r][i], p.types[i])
    BY <1>1, <1>4
  <2>. QED  BY <1>3, <2>1, <2>2
<1>6. sizes = counts
  BY <1>4, <1>5 DEF Sizes
<1>7. Total(sizes) \in Nat /\ Len(FlattenSeq(parts)) = Total(sizes)
  BY <1>3, FlattenSize
<1>8. Len(EncodeRow(row)) = 1 + Len(FlattenSeq(parts))
  BY <1>2, RowSizeIs DEF parts
<1>9. RowSize(p, r) = 1 + Total(counts)
  BY DEF RowSize
<1>. HIDE DEF sizes, counts
<1>. QED  BY <1>6, <1>7, <1>8, <1>9 DEF row

(* The size of all rows, counted from the cells.                           *)
LEMMA RowsSize ==
  ASSUME NEW p, IsPage(p), Normalizes(p), NEW s, s = Convert(p)
  PROVE  RowsTotal(p) \in Nat /\ Len(EncodeRows(s)) = 1 + RowsTotal(p)
<1>. DEFINE parts == RowCodes(s.rows)
            counts == [r \in DOMAIN p.rows |-> RowSize(p, r)]
            sizes == Sizes(parts)
            n == Len(s.rows)
<1>1. s.rows \in Seq(Rows) /\ DOMAIN s.rows = DOMAIN p.rows
  BY ConvertIs
<1>2. parts \in Seq(Units) /\ Len(parts) = n /\ n \in Nat
      /\ \A i \in 1 .. n : s.rows[i] \in Rows /\ parts[i] = EncodeRow(s.rows[i])
  BY <1>1, RowCodesAre
<1>3. DOMAIN parts = 1 .. n /\ DOMAIN p.rows = 1 .. n
  <2>1. DOMAIN s.rows = 1 .. n
    BY <1>1
  <2>2. DOMAIN parts = 1 .. n
    <3>. HIDE DEF parts
    <3>. QED  BY <1>2
  <2>. QED  BY <1>1, <2>1, <2>2
<1>. HIDE DEF parts, n
<1>4. ASSUME NEW i \in 1 .. n PROVE Len(parts[i]) = RowSize(p, i)
  <2>1. Len(EncodeRow(s.rows[i])) = RowSize(p, i)
    BY <1>3, CellsSize
  <2>2. parts[i] = EncodeRow(s.rows[i])
    BY <1>2
  <2>. QED  BY <2>1, <2>2
<1>5. sizes = counts
  BY <1>3, <1>4 DEF Sizes
<1>6. Total(sizes) \in Nat /\ Len(FlattenSeq(parts)) = Total(sizes)
  BY <1>2, FlattenSize
<1>7. Len(EncodeRows(s)) = 1 + Len(FlattenSeq(parts))
  BY <1>1, RowsSizeIs DEF parts
<1>. HIDE DEF sizes, counts
<1>8. Total(counts) \in Nat /\ Len(EncodeRows(s)) = 1 + Total(counts)
  BY <1>5, <1>6, <1>7
<1>9. RowsTotal(p) = Total(counts)
  BY DEF RowsTotal, counts
<1>. QED  BY <1>8, <1>9

(* SizeOf is the size of the body a page is sent in.                       *)
LEMMA BodySize ==
  ASSUME NEW p, IsPage(p), Normalizes(p), NEW s, s = Convert(p)
  PROVE  /\ Len(EncodeSchema(s)) \in Nat /\ Len(EncodeRows(s)) \in Nat
         /\ Len(Body(s)) = 4 + Len(EncodeSchema(s)) + Len(EncodeRows(s))
         /\ SizeOf(p) = Len(Body(s))
<1>1. s.columns \in Seq(Columns) /\ s.rows \in Seq(Rows)
  BY ConvertIs
<1>2. EncodeSchema(s) \in Units /\ EncodeRows(s) \in Units
  BY <1>1, SchemaSizeIs, RowsSizeIs
<1>3. Len(EncodeSchema(s)) \in Nat /\ Len(EncodeRows(s)) \in Nat
  BY <1>2 DEF Units
<1>4. Len(Body(s)) = 4 + Len(EncodeSchema(s)) + Len(EncodeRows(s))
  BY <1>2, BodyIs
<1>5. /\ NamesTotal(p) \in Nat /\ Len(EncodeSchema(s)) = 1 + NamesTotal(p)
      /\ RowsTotal(p) \in Nat /\ Len(EncodeRows(s)) = 1 + RowsTotal(p)
  BY NamesSize, RowsSize
<1>6. SizeOf(p) = 6 + NamesTotal(p) + RowsTotal(p)
  BY DEF SizeOf, NamesTotal, RowsTotal
<1>. QED  BY <1>3, <1>4, <1>5, <1>6

(* A page that is not sent is too large somewhere.                         *)
LEMMA TooLarge ==
  ASSUME NEW p, IsPage(p), Normalizes(p), ~Sent(p)
  PROVE  \/ Len(p.names) > MaxColumns
         \/ \E f \in DOMAIN p.names : Len(p.names[f]) > MaxCell
         \/ \E r \in DOMAIN p.rows, f \in DOMAIN p.names :
              Len(CellOf(p.rows[r][f], p.types[f]).value) > MaxCell
         \/ SizeOf(p) > MaxBody
<1>. SUFFICES ASSUME ~(Len(p.names) > MaxColumns),
                     \A f \in DOMAIN p.names : ~(Len(p.names[f]) > MaxCell),
                     \A r \in DOMAIN p.rows, f \in DOMAIN p.names :
                       ~(Len(CellOf(p.rows[r][f], p.types[f]).value) > MaxCell),
                     ~(SizeOf(p) > MaxBody)
              PROVE  FALSE
  OBVIOUS
<1>. DEFINE s == Convert(p)
<1>1. /\ s.columns \in Seq(Columns) /\ Len(s.columns) = Len(p.names)
      /\ DOMAIN s.columns = DOMAIN p.names
      /\ \A f \in DOMAIN p.names :
           s.columns[f] = [name |-> p.names[f], fieldType |-> p.types[f]]
  BY ConvertIs
<1>2. /\ s.rows \in Seq(Rows) /\ Len(s.rows) = Len(p.rows) /\ DOMAIN s.rows = DOMAIN p.rows
      /\ \A r \in DOMAIN p.rows :
           /\ DOMAIN s.rows[r] = DOMAIN p.names
           /\ \A f \in DOMAIN p.names : s.rows[r][f] = CellOf(p.rows[r][f], p.types[f])
  BY ConvertIs
<1>3. /\ Len(EncodeSchema(s)) \in Nat /\ Len(EncodeRows(s)) \in Nat
      /\ Len(Body(s)) = 4 + Len(EncodeSchema(s)) + Len(EncodeRows(s))
      /\ SizeOf(p) = Len(Body(s))
  BY BodySize
<1>. HIDE DEF s
<1>4. MaxColumns \in Nat /\ MaxRows \in Nat /\ MaxCell \in Nat /\ MaxBody \in Nat
  BY ResultAssumption
<1>5. Len(EncodeSchema(s)) <= MaxBody /\ Len(EncodeRows(s)) <= MaxBody /\ Len(Body(s)) <= MaxBody
  BY <1>3, <1>4
<1>6. Len(s.columns) <= MaxColumns
  <2>1. Len(s.columns) \in Nat
    BY <1>1
  <2>. QED  BY <1>1, <1>4, <2>1
<1>7. Len(s.rows) <= MaxRows
  BY <1>2 DEF IsPage
<1>8. ASSUME NEW f \in DOMAIN s.columns
      PROVE  Len(s.columns[f].name) <= MaxCell /\ s.columns[f].fieldType \in FieldTypes
  <2>1. s.columns[f] \in Columns
    BY <1>1
  <2>2. s.columns[f].name \in Units /\ s.columns[f].fieldType \in FieldTypes
    BY <2>1 DEF Columns
  <2>3. Len(s.columns[f].name) \in Nat
    BY <2>2 DEF Units
  <2>4. s.columns[f].name = p.names[f] /\ f \in DOMAIN p.names
    <3>1. f \in DOMAIN p.names
      BY <1>1
    <3>2. s.columns[f] = [name |-> p.names[f], fieldType |-> p.types[f]]
      BY <1>1, <3>1
    <3>. QED  BY <3>1, <3>2
  <2>5. ~(Len(p.names[f]) > MaxCell)
    BY <2>4
  <2>. QED  BY <1>4, <2>2, <2>3, <2>4, <2>5
<1>9. ASSUME NEW r \in DOMAIN s.rows, NEW f \in DOMAIN s.rows[r]
      PROVE  Len(s.rows[r][f].value) <= MaxCell
  <2>1. r \in DOMAIN p.rows /\ f \in DOMAIN p.names
    BY <1>2
  <2>2. s.rows[r][f] = CellOf(p.rows[r][f], p.types[f])
    BY <1>2, <2>1
  <2>3. ~(Len(CellOf(p.rows[r][f], p.types[f]).value) > MaxCell)
    BY <2>1
  <2>4. Len(s.rows[r][f].value) \in Nat
    <3>. DEFINE row == s.rows[r]
    <3>1. row \in Seq(Values) /\ f \in DOMAIN row
      BY <1>2 DEF Rows
    <3>. HIDE DEF row
    <3>2. row[f] \in Values
      BY <3>1
    <3>3. row[f].value \in Units
      BY <3>2 DEF Values
    <3>4. Len(row[f].value) \in Nat
      BY <3>3 DEF Units
    <3>. QED  BY <3>4 DEF row
  <2>. QED  BY <1>4, <2>2, <2>3, <2>4
<1>10. Encodes(s)
  BY <1>5, <1>6, <1>7, <1>8, <1>9 DEF Encodes
<1>11. Sent(p)
  BY <1>5, <1>10 DEF Sent, s
<1>. QED  BY <1>11

(* Only a request refuses a page.                                          *)
LEMMA OthersRefuseNothing ==
  ASSUME told'.call # "Execute"
  PROVE  RefusedForSize'
BY DEF RefusedForSize

(* A page is refused as too large only if one of its texts, its columns or *)
(* all of it really are; the decoder refuses nothing the encoder wrote.    *)
THEOREM RefusedWithReason ==  Spec => []RefusedForSize
<1>1. Init => RefusedForSize
  BY DEF Init, Told, RefusedForSize
<1>2. ASSUME RefusedForSize, [Next]_vars PROVE RefusedForSize'
  <2>1. ASSUME NEW table \in Tables, NEW limit \in 0 .. MaxRows, NEW offset \in Offsets,
               HdbQueryExecute(table, limit, offset)
        PROVE  RefusedForSize'
    <3>1. PICK p : IsPage(p) /\ Executed(p)
      BY <2>1, ExecuteIs
    <3>2. page' = p /\ told'.code = CodeFor(p)
      BY <3>1 DEF Executed, Told
    <3>3. CodeFor(p) = "HDB_ERR_BUFFER" => Normalizes(p) /\ ~Sent(p)
      BY DEF CodeFor
    <3>4. CodeFor(p) = "HDB_ERR_BUFFER"
          => \/ Len(p.names) > MaxColumns
             \/ \E f \in DOMAIN p.names : Len(p.names[f]) > MaxCell
             \/ \E r \in DOMAIN p.rows, f \in DOMAIN p.names :
                  Len(CellOf(p.rows[r][f], p.types[f]).value) > MaxCell
             \/ SizeOf(p) > MaxBody
      BY <3>1, <3>3, TooLarge
    <3>5. SizeOf(page)' = SizeOf(p)
      BY <3>2 DEF SizeOf, RowSize, CellOf
    <3>. QED  BY <3>2, <3>4, <3>5 DEF RefusedForSize
  <2>2. CASE HdbResultNext
    <3>1. told'.call = "Next"
      BY <2>2 DEF HdbResultNext, Told
    <3>. QED  BY <3>1, OthersRefuseNothing
  <2>3. CASE HdbResultFree
    <3>1. told'.call = "Free"
      BY <2>3 DEF HdbResultFree, Told
    <3>. QED  BY <3>1, OthersRefuseNothing
  <2>4. ASSUME NEW name, HdbResultIsNull(name) PROVE RefusedForSize'
    BY <2>4, IsNullTold, OthersRefuseNothing
  <2>5. ASSUME NEW name, HdbResultGetInt32(name) PROVE RefusedForSize'
    BY <2>5, IntegerTold, OthersRefuseNothing DEF HdbResultGetInt32
  <2>6. ASSUME NEW name, HdbResultGetInt64(name) PROVE RefusedForSize'
    BY <2>6, IntegerTold, OthersRefuseNothing DEF HdbResultGetInt64
  <2>7. ASSUME NEW name, NEW size, HdbResultGetString(name, size) PROVE RefusedForSize'
    BY <2>7, StringTold, OthersRefuseNothing
  <2>8. CASE UNCHANGED vars
    BY <1>2, <2>8 DEF vars, RefusedForSize
  <2>. QED  BY <1>2, <2>1, <2>2, <2>3, <2>4, <2>5, <2>6, <2>7, <2>8 DEF Next
<1>. QED  BY <1>1, <1>2, PTL DEF Spec

================================================================================
