--------------------------- MODULE HdbQueryAstProofs ---------------------------
(***************************************************************************)
(* Proofs about HdbQueryAst, for any lists, limits, datasets and bounds:   *)
(* the query stays a CHdbQueryAst, its sources and condition trees stay    *)
(* well-founded, the ids and handles a caller was given keep their         *)
(* meaning, whatever call fails for want of memory, and the server reads   *)
(* the query the caller built out of the text that is sent.                *)
(***************************************************************************)
EXTENDS HdbQueryAst, SequenceTheorems, WellFoundedInduction, TLAPS

(* AstWellFormed as a property of a query.                                 *)
SourceInv(A) ==
  \A i \in DOMAIN A.sources :
    LET s == A.sources[i]
    IN /\ s.id = i - 1
       /\ s.type = "ROOT" <=> i = 1
       /\ i > 1 => s.parent \in 0 .. i - 2
       /\ s.on \in -1 .. Len(A.conditions) - 1

ConditionInv(A) ==
  \A i \in DOMAIN A.conditions :
    LET c == A.conditions[i]
    IN /\ c.id = i - 1
       /\ c.type = "GROUP" => \A j \in DOMAIN c.children : c.children[j] \in 0 .. i - 2

WellFormed(A) ==
  /\ SourceInv(A)
  /\ ConditionInv(A)
  /\ A.whereRoot \in -1 .. Len(A.conditions) - 1

(* A query without a source has no condition: HdbQueryFrom clears the      *)
(* query when it fails, and must not take a condition with it.             *)
Rooted(A) == A.sources = <<>> => A.conditions = <<>>

GoodAst(A) == A \in Asts /\ WellFormed(A) /\ Rooted(A)

(* What one query names another does, with the same meaning.               *)
Preserves(A, B) ==
  /\ \A i \in DOMAIN A.sources :
       i \in DOMAIN B.sources /\ B.sources[i].dataset = A.sources[i].dataset
  /\ \A i \in DOMAIN A.conditions :
       i \in DOMAIN B.conditions /\ B.conditions[i] = A.conditions[i]

IInv ==
  /\ GoodAst(ast)
  /\ handles \in SUBSET [id : Nat, dataset : Datasets]
  /\ nodes \in SUBSET (Nat \X Conditions)
  /\ lost \in BOOLEAN
  /\ NamesKeepMeaning

-----------------------------------------------------------------------------
(* The operations of CHdbQueryAst keep a query good.                       *)

LEMMA AstFields ==
  ASSUME NEW A \in Asts
  PROVE  /\ A.statement \in Statements /\ A.sources \in Seq(Sources)
         /\ A.items \in [Kinds -> Seq(Items)] /\ A.conditions \in Seq(Conditions)
         /\ A.whereRoot \in Nat \cup {-1} /\ A.limit \in Nat
         /\ Len(A.sources) \in Nat /\ DOMAIN A.sources = 1 .. Len(A.sources)
         /\ Len(A.conditions) \in Nat /\ DOMAIN A.conditions = 1 .. Len(A.conditions)
BY LenProperties DEF Asts

LEMMA WithSources ==
  ASSUME NEW A \in Asts, NEW s \in Seq(Sources)
  PROVE  /\ [A EXCEPT !.sources = s] \in Asts
         /\ [A EXCEPT !.sources = s].sources = s
         /\ [A EXCEPT !.sources = s].conditions = A.conditions
         /\ [A EXCEPT !.sources = s].whereRoot = A.whereRoot
BY DEF Asts

LEMMA WithConditions ==
  ASSUME NEW A \in Asts, NEW c \in Seq(Conditions)
  PROVE  /\ [A EXCEPT !.conditions = c] \in Asts
         /\ [A EXCEPT !.conditions = c].sources = A.sources
         /\ [A EXCEPT !.conditions = c].conditions = c
         /\ [A EXCEPT !.conditions = c].whereRoot = A.whereRoot
BY DEF Asts

(* The ids a caller may pass are positions.                                *)
LEMMA SourceIds ==
  ASSUME NEW A \in Asts, SourceInv(A), NEW n
  PROVE  HasSource(A, n) <=> n \in 0 .. Len(A.sources) - 1
<1>1. DOMAIN A.sources = 1 .. Len(A.sources) /\ Len(A.sources) \in Nat
  BY AstFields
<1>2. \A i \in DOMAIN A.sources : A.sources[i].id = i - 1
  BY DEF SourceInv
<1>3. ASSUME HasSource(A, n)
      PROVE  n \in 0 .. Len(A.sources) - 1
  BY <1>1, <1>2, <1>3 DEF HasSource
<1>4. ASSUME n \in 0 .. Len(A.sources) - 1
      PROVE  HasSource(A, n)
  <2>1. n + 1 \in DOMAIN A.sources /\ (n + 1) - 1 = n
    BY <1>1, <1>4
  <2>. QED  BY <1>2, <2>1 DEF HasSource
<1>. QED  BY <1>3, <1>4

LEMMA ConditionIds ==
  ASSUME NEW A \in Asts, ConditionInv(A), NEW n
  PROVE  HasCondition(A, n) <=> n \in 0 .. Len(A.conditions) - 1
<1>1. DOMAIN A.conditions = 1 .. Len(A.conditions) /\ Len(A.conditions) \in Nat
  BY AstFields
<1>2. \A i \in DOMAIN A.conditions : A.conditions[i].id = i - 1
  BY DEF ConditionInv
<1>3. ASSUME HasCondition(A, n)
      PROVE  n \in 0 .. Len(A.conditions) - 1
  BY <1>1, <1>2, <1>3 DEF HasCondition
<1>4. ASSUME n \in 0 .. Len(A.conditions) - 1
      PROVE  HasCondition(A, n)
  <2>1. n + 1 \in DOMAIN A.conditions /\ (n + 1) - 1 = n
    BY <1>1, <1>4
  <2>. QED  BY <1>2, <2>1 DEF HasCondition
<1>. QED  BY <1>3, <1>4

LEMMA AddRootOk ==
  ASSUME NEW A, GoodAst(A), MayAddRoot(A), NEW d \in Datasets
  PROVE  LET B == AddRootSource(A, d)
         IN /\ GoodAst(B) /\ Preserves(A, B)
            /\ 1 \in DOMAIN B.sources /\ B.sources[1].dataset = d
<1>. DEFINE r == [id |-> 0, type |-> "ROOT", parent |-> -1, dataset |-> d, on |-> -1]
            B == AddRootSource(A, d)
<1>1. A \in Asts /\ A.sources = <<>> /\ A.conditions = <<>>
  BY DEF GoodAst, Rooted, MayAddRoot
<1>2. r \in Sources
  BY DEF Sources
<1>3. Append(A.sources, r) = <<r>> /\ <<r>> \in Seq(Sources)
  BY <1>1, <1>2
<1>4. /\ B \in Asts /\ B.sources = <<r>>
      /\ B.conditions = A.conditions /\ B.whereRoot = A.whereRoot
  BY <1>1, <1>3, WithSources DEF AddRootSource
<1>. HIDE DEF B
<1>5. WellFormed(B) /\ Rooted(B)
  BY <1>1, <1>4 DEF GoodAst, WellFormed, SourceInv, ConditionInv, Rooted
<1>6. Preserves(A, B)
  BY <1>1, <1>4 DEF Preserves
<1>. QED  BY <1>4, <1>5, <1>6 DEF GoodAst, B

LEMMA AddJoinOk ==
  ASSUME NEW A, GoodAst(A), NEW p, MayAddJoin(A, p), NEW d \in Datasets
  PROVE  LET B == AddJoinSource(A, p, d)
             n == Len(A.sources)
         IN /\ GoodAst(B) /\ Preserves(A, B)
            /\ DOMAIN B.sources = 1 .. n + 1 /\ Len(B.sources) = n + 1 /\ n \in Nat
            /\ \A i \in 1 .. n : B.sources[i] = A.sources[i]
            /\ B.sources[n + 1].dataset = d
            /\ B.conditions = A.conditions /\ B.whereRoot = A.whereRoot
<1>. DEFINE n == Len(A.sources)
            r == [id |-> n, type |-> "JOIN", parent |-> p, dataset |-> d, on |-> -1]
            B == AddJoinSource(A, p, d)
<1>1. /\ A \in Asts /\ n \in Nat /\ A.sources \in Seq(Sources) /\ DOMAIN A.sources = 1 .. n
      /\ Len(A.conditions) \in Nat
      /\ SourceInv(A) /\ ConditionInv(A)
  BY AstFields DEF GoodAst, WellFormed
<1>2. p \in 0 .. n - 1
  BY <1>1, SourceIds DEF MayAddJoin
<1>3. r \in Sources
  BY <1>1, <1>2 DEF Sources
<1>4. /\ Append(A.sources, r) \in Seq(Sources) /\ Len(Append(A.sources, r)) = n + 1
      /\ \A i \in 1 .. n : Append(A.sources, r)[i] = A.sources[i]
      /\ Append(A.sources, r)[n + 1] = r
  BY <1>1, <1>3, AppendProperties
<1>5. /\ B \in Asts /\ B.sources = Append(A.sources, r)
      /\ B.conditions = A.conditions /\ B.whereRoot = A.whereRoot
  BY <1>1, <1>4, WithSources DEF AddJoinSource
<1>6. /\ DOMAIN B.sources = 1 .. n + 1 /\ Len(B.sources) = n + 1
      /\ \A i \in 1 .. n : B.sources[i] = A.sources[i]
      /\ B.sources[n + 1] = r
  BY <1>4, <1>5, LenProperties
<1>. HIDE DEF n, B
<1>7. SourceInv(B)
  <2>1. ASSUME NEW i \in 1 .. n
        PROVE  LET s == B.sources[i]
               IN /\ s.id = i - 1
                  /\ s.type = "ROOT" <=> i = 1
                  /\ i > 1 => s.parent \in 0 .. i - 2
                  /\ s.on \in -1 .. Len(B.conditions) - 1
    BY <1>1, <1>5, <1>6 DEF SourceInv
  <2>2. /\ r.id = (n + 1) - 1 /\ r.type # "ROOT" /\ n + 1 # 1
        /\ r.parent \in 0 .. (n + 1) - 2
        /\ r.on \in -1 .. Len(B.conditions) - 1
    BY <1>1, <1>2, <1>5
  <2>3. \A i \in 1 .. n + 1 : i \in 1 .. n \/ i = n + 1
    BY <1>1
  <2>. HIDE DEF r
  <2>. QED  BY <1>6, <2>1, <2>2, <2>3 DEF SourceInv
<1>8. WellFormed(B) /\ Rooted(B)
  <2>1. B.sources # <<>>
    BY <1>1, <1>6
  <2>. QED  BY <1>1, <1>5, <1>7, <2>1 DEF GoodAst, WellFormed, ConditionInv, Rooted
<1>9. Preserves(A, B)
  <2>1. \A i \in 1 .. n : i \in 1 .. n + 1
    BY <1>1
  <2>. QED  BY <1>1, <1>5, <1>6, <2>1 DEF Preserves
<1>10. B.sources[n + 1].dataset = d
  BY <1>6
<1>. QED  BY <1>1, <1>5, <1>6, <1>8, <1>9, <1>10 DEF GoodAst, B, n

LEMMA SetJoinOnOk ==
  ASSUME NEW A, GoodAst(A), NEW s, NEW node, HasCondition(A, node)
  PROVE  LET B == SetJoinOnRoot(A, s, node)
         IN /\ GoodAst(B) /\ Preserves(A, B)
            /\ DOMAIN B.sources = DOMAIN A.sources /\ Len(B.sources) = Len(A.sources)
            /\ \A i \in DOMAIN A.sources : A.sources[i].id # s => B.sources[i] = A.sources[i]
            /\ B.conditions = A.conditions /\ B.whereRoot = A.whereRoot
<1>. DEFINE n == Len(A.sources)
            on(i) == IF A.sources[i].id = s THEN [A.sources[i] EXCEPT !.on = node] ELSE A.sources[i]
            S == [i \in DOMAIN A.sources |-> on(i)]
            B == SetJoinOnRoot(A, s, node)
<1>1. /\ A \in Asts /\ n \in Nat /\ A.sources \in Seq(Sources) /\ DOMAIN A.sources = 1 .. n
      /\ \A i \in 1 .. n : A.sources[i] \in Sources
      /\ SourceInv(A) /\ ConditionInv(A) /\ Len(A.conditions) \in Nat
  BY AstFields, ElementOfSeq DEF GoodAst, WellFormed
<1>2. node \in 0 .. Len(A.conditions) - 1
  BY <1>1, ConditionIds
<1>3. ASSUME NEW i \in 1 .. n
      PROVE  /\ on(i) \in Sources
             /\ on(i).id = A.sources[i].id /\ on(i).type = A.sources[i].type
             /\ on(i).parent = A.sources[i].parent /\ on(i).dataset = A.sources[i].dataset
             /\ on(i).on \in {node, A.sources[i].on}
  <2>1. A.sources[i] \in Sources /\ node \in Nat
    BY <1>1, <1>2
  <2>. DEFINE x == A.sources[i]
  <2>2. x \in Sources
    BY <2>1
  <2>. HIDE DEF x
  <2>3. LET y == [x EXCEPT !.on = node]
        IN /\ y \in Sources /\ y.id = x.id /\ y.type = x.type
           /\ y.parent = x.parent /\ y.dataset = x.dataset /\ y.on = node
    BY <2>1, <2>2 DEF Sources
  <2>4. on(i) = IF x.id = s THEN [x EXCEPT !.on = node] ELSE x
    BY DEF x
  <2>. HIDE DEF on
  <2>5. CASE x.id = s
    BY <2>3, <2>4, <2>5 DEF x
  <2>6. CASE x.id # s
    BY <2>2, <2>4, <2>6 DEF x
  <2>. QED  BY <2>5, <2>6
<1>. HIDE DEF on
<1>4. S \in Seq(Sources) /\ DOMAIN S = 1 .. n /\ Len(S) = n
  <2>1. S \in [1 .. n -> Sources]
    BY <1>1, <1>3
  <2>. QED  BY <1>1, <2>1
<1>5. B = [A EXCEPT !.sources = S]
  BY DEF SetJoinOnRoot, on
<1>. HIDE DEF B
<1>6. B \in Asts /\ B.sources = S /\ B.conditions = A.conditions /\ B.whereRoot = A.whereRoot
  BY <1>1, <1>4, <1>5, WithSources
<1>7. \A i \in 1 .. n : S[i] = on(i)
  BY <1>1
<1>. HIDE DEF S, n
<1>8. SourceInv(B)
  <2>. SUFFICES ASSUME NEW i \in 1 .. n
                PROVE  LET t == B.sources[i]
                       IN /\ t.id = i - 1
                          /\ t.type = "ROOT" <=> i = 1
                          /\ i > 1 => t.parent \in 0 .. i - 2
                          /\ t.on \in -1 .. Len(B.conditions) - 1
    BY <1>4, <1>6 DEF SourceInv
  <2>1. LET t == A.sources[i]
        IN /\ t.id = i - 1
           /\ t.type = "ROOT" <=> i = 1
           /\ i > 1 => t.parent \in 0 .. i - 2
           /\ t.on \in -1 .. Len(A.conditions) - 1
    BY <1>1 DEF SourceInv
  <2>2. B.sources[i] = on(i) /\ B.conditions = A.conditions
    BY <1>6, <1>7
  <2>3. node \in -1 .. Len(A.conditions) - 1
    BY <1>1, <1>2
  <2>. QED  BY <1>3, <2>1, <2>2, <2>3
<1>9. WellFormed(B) /\ Rooted(B)
  <2>1. S = <<>> => A.sources = <<>>
    BY <1>1, <1>4
  <2>. QED  BY <1>1, <1>6, <1>8, <2>1 DEF GoodAst, WellFormed, ConditionInv, Rooted
<1>10. Preserves(A, B)
  BY <1>1, <1>3, <1>4, <1>6, <1>7 DEF Preserves
<1>11. \A i \in 1 .. n : A.sources[i].id # s => B.sources[i] = A.sources[i]
  BY <1>6, <1>7 DEF on
<1>. QED  BY <1>1, <1>4, <1>6, <1>9, <1>10, <1>11 DEF GoodAst, B, n

LEMMA AddConditionOk ==
  ASSUME NEW A, GoodAst(A), A.sources # <<>>, NEW c \in Conditions,
         c.id = Len(A.conditions),
         c.type = "GROUP" => \A j \in DOMAIN c.children : HasCondition(A, c.children[j])
  PROVE  LET B == AddCondition(A, c)
             n == Len(A.conditions)
         IN /\ GoodAst(B) /\ Preserves(A, B)
            /\ B.sources = A.sources
            /\ DOMAIN B.conditions = 1 .. n + 1 /\ Len(B.conditions) = n + 1 /\ n \in Nat
            /\ B.conditions[n + 1] = c
            /\ \A i \in 1 .. n : B.conditions[i] = A.conditions[i]
            /\ B.whereRoot = A.whereRoot
<1>. DEFINE n == Len(A.conditions)
            B == AddCondition(A, c)
<1>1. /\ A \in Asts /\ n \in Nat /\ A.conditions \in Seq(Conditions) /\ DOMAIN A.conditions = 1 .. n
      /\ SourceInv(A) /\ ConditionInv(A) /\ A.whereRoot \in -1 .. n - 1
  BY AstFields DEF GoodAst, WellFormed
<1>2. /\ Append(A.conditions, c) \in Seq(Conditions) /\ Len(Append(A.conditions, c)) = n + 1
      /\ \A i \in 1 .. n : Append(A.conditions, c)[i] = A.conditions[i]
      /\ Append(A.conditions, c)[n + 1] = c
  BY <1>1, AppendProperties
<1>3. /\ B \in Asts /\ B.sources = A.sources
      /\ B.conditions = Append(A.conditions, c) /\ B.whereRoot = A.whereRoot
  BY <1>1, <1>2, WithConditions DEF AddCondition
<1>4. /\ DOMAIN B.conditions = 1 .. n + 1 /\ Len(B.conditions) = n + 1
      /\ \A i \in 1 .. n : B.conditions[i] = A.conditions[i]
      /\ B.conditions[n + 1] = c
  BY <1>2, <1>3, LenProperties
<1>5. c.id = n /\ (c.type = "GROUP" => \A j \in DOMAIN c.children : c.children[j] \in 0 .. n - 1)
  BY <1>1, ConditionIds
<1>. HIDE DEF n, B
<1>6. \A i \in 1 .. n + 1 : i \in 1 .. n \/ i = n + 1
  BY <1>1
<1>7. ConditionInv(B)
  <2>1. (n + 1) - 1 = n /\ (n + 1) - 2 = n - 1
    BY <1>1
  <2>. QED  BY <1>1, <1>4, <1>5, <1>6, <2>1 DEF ConditionInv
<1>8. SourceInv(B)
  <2>1. Len(A.conditions) = n
    BY DEF n
  <2>. QED  BY <1>1, <1>3, <1>4, <2>1 DEF SourceInv
<1>9. B.whereRoot \in -1 .. Len(B.conditions) - 1
  BY <1>1, <1>3, <1>4
<1>10. Preserves(A, B)
  <2>1. \A i \in 1 .. n : i \in 1 .. n + 1
    BY <1>1
  <2>. QED  BY <1>1, <1>3, <1>4, <2>1 DEF Preserves
<1>. QED  BY <1>1, <1>3, <1>4, <1>7, <1>8, <1>9, <1>10 DEF GoodAst, WellFormed, Rooted, B, n

(* Steps that leave sources and conditions alone.                          *)
LEMMA OtherFieldsOk ==
  ASSUME NEW A, GoodAst(A), NEW B \in Asts,
         B.sources = A.sources, B.conditions = A.conditions,
         B.whereRoot \in -1 .. Len(B.conditions) - 1
  PROVE  GoodAst(B) /\ Preserves(A, B)
BY DEF GoodAst, WellFormed, SourceInv, ConditionInv, Rooted, Preserves

(* Taking back the source that was just added.                             *)
LEMMA DropLastOk ==
  ASSUME NEW A, GoodAst(A), NEW B, GoodAst(B), A.sources # <<>>,
         Len(B.sources) = Len(A.sources) + 1,
         \A i \in DOMAIN A.sources : B.sources[i] = A.sources[i],
         Len(A.conditions) <= Len(B.conditions),
         \A i \in DOMAIN A.conditions : B.conditions[i] = A.conditions[i]
  PROVE  LET C == DropLastSource(B)
         IN /\ GoodAst(C) /\ Preserves(A, C)
            /\ C.sources = A.sources /\ C.conditions = B.conditions
<1>. DEFINE n == Len(A.sources)
            C == DropLastSource(B)
<1>1. /\ A \in Asts /\ n \in Nat /\ A.sources \in Seq(Sources) /\ DOMAIN A.sources = 1 .. n
      /\ B \in Asts /\ Len(B.sources) = n + 1
      /\ Len(A.conditions) \in Nat /\ DOMAIN A.conditions = 1 .. Len(A.conditions)
      /\ Len(B.conditions) \in Nat /\ DOMAIN B.conditions = 1 .. Len(B.conditions)
      /\ \A i \in 1 .. n : A.sources[i] \in Sources
  BY AstFields, ElementOfSeq DEF GoodAst
<1>2. Front(B.sources) = A.sources
  <2>1. Front(B.sources) = SubSeq(B.sources, 1, n)
    BY <1>1 DEF Front
  <2>2. /\ SubSeq(B.sources, 1, n) \in Seq(Sources)
        /\ Len(SubSeq(B.sources, 1, n)) = IF 1 <= n THEN n - 1 + 1 ELSE 0
        /\ \A i \in 1 .. n - 1 + 1 : SubSeq(B.sources, 1, n)[i] = B.sources[1 + i - 1]
    BY <1>1, SubSeqProperties
  <2>3. Len(SubSeq(B.sources, 1, n)) = n
    BY <1>1, <2>2
  <2>. HIDE DEF n
  <2>4. \A i \in 1 .. n : i \in 1 .. n - 1 + 1 /\ 1 + i - 1 = i
    BY <1>1
  <2>5. \A i \in 1 .. n : SubSeq(B.sources, 1, n)[i] = A.sources[i]
    BY <1>1, <2>2, <2>4
  <2>6. Len(A.sources) = n
    BY DEF n
  <2>. QED  BY <1>1, <2>1, <2>2, <2>3, <2>5, <2>6, SeqEqual
<1>3. C \in Asts /\ C.sources = A.sources /\ C.conditions = B.conditions /\ C.whereRoot = B.whereRoot
  BY <1>1, <1>2, WithSources DEF DropLastSource
<1>. HIDE DEF C
<1>4. SourceInv(C)
  <2>. SUFFICES ASSUME NEW i \in 1 .. n
                PROVE  LET t == A.sources[i]
                       IN /\ t.id = i - 1
                          /\ t.type = "ROOT" <=> i = 1
                          /\ i > 1 => t.parent \in 0 .. i - 2
                          /\ t.on \in -1 .. Len(B.conditions) - 1
    BY <1>1, <1>3 DEF SourceInv
  <2>1. SourceInv(A)
    BY DEF GoodAst, WellFormed
  <2>2. LET t == A.sources[i]
        IN /\ t.id = i - 1
           /\ t.type = "ROOT" <=> i = 1
           /\ i > 1 => t.parent \in 0 .. i - 2
           /\ t.on \in -1 .. Len(A.conditions) - 1
    BY <1>1, <2>1 DEF SourceInv
  <2>. QED  BY <1>1, <2>2
<1>5. WellFormed(C) /\ Rooted(C)
  BY <1>3, <1>4 DEF GoodAst, WellFormed, ConditionInv, Rooted
<1>6. Preserves(A, C)
  <2>1. \A i \in 1 .. Len(A.conditions) : i \in 1 .. Len(B.conditions)
    BY <1>1
  <2>. QED  BY <1>1, <1>3, <2>1 DEF Preserves
<1>. QED  BY <1>3, <1>5, <1>6 DEF GoodAst, C

-----------------------------------------------------------------------------
(* The calls.                                                              *)

(* A step keeps the invariant when the query stays good, what it named     *)
(* stays, and every new name of the caller is a name of the query.         *)
LEMMA StepKeeps ==
  ASSUME IInv, GoodAst(ast'), Preserves(ast, ast'), lost' \in BOOLEAN,
         handles' \in SUBSET [id : Nat, dataset : Datasets],
         nodes' \in SUBSET (Nat \X Conditions),
         \A h \in handles' \ handles : /\ h.id + 1 \in DOMAIN ast'.sources
                                       /\ ast'.sources[h.id + 1].dataset = h.dataset,
         \A n \in nodes' \ nodes : /\ n[1] + 1 \in DOMAIN ast'.conditions
                                   /\ ast'.conditions[n[1] + 1] = n[2]
  PROVE  IInv'
<1>1. ASSUME NEW h \in handles'
      PROVE  /\ h.id + 1 \in DOMAIN ast'.sources
             /\ ast'.sources[h.id + 1].dataset = h.dataset
  <2>1. CASE h \in handles
    BY <2>1 DEF IInv, NamesKeepMeaning, Preserves
  <2>. QED  BY <2>1
<1>2. ASSUME NEW m \in nodes'
      PROVE  /\ m[1] + 1 \in DOMAIN ast'.conditions
             /\ ast'.conditions[m[1] + 1] = m[2]
  <2>1. CASE m \in nodes
    BY <2>1 DEF IInv, NamesKeepMeaning, Preserves
  <2>. QED  BY <2>1
<1>3. NamesKeepMeaning'
  BY <1>1, <1>2 DEF NamesKeepMeaning
<1>4. GoodAst(ast)'
  BY DEF GoodAst, WellFormed, SourceInv, ConditionInv, Rooted
<1>. QED  BY <1>3, <1>4 DEF IInv

(* A call that gives the caller no new name.                               *)
LEMMA NoNewName ==
  ASSUME IInv, GoodAst(ast'), Preserves(ast, ast'), lost' \in BOOLEAN,
         UNCHANGED <<handles, nodes>>
  PROVE  IInv'
BY StepKeeps DEF IInv

LEMMA NewHandle ==
  ASSUME IInv, GoodAst(ast'), Preserves(ast, ast'),
         NEW i \in Nat, NEW d \in Datasets,
         i + 1 \in DOMAIN ast'.sources, ast'.sources[i + 1].dataset = d,
         handles' = handles \cup {[id |-> i, dataset |-> d]},
         UNCHANGED <<nodes, lost>>
  PROVE  IInv'
<1>1. \A h \in handles' \ handles : h.id = i /\ h.dataset = d
  OBVIOUS
<1>2. handles' \in SUBSET [id : Nat, dataset : Datasets]
  BY DEF IInv
<1>. QED  BY <1>1, <1>2, StepKeeps DEF IInv

(* A handle the caller holds names a source of the query.                  *)
LEMMA HeldHandle ==
  ASSUME IInv, NEW h \in handles
  PROVE  h.id \in Nat /\ ast.sources # <<>>
<1>1. h.id \in Nat /\ h.id + 1 \in DOMAIN ast.sources
  BY DEF IInv, NamesKeepMeaning
<1>. QED  BY <1>1

LEMMA EmptyIsGood == GoodAst(EmptyAst)
<1>1. EmptyAst \in Asts
  BY AstAssumption DEF EmptyAst, Asts
<1>2. EmptyAst.sources = <<>> /\ EmptyAst.conditions = <<>> /\ EmptyAst.whereRoot = -1
  BY DEF EmptyAst
<1>3. Len(<<>>) = 0 /\ DOMAIN <<>> = {}
  OBVIOUS
<1>. HIDE DEF EmptyAst
<1>. QED  BY <1>1, <1>2, <1>3 DEF GoodAst, WellFormed, SourceInv, ConditionInv, Rooted

LEMMA FromStep ==
  ASSUME IInv, NEW d \in Datasets, QueryFrom(d)
  PROVE  IInv'
<1>1. GoodAst(ast) /\ MayAddRoot(ast) /\ ast' = AddRootSource(ast, d)
  BY DEF IInv, QueryFrom
<1>2. /\ GoodAst(ast') /\ Preserves(ast, ast')
      /\ 0 + 1 \in DOMAIN ast'.sources /\ ast'.sources[0 + 1].dataset = d
  BY <1>1, AddRootOk
<1>. QED  BY <1>2, NewHandle DEF QueryFrom

LEMMA FromFailsStep ==
  ASSUME IInv, NEW d \in Datasets, QueryFromFails(d)
  PROVE  IInv'
<1>1. ast.sources = <<>> /\ ast.conditions = <<>> /\ GoodAst(ast) /\ MayAddRoot(ast)
  BY DEF IInv, QueryFromFails, MayAddRoot, GoodAst, Rooted
<1>2. CASE ast' = EmptyAst
  <2>1. Preserves(ast, ast')
    BY <1>1 DEF Preserves
  <2>2. GoodAst(ast')
    BY <1>2, EmptyIsGood
  <2>. QED  BY <2>1, <2>2, NoNewName DEF QueryFromFails, IInv
<1>3. CASE ast' = AddRootSource(ast, d)
  <2>1. GoodAst(ast') /\ Preserves(ast, ast')
    BY <1>1, <1>3, AddRootOk
  <2>. QED  BY <2>1, NoNewName DEF QueryFromFails, IInv
<1>. QED  BY <1>2, <1>3 DEF QueryFromFails

LEMMA JoinStep ==
  ASSUME IInv, NEW h \in handles, NEW d \in Datasets, QueryJoin(h, d)
  PROVE  IInv'
<1>1. GoodAst(ast) /\ MayAddJoin(ast, h.id) /\ ast' = AddJoinSource(ast, h.id, d)
  BY DEF IInv, QueryJoin
<1>. DEFINE n == Len(ast.sources)
<1>2. /\ GoodAst(ast') /\ Preserves(ast, ast') /\ n \in Nat
      /\ DOMAIN ast'.sources = 1 .. n + 1 /\ ast'.sources[n + 1].dataset = d
  BY <1>1, AddJoinOk
<1>3. handles' = handles \cup {[id |-> n, dataset |-> d]} /\ UNCHANGED <<nodes, lost>>
  BY DEF QueryJoin
<1>. HIDE DEF n
<1>4. n + 1 \in DOMAIN ast'.sources
  BY <1>2
<1>. QED  BY <1>2, <1>3, <1>4, NewHandle

LEMMA JoinFailsStep ==
  ASSUME IInv, NEW h \in handles, NEW d \in Datasets, QueryJoinFails(h, d)
  PROVE  IInv'
<1>. DEFINE B == AddJoinSource(ast, h.id, d)
<1>1. GoodAst(ast) /\ MayAddJoin(ast, h.id) /\ (ast' = DropLastSource(B) \/ ast' = B)
  BY DEF IInv, QueryJoinFails
<1>2. /\ GoodAst(B) /\ Preserves(ast, B) /\ Len(B.sources) = Len(ast.sources) + 1 /\ B.conditions = ast.conditions
      /\ \A i \in 1 .. Len(ast.sources) : B.sources[i] = ast.sources[i]
  BY <1>1, AddJoinOk
<1>3. ast.sources # <<>> /\ DOMAIN ast.sources = 1 .. Len(ast.sources)
      /\ Len(ast.conditions) \in Nat
  BY <1>1, HeldHandle, AstFields DEF GoodAst
<1>. HIDE DEF B
<1>4. CASE ast' = DropLastSource(B)
  <2>1. GoodAst(ast') /\ Preserves(ast, ast')
    BY <1>1, <1>2, <1>3, <1>4, DropLastOk
  <2>. QED  BY <2>1, NoNewName DEF QueryJoinFails, IInv
<1>5. CASE ast' = B
  BY <1>2, <1>5, NoNewName DEF QueryJoinFails, IInv
<1>. QED  BY <1>1, <1>4, <1>5

(* AddJoinSourceOn: the source, its comparison and its ON root, as found   *)
(* by the calls that follow.                                               *)
LEMMA JoinOnOk ==
  ASSUME IInv, NEW h \in handles, NEW d \in Datasets, MayAddJoin(ast, h.id)
  PROVE  LET C == WithJoinOn(h, d)
             n == Len(ast.sources)
         IN /\ GoodAst(C) /\ Preserves(ast, C) /\ n \in Nat
            /\ DOMAIN C.sources = 1 .. n + 1 /\ Len(C.sources) = n + 1
            /\ C.sources[n + 1].dataset = d
            /\ \A i \in DOMAIN ast.sources : C.sources[i] = ast.sources[i]
            /\ Len(C.conditions) = Len(ast.conditions) + 1
            /\ LET c == C.conditions[Len(ast.conditions) + 1]
               IN c.type = "FIELD_COMPARE" /\ c.source = h.id /\ c.right = n
<1>. DEFINE n == Len(ast.sources)
            m == Len(ast.conditions)
            A == AddJoinSource(ast, h.id, d)
            c == FieldCompare(A, h.id, n)
            B == AddCondition(A, c)
            C == SetJoinOnRoot(B, n, m)
<1>1. /\ GoodAst(ast) /\ h.id \in Nat /\ n \in Nat /\ m \in Nat
      /\ DOMAIN ast.sources = 1 .. n /\ DOMAIN ast.conditions = 1 .. m
  BY HeldHandle, AstFields DEF IInv, GoodAst
<1>2. /\ GoodAst(A) /\ Preserves(ast, A)
      /\ DOMAIN A.sources = 1 .. n + 1 /\ Len(A.sources) = n + 1
      /\ \A i \in 1 .. n : A.sources[i] = ast.sources[i]
      /\ A.sources[n + 1].dataset = d
      /\ A.conditions = ast.conditions
  BY <1>1, AddJoinOk
<1>3. /\ c \in Conditions /\ c.id = m /\ c.type = "FIELD_COMPARE" /\ Len(A.conditions) = m
      /\ c.source = h.id /\ c.right = n
  <2>. HIDE DEF A
  <2>. QED  BY <1>1, <1>2 DEF FieldCompare, Conditions, Texts
<1>. HIDE DEF n, m, A, c
<1>4. A.sources # <<>>
  BY <1>1, <1>2
<1>5. /\ GoodAst(B) /\ Preserves(A, B) /\ B.sources = A.sources
      /\ DOMAIN B.conditions = 1 .. m + 1 /\ Len(B.conditions) = m + 1
      /\ B.conditions[m + 1] = c
  <2>1. c.id = Len(A.conditions) /\ c.type # "GROUP" /\ m = Len(A.conditions)
    BY <1>3
  <2>2. /\ GoodAst(B) /\ Preserves(A, B) /\ B.sources = A.sources
        /\ DOMAIN B.conditions = 1 .. Len(A.conditions) + 1
        /\ Len(B.conditions) = Len(A.conditions) + 1
        /\ B.conditions[Len(A.conditions) + 1] = c
    BY <1>2, <1>3, <1>4, <2>1, AddConditionOk
  <2>. HIDE DEF B
  <2>. QED  BY <2>1, <2>2
<1>. HIDE DEF B
<1>6. HasCondition(B, m)
  <2>1. ConditionInv(B) /\ B \in Asts
    BY <1>5 DEF GoodAst, WellFormed
  <2>. QED  BY <1>1, <1>5, <2>1, ConditionIds
<1>7. /\ GoodAst(C) /\ Preserves(B, C)
      /\ DOMAIN C.sources = DOMAIN B.sources /\ Len(C.sources) = Len(B.sources)
      /\ \A i \in DOMAIN B.sources : B.sources[i].id # n => C.sources[i] = B.sources[i]
      /\ C.conditions = B.conditions
  BY <1>5, <1>6, SetJoinOnOk
<1>. HIDE DEF C
<1>8. Preserves(ast, C)
  BY <1>2, <1>5, <1>7 DEF Preserves
<1>9. C.sources[n + 1].dataset = d
  BY <1>1, <1>2, <1>5, <1>7 DEF Preserves
<1>10. ASSUME NEW i \in 1 .. n
       PROVE  C.sources[i] = ast.sources[i]
  <2>1. i \in 1 .. n + 1 /\ i - 1 # n
    BY <1>1
  <2>2. ast.sources[i].id = i - 1
    BY <1>1 DEF GoodAst, WellFormed, SourceInv
  <2>. QED  BY <1>2, <1>5, <1>7, <2>1, <2>2
<1>11. C = WithJoinOn(h, d)
  BY DEF C, B, c, A, n, m, WithJoinOn
<1>12. /\ GoodAst(C) /\ Preserves(ast, C) /\ n \in Nat
       /\ DOMAIN C.sources = 1 .. n + 1 /\ Len(C.sources) = n + 1
       /\ C.sources[n + 1].dataset = d
       /\ \A i \in DOMAIN ast.sources : C.sources[i] = ast.sources[i]
       /\ Len(C.conditions) = m + 1
       /\ C.conditions[m + 1].type = "FIELD_COMPARE" /\ C.conditions[m + 1].source = h.id
       /\ C.conditions[m + 1].right = n
  BY <1>1, <1>2, <1>3, <1>5, <1>7, <1>8, <1>9, <1>10
<1>. QED  BY <1>11, <1>12 DEF n, m

LEMMA JoinOnStep ==
  ASSUME IInv, NEW h \in handles, NEW d \in Datasets, QueryJoinOn(h, d)
  PROVE  IInv'
<1>. DEFINE n == Len(ast.sources)
<1>1. /\ MayAddJoin(ast, h.id) /\ ast' = WithJoinOn(h, d)
      /\ handles' = handles \cup {[id |-> n, dataset |-> d]} /\ UNCHANGED <<nodes, lost>>
  BY DEF QueryJoinOn
<1>2. /\ GoodAst(ast') /\ Preserves(ast, ast') /\ n \in Nat
      /\ DOMAIN ast'.sources = 1 .. n + 1 /\ ast'.sources[n + 1].dataset = d
  BY <1>1, JoinOnOk
<1>. HIDE DEF n
<1>3. n + 1 \in DOMAIN ast'.sources
  BY <1>2
<1>. QED  BY <1>1, <1>2, <1>3, NewHandle

LEMMA JoinOnFailsStep ==
  ASSUME IInv, NEW h \in handles, NEW d \in Datasets, QueryJoinOnFails(h, d)
  PROVE  IInv'
<1>. DEFINE C == WithJoinOn(h, d)
<1>1. GoodAst(ast) /\ MayAddJoin(ast, h.id) /\ lost \in BOOLEAN /\ UNCHANGED <<handles, nodes>>
  BY DEF IInv, QueryJoinOnFails
<1>2. CASE ast' = AddJoinSource(ast, h.id, d) /\ lost' = lost
  BY <1>1, <1>2, AddJoinOk, NoNewName
<1>3. CASE ast' = C /\ lost' = lost
  BY <1>1, <1>3, JoinOnOk, NoNewName
<1>4. CASE ast' = DropLastSource(C) /\ lost' = TRUE
  <2>1. /\ GoodAst(C) /\ Preserves(ast, C)
        /\ Len(C.sources) = Len(ast.sources) + 1
        /\ \A i \in DOMAIN ast.sources : C.sources[i] = ast.sources[i]
        /\ Len(C.conditions) = Len(ast.conditions) + 1
    BY <1>1, JoinOnOk
  <2>2. ast.sources # <<>> /\ Len(ast.conditions) \in Nat
    BY <1>1, HeldHandle, AstFields DEF GoodAst
  <2>. HIDE DEF C
  <2>3. /\ Len(ast.conditions) <= Len(C.conditions)
        /\ \A i \in DOMAIN ast.conditions : C.conditions[i] = ast.conditions[i]
    BY <2>1, <2>2 DEF Preserves
  <2>4. GoodAst(ast') /\ Preserves(ast, ast')
    BY <1>1, <1>4, <2>1, <2>2, <2>3, DropLastOk
  <2>. QED  BY <1>1, <1>4, <2>4, NoNewName
<1>. QED  BY <1>2, <1>3, <1>4 DEF QueryJoinOnFails

LEMMA JoinOnConditionStep ==
  ASSUME IInv, NEW h \in handles, NEW c \in AnyNode, QueryJoinOnCondition(h, c)
  PROVE  IInv'
<1>1. /\ GoodAst(ast) /\ HasCondition(ast, c) /\ ast' = SetJoinOnRoot(ast, h.id, c)
      /\ UNCHANGED <<handles, nodes, lost>> /\ lost \in BOOLEAN
  BY DEF IInv, QueryJoinOnCondition, MaySetJoinOn
<1>2. GoodAst(ast') /\ Preserves(ast, ast')
  BY <1>1, SetJoinOnOk
<1>. QED  BY <1>1, <1>2, NoNewName

LEMMA TimeRangeStep ==
  ASSUME IInv, NEW b \in Times, NEW e \in Times, QueryTimeRange(b, e)
  PROVE  IInv'
<1>1. GoodAst(ast) /\ ast' = [ast EXCEPT !.time = <<b, e>>]
  BY DEF IInv, QueryTimeRange
<1>2. ast' \in Asts /\ ast'.sources = ast.sources /\ ast'.conditions = ast.conditions
      /\ ast'.whereRoot = ast.whereRoot
  BY <1>1 DEF GoodAst, Asts
<1>3. GoodAst(ast') /\ Preserves(ast, ast')
  BY <1>1, <1>2, OtherFieldsOk DEF GoodAst, WellFormed
<1>. QED  BY <1>3, NoNewName DEF QueryTimeRange, IInv

LEMMA StatementStep ==
  ASSUME IInv, NEW s \in Statements, QuerySetStatementType(s)
  PROVE  IInv'
<1>1. GoodAst(ast) /\ ast' = [ast EXCEPT !.statement = s]
  BY DEF IInv, QuerySetStatementType
<1>2. ast' \in Asts /\ ast'.sources = ast.sources /\ ast'.conditions = ast.conditions
      /\ ast'.whereRoot = ast.whereRoot
  BY <1>1 DEF GoodAst, Asts
<1>3. GoodAst(ast') /\ Preserves(ast, ast')
  BY <1>1, <1>2, OtherFieldsOk DEF GoodAst, WellFormed
<1>. QED  BY <1>3, NoNewName DEF QuerySetStatementType, IInv

LEMMA LimitStep ==
  ASSUME IInv, NEW l \in Int, QueryLimit(l)
  PROVE  IInv'
<1>1. GoodAst(ast) /\ ast' = [ast EXCEPT !.limit = l] /\ l \in Nat
  BY DEF IInv, QueryLimit
<1>2. ast' \in Asts /\ ast'.sources = ast.sources /\ ast'.conditions = ast.conditions
      /\ ast'.whereRoot = ast.whereRoot
  BY <1>1 DEF GoodAst, Asts
<1>3. GoodAst(ast') /\ Preserves(ast, ast')
  BY <1>1, <1>2, OtherFieldsOk DEF GoodAst, WellFormed
<1>. QED  BY <1>3, NoNewName DEF QueryLimit, IInv

LEMMA WhereConditionStep ==
  ASSUME IInv, NEW c \in AnyNode, QueryWhereCondition(c)
  PROVE  IInv'
<1>1. GoodAst(ast) /\ ast' = [ast EXCEPT !.whereRoot = c] /\ HasCondition(ast, c)
  BY DEF IInv, QueryWhereCondition
<1>2. Len(ast.conditions) \in Nat /\ c \in 0 .. Len(ast.conditions) - 1
  BY <1>1, AstFields, ConditionIds DEF GoodAst, WellFormed
<1>3. c \in Nat \cup {-1} /\ c \in -1 .. Len(ast.conditions) - 1
  BY <1>2
<1>4. ast \in Asts
  BY <1>1 DEF GoodAst
<1>5. ast' \in Asts /\ ast'.sources = ast.sources /\ ast'.conditions = ast.conditions
      /\ ast'.whereRoot = c
  BY <1>1, <1>3, <1>4 DEF Asts
<1>6. ast'.whereRoot \in -1 .. Len(ast'.conditions) - 1
  BY <1>3, <1>5
<1>7. GoodAst(ast') /\ Preserves(ast, ast')
  BY <1>1, <1>5, <1>6, OtherFieldsOk
<1>. QED  BY <1>7, NoNewName DEF QueryWhereCondition, IInv

LEMMA ItemStep ==
  ASSUME IInv, NEW kind \in Kinds, NEW h \in handles, NEW text \in Texts,
         QueryItem(kind, h, text)
  PROVE  IInv'
<1>. DEFINE t == [source |-> h.id, text |-> text]
<1>1. GoodAst(ast) /\ ast \in Asts /\ ast' = AddItem(ast, kind, h.id, text)
  BY DEF IInv, QueryItem, GoodAst
<1>2. t \in Items
  BY HeldHandle DEF Items
<1>3. ast.items \in [Kinds -> Seq(Items)]
  BY <1>1, AstFields
<1>. HIDE DEF t
<1>4. Append(ast.items[kind], t) \in Seq(Items)
  BY <1>2, <1>3
<1>. DEFINE I == [ast.items EXCEPT ![kind] = Append(ast.items[kind], t)]
<1>5. I \in [Kinds -> Seq(Items)]
  BY <1>3, <1>4
<1>6. ast' = [ast EXCEPT !.items = I]
  BY <1>1 DEF AddItem, Item, t, Asts
<1>. HIDE DEF I
<1>7. ast' \in Asts /\ ast'.sources = ast.sources /\ ast'.conditions = ast.conditions
      /\ ast'.whereRoot = ast.whereRoot
  BY <1>1, <1>5, <1>6 DEF Asts
<1>8. GoodAst(ast') /\ Preserves(ast, ast')
  BY <1>1, <1>7, OtherFieldsOk DEF GoodAst, WellFormed
<1>. QED  BY <1>8, NoNewName DEF QueryItem, IInv

(* The new node's id is the caller's new name.                             *)
LEMMA ConditionStep ==
  ASSUME IInv, NEW c \in Conditions, QueryCondition(c),
         ast.sources # <<>>, c.id = Len(ast.conditions),
         c.type = "GROUP" => \A j \in DOMAIN c.children : HasCondition(ast, c.children[j])
  PROVE  IInv'
<1>. DEFINE n == Len(ast.conditions)
<1>1. GoodAst(ast) /\ ast' = AddCondition(ast, c)
      /\ nodes' = nodes \cup {<<n, c>>} /\ UNCHANGED <<handles, lost>>
  BY DEF IInv, QueryCondition
<1>2. /\ GoodAst(ast') /\ Preserves(ast, ast') /\ n \in Nat
      /\ DOMAIN ast'.conditions = 1 .. n + 1 /\ ast'.conditions[n + 1] = c
  BY <1>1, AddConditionOk
<1>. HIDE DEF n
<1>3. \A m \in nodes' \ nodes : m = <<n, c>> /\ m[1] = n /\ m[2] = c
  BY <1>1
<1>4. n + 1 \in DOMAIN ast'.conditions
  BY <1>2
<1>5. \A m \in nodes' \ nodes : /\ m[1] + 1 \in DOMAIN ast'.conditions
                                /\ ast'.conditions[m[1] + 1] = m[2]
  BY <1>2, <1>3, <1>4
<1>6. nodes' \in SUBSET (Nat \X Conditions)
  BY <1>1, <1>2 DEF IInv
<1>. QED  BY <1>1, <1>2, <1>5, <1>6, StepKeeps DEF IInv

LEMMA ConditionValueStep ==
  ASSUME IInv, NEW h \in handles, NEW text \in Texts, QueryConditionValue(h, text)
  PROVE  IInv'
<1>. DEFINE c == ValueCondition(ast, h.id, text)
<1>1. Len(ast.conditions) \in Nat
  BY AstFields DEF IInv, GoodAst
<1>2. c \in Conditions /\ c.id = Len(ast.conditions) /\ c.type # "GROUP"
  BY <1>1, HeldHandle DEF ValueCondition, Conditions
<1>3. QueryCondition(c) /\ ast.sources # <<>>
  BY HeldHandle DEF QueryConditionValue
<1>. QED  BY <1>2, <1>3, ConditionStep

LEMMA ConditionFieldStep ==
  ASSUME IInv, NEW h \in handles, NEW r \in handles, QueryConditionField(h, r)
  PROVE  IInv'
<1>. DEFINE c == FieldCompare(ast, h.id, r.id)
<1>1. Len(ast.conditions) \in Nat
  BY AstFields DEF IInv, GoodAst
<1>2. c \in Conditions /\ c.id = Len(ast.conditions) /\ c.type # "GROUP"
  BY <1>1, HeldHandle DEF FieldCompare, Conditions, Texts
<1>3. QueryCondition(c) /\ ast.sources # <<>>
  BY HeldHandle DEF QueryConditionField
<1>. QED  BY <1>2, <1>3, ConditionStep

LEMMA ConditionGroupStep ==
  ASSUME IInv, NEW x \in AnyNode, NEW y \in AnyNode, QueryConditionGroup(<<x, y>>)
  PROVE  IInv'
<1>. DEFINE c == Group(ast, <<x, y>>)
<1>1. Len(ast.conditions) \in Nat
  BY AstFields DEF IInv, GoodAst
<1>2. x \in Nat /\ y \in Nat
  BY AstAssumption DEF AnyNode
<1>3. c \in Conditions /\ c.id = Len(ast.conditions) /\ c.children = <<x, y>>
  BY <1>1, <1>2 DEF Group, Conditions
<1>4. QueryCondition(c)
      /\ \A j \in DOMAIN <<x, y>> : HasCondition(ast, <<x, y>>[j])
  BY DEF QueryConditionGroup, MayGroup
<1>5. HasCondition(ast, x)
  BY <1>4
<1>6. ast.sources # <<>>
  BY <1>5 DEF HasCondition, IInv, GoodAst, Rooted
<1>. HIDE DEF c
<1>. QED  BY <1>3, <1>4, <1>6, ConditionStep

-----------------------------------------------------------------------------
LEMMA Initially == Init => IInv
<1>. SUFFICES ASSUME Init PROVE IInv
  OBVIOUS
<1>. QED  BY EmptyIsGood DEF Init, IInv, NamesKeepMeaning

LEMMA StepInvariant == IInv /\ [Next]_vars => IInv'
<1>. SUFFICES ASSUME IInv, [Next]_vars
              PROVE  IInv'
  OBVIOUS
<1>1. CASE UNCHANGED vars
  BY <1>1 DEF vars, IInv, GoodAst, WellFormed, SourceInv, ConditionInv, Rooted, NamesKeepMeaning
<1>2. CASE \E s \in Statements : QuerySetStatementType(s)
  BY <1>2, StatementStep
<1>3. CASE \E d \in Datasets : QueryFrom(d)
  BY <1>3, FromStep
<1>4. CASE \E d \in Datasets : QueryFromFails(d)
  BY <1>4, FromFailsStep
<1>5. CASE \E h \in handles, d \in Datasets :
             QueryJoin(h, d) \/ QueryJoinFails(h, d) \/ QueryJoinOn(h, d) \/ QueryJoinOnFails(h, d)
  BY <1>5, JoinStep, JoinFailsStep, JoinOnStep, JoinOnFailsStep
<1>6. CASE \E h \in handles, n \in AnyNode : QueryJoinOnCondition(h, n)
  BY <1>6, JoinOnConditionStep
<1>7. CASE \E b, e \in Times : QueryTimeRange(b, e)
  BY <1>7, TimeRangeStep
<1>8. CASE \E kind \in Kinds, h \in handles, text \in Texts : QueryItem(kind, h, text)
  BY <1>8, ItemStep
<1>9. CASE \E h \in handles, text \in Texts : QueryConditionValue(h, text)
  BY <1>9, ConditionValueStep
<1>10. CASE \E h, r \in handles : QueryConditionField(h, r)
  BY <1>10, ConditionFieldStep
<1>11. CASE \E c, d \in AnyNode : QueryConditionGroup(<<c, d>>)
  BY <1>11, ConditionGroupStep
<1>12. CASE \E n \in AnyNode : QueryWhereCondition(n)
  BY <1>12, WhereConditionStep
<1>13. CASE \E limit \in -1 .. MaxLimit + 1 : QueryLimit(limit)
  BY <1>13, LimitStep, AstAssumption
<1>. QED  BY <1>1, <1>2, <1>3, <1>4, <1>5, <1>6, <1>7, <1>8, <1>9, <1>10, <1>11, <1>12, <1>13
          DEF Next

(* The inductive invariant of the query, over every order of the           *)
(* HdbQuery* calls and every point where they run out of memory.           *)
THEOREM Invariant == Spec => []IInv
<1>. QED  BY Initially, StepInvariant, PTL DEF Spec

(* The query is a CHdbQueryAst and the caller's names are handles and      *)
(* condition ids.                                                          *)
THEOREM TypeCorrect == Spec => []TypeOK
<1>1. IInv => TypeOK
  BY DEF IInv, GoodAst, TypeOK
<1>. QED  BY <1>1, Invariant, PTL

(* Ids are positions, parents and children come first, roots name nodes:   *)
(* the executor's recursion over sources and conditions ends for every     *)
(* query the calls can build, however many sources and conditions it has.  *)
THEOREM QueryWellFormed == Spec => []AstWellFormed
<1>1. IInv => AstWellFormed
  BY DEF IInv, GoodAst, WellFormed, SourceInv, ConditionInv, AstWellFormed
<1>. QED  BY <1>1, Invariant, PTL

(* No call, and no failed call, takes a source or condition from under a   *)
(* name the caller holds, or gives the name to another.                    *)
THEOREM NamesMeanTheSame == Spec => []NamesKeepMeaning
<1>1. IInv => NamesKeepMeaning
  BY DEF IInv
<1>. QED  BY <1>1, Invariant, PTL

-----------------------------------------------------------------------------
(* The codec: what Encode writes, Decode reads back.                       *)

(* Every condition of the query names sources the query has.  It is what   *)
(* the caller's handles give, unless HdbQueryJoinOn lost one.              *)
Named(A) ==
  \A i \in DOMAIN A.conditions :
    LET c == A.conditions[i]
    IN /\ c.type # "GROUP" => c.source \in 0 .. Len(A.sources) - 1
       /\ c.type = "FIELD_COMPARE" => c.right \in 0 .. Len(A.sources) - 1

(* The least element of a set of naturals.                                 *)
LEMMA LeastNatural ==
  ASSUME NEW S, S \subseteq Nat, S # {}
  PROVE  \E x \in S : \A y \in S : x <= y
<1>1. PICK x \in S : \A y \in S : ~(<<y, x>> \in OpToRel(<, Nat))
  BY NatLessThanWellFounded, WFMin
<1>2. \A y \in S : ~(y < x)
  BY <1>1 DEF OpToRel
<1>. QED  BY <1>2

(* What holds of 0 and is passed on up to n holds of all up to n.          *)
LEMMA UpTo ==
  ASSUME NEW n \in Nat, NEW S, 0 \in S,
         \A i \in 0 .. n : i < n /\ i \in S => i + 1 \in S
  PROVE  0 .. n \subseteq S
<1>. DEFINE bad == {i \in 0 .. n : i \notin S}
<1>1. SUFFICES ASSUME bad # {} PROVE FALSE
  OBVIOUS
<1>2. PICK i \in bad : \A k \in bad : i <= k
  <2>1. bad \subseteq Nat
    OBVIOUS
  <2>. HIDE DEF bad
  <2>. QED  BY <1>1, <2>1, LeastNatural
<1>3. i \in 0 .. n /\ i # 0
  BY <1>2
<1>4. i - 1 \in 0 .. n /\ i - 1 < n /\ i - 1 \notin bad
  BY <1>2, <1>3
<1>5. i - 1 + 1 \in S
  BY <1>4
<1>. QED  BY <1>2, <1>3, <1>5

(* Decode's loop: what has been read before line n, and after it.          *)
ReadLine(B, l) ==
  IF B = Refused THEN Refused
  ELSE IF LineDecodes(B, l) THEN DecodeLine(B, l)
  ELSE Refused

ReadAt(read, text, n) == IF n = 0 THEN EmptyAst ELSE ReadLine(read[n - 1], text[n])

Reads(read, text, m) == read = [n \in 0 .. m |-> ReadAt(read, text, n)]

LEMMA ReadsAt ==
  ASSUME NEW read, NEW text, NEW m, Reads(read, text, m), NEW n \in 0 .. m
  PROVE  read[n] = ReadAt(read, text, n)
<1>. DEFINE g == [k \in 0 .. m |-> ReadAt(read, text, k)]
<1>1. read = g
  BY DEF Reads
<1>2. g[n] = ReadAt(read, text, n)
  OBVIOUS
<1>. QED  BY <1>1, <1>2

LEMMA ReadsExist ==
  ASSUME NEW text, NEW N \in Nat
  PROVE  \E read : Reads(read, text, N)
<1>. DEFINE S == {m \in 0 .. N : \E read : Reads(read, text, m)}
<1>1. 0 \in S
  <2>. DEFINE g == [n \in 0 .. 0 |-> EmptyAst]
  <2>1. \A n \in 0 .. 0 : ReadAt(g, text, n) = EmptyAst
    BY DEF ReadAt
  <2>. HIDE DEF g
  <2>2. Reads(g, text, 0)
    BY <2>1 DEF Reads, g
  <2>. QED  BY <2>2
<1>2. ASSUME NEW m \in 0 .. N, m < N, m \in S PROVE m + 1 \in S
  <2>1. PICK f : Reads(f, text, m)
    BY <1>2
  <2>. DEFINE g == [n \in 0 .. m + 1 |-> IF n = m + 1 THEN ReadAt(f, text, m + 1) ELSE f[n]]
  <2>2. ASSUME NEW n \in 0 .. m + 1 PROVE g[n] = ReadAt(g, text, n)
    <3>1. n # 0 => n - 1 \in 0 .. m + 1 /\ n - 1 # m + 1
      OBVIOUS
    <3>2. n # 0 => g[n - 1] = f[n - 1]
      BY <3>1
    <3>3. g[n] = IF n = m + 1 THEN ReadAt(f, text, m + 1) ELSE f[n]
      OBVIOUS
    <3>. HIDE DEF g
    <3>4. ReadAt(g, text, n) = ReadAt(f, text, n)
      BY <3>2 DEF ReadAt
    <3>5. CASE n = m + 1
      BY <3>3, <3>4, <3>5
    <3>6. CASE n # m + 1
      <4>1. n \in 0 .. m
        BY <3>6
      <4>. QED  BY <2>1, <3>3, <3>4, <3>6, <4>1, ReadsAt
    <3>. QED  BY <3>5, <3>6
  <2>3. Reads(g, text, m + 1)
    <3>1. g = [n \in 0 .. m + 1 |-> g[n]]
      OBVIOUS
    <3>. HIDE DEF g
    <3>. QED  BY <2>2, <3>1 DEF Reads
  <2>. QED  BY <1>2, <2>3
<1>3. 0 .. N \subseteq S
  <2>. HIDE DEF S
  <2>. QED  BY <1>1, <1>2, UpTo
<1>. QED  BY <1>3

(* What Decode gives, in terms of the loop.                                *)
Whole(B) ==
  /\ B # Refused /\ HasRootSource(B)
  /\ \A i \in DOMAIN B.sources : B.sources[i].type = "JOIN" => HasCondition(B, B.sources[i].on)

LEMMA DecodeReads ==
  ASSUME NEW text, Len(text) \in Nat
  PROVE  \E read : /\ Reads(read, text, Len(text))
                   /\ Whole(read[Len(text)]) => Decode(text) = read[Len(text)]
<1>. DEFINE P(f) == f = [n \in 0 .. Len(text) |-> ReadAt(f, text, n)]
            h == CHOOSE f : P(f)
<1>1. \E f : P(f)
  <2>1. PICK f : Reads(f, text, Len(text))
    BY ReadsExist
  <2>2. P(f)
    BY <2>1 DEF Reads
  <2>. QED  BY <2>2
<1>2. P(h)
  <2>. HIDE DEF P
  <2>. QED  BY <1>1
<1>3. Decode(text) = IF Whole(h[Len(text)]) THEN h[Len(text)] ELSE Refused
  BY DEF Decode, ReadAt, ReadLine, Whole
<1>. HIDE DEF h
<1>4. Reads(h, text, Len(text))
  BY <1>2 DEF Reads
<1>. QED  BY <1>3, <1>4

-----------------------------------------------------------------------------
(* Parts of a text.                                                        *)

LineNames ==
  {"statement", "source", "time", "select", "set", "where", "order", "condition",
   "where_root", "limit"}

AllLines ==
  [line : LineNames,
   fields : Statements \cup Sources \cup (Times \X Times) \cup Items \cup Conditions \cup Int]

Stands(text, at, part) ==
  /\ at + Len(part) <= Len(text)
  /\ \A j \in 1 .. Len(part) : text[at + j] = part[j]

LEMMA JoinSize ==
  ASSUME NEW T, NEW a \in Seq(T), NEW b \in Seq(T)
  PROVE  a \o b \in Seq(T) /\ Len(a \o b) = Len(a) + Len(b) /\ Len(a) \in Nat /\ Len(b) \in Nat
OBVIOUS

(* Parts that were joined stand one behind the other.                      *)
LEMMA StandsJoined ==
  ASSUME NEW T, NEW u \in Seq(T), NEW at \in Nat, NEW a \in Seq(T), NEW b \in Seq(T),
         Stands(u, at, a \o b)
  PROVE  Stands(u, at, a) /\ Stands(u, at + Len(a), b)
<1>1. Len(a \o b) = Len(a) + Len(b) /\ Len(a) \in Nat /\ Len(b) \in Nat /\ Len(u) \in Nat
  OBVIOUS
<1>2. Stands(u, at, a)
  <2>1. ASSUME NEW j \in 1 .. Len(a) PROVE u[at + j] = a[j]
    <3>1. j \in 1 .. Len(a \o b) /\ (a \o b)[j] = a[j]
      BY <1>1
    <3>. QED  BY <3>1 DEF Stands
  <2>. QED  BY <1>1, <2>1 DEF Stands
<1>3. Stands(u, at + Len(a), b)
  <2>1. ASSUME NEW j \in 1 .. Len(b) PROVE u[at + Len(a) + j] = b[j]
    <3>1. Len(a) + j \in 1 .. Len(a \o b) /\ (a \o b)[Len(a) + j] = b[j]
      BY <1>1
    <3>2. u[at + (Len(a) + j)] = (a \o b)[Len(a) + j]
      BY <3>1 DEF Stands
    <3>. QED  BY <1>1, <3>1, <3>2
  <2>. QED  BY <1>1, <2>1 DEF Stands
<1>. QED  BY <1>2, <1>3

(* A part is read when each of its lines takes the query one step on.      *)
LEMMA PartRead ==
  ASSUME NEW text, Len(text) \in Nat, NEW read, Reads(read, text, Len(text)),
         NEW at \in Nat, NEW part, Len(part) \in Nat, Stands(text, at, part),
         NEW g, read[at] = g[0],
         \A i \in 1 .. Len(part) : /\ g[i - 1] # Refused
                                   /\ LineDecodes(g[i - 1], part[i])
                                   /\ DecodeLine(g[i - 1], part[i]) = g[i]
  PROVE  read[at + Len(part)] = g[Len(part)]
<1>. DEFINE S == {i \in 0 .. Len(part) : read[at + i] = g[i]}
<1>1. 0 \in S
  OBVIOUS
<1>2. ASSUME NEW i \in 0 .. Len(part), i < Len(part), i \in S PROVE i + 1 \in S
  <2>1. i + 1 \in 1 .. Len(part) /\ (i + 1) - 1 = i
    BY <1>2
  <2>2. at + (i + 1) \in 0 .. Len(text) /\ at + (i + 1) # 0 /\ at + (i + 1) - 1 = at + i
    BY <1>2 DEF Stands
  <2>3. text[at + (i + 1)] = part[i + 1]
    BY <2>1 DEF Stands
  <2>4. read[at + (i + 1)] = ReadLine(read[at + i], text[at + (i + 1)])
    BY <2>2, ReadsAt DEF ReadAt
  <2>5. read[at + i] = g[i]
    BY <1>2
  <2>6. g[i] # Refused /\ LineDecodes(g[i], part[i + 1]) /\ DecodeLine(g[i], part[i + 1]) = g[i + 1]
    BY <2>1
  <2>7. read[at + (i + 1)] = g[i + 1]
    BY <2>3, <2>4, <2>5, <2>6 DEF ReadLine
  <2>. QED  BY <2>1, <2>7
<1>3. 0 .. Len(part) \subseteq S
  <2>. HIDE DEF S
  <2>. QED  BY <1>1, <1>2, UpTo
<1>. QED  BY <1>3

LEMMA LineRead ==
  ASSUME NEW text, Len(text) \in Nat, NEW read, Reads(read, text, Len(text)),
         NEW at \in Nat, NEW l, Stands(text, at, <<l>>),
         NEW B, read[at] = B, B # Refused, LineDecodes(B, l)
  PROVE  read[at + 1] = DecodeLine(B, l)
<1>. DEFINE g == [i \in 0 .. 1 |-> IF i = 0 THEN B ELSE DecodeLine(B, l)]
            part == <<l>>
<1>1. g[0] = B /\ g[1] = DecodeLine(B, l) /\ Len(part) = 1 /\ part[1] = l
  OBVIOUS
<1>2. Stands(text, at, part)
  OBVIOUS
<1>. HIDE DEF g, part
<1>3. \A i \in 1 .. Len(part) : i = 1 /\ i - 1 = 0
  BY <1>1
<1>4. \A i \in 1 .. Len(part) : /\ g[i - 1] # Refused
                                /\ LineDecodes(g[i - 1], part[i])
                                /\ DecodeLine(g[i - 1], part[i]) = g[i]
  BY <1>1, <1>3
<1>5. Len(part) \in Nat /\ read[at] = g[0]
  BY <1>1
<1>6. read[at + Len(part)] = g[Len(part)]
  BY <1>2, <1>4, <1>5, PartRead
<1>. QED  BY <1>1, <1>6

(* The prefixes of a list grow by one item at a time.                      *)
Prefix(s, n) == [i \in 1 .. n |-> s[i]]

LEMMA PrefixGrows ==
  ASSUME NEW T, NEW s \in Seq(T)
  PROVE  /\ Prefix(s, 0) = <<>> /\ Prefix(s, Len(s)) = s
         /\ \A i \in 0 .. Len(s) : Prefix(s, i) \in Seq(T) /\ Len(Prefix(s, i)) = i
         /\ \A i \in 1 .. Len(s) : Append(Prefix(s, i - 1), s[i]) = Prefix(s, i)
<1>1. ASSUME NEW i \in 0 .. Len(s)
      PROVE  Prefix(s, i) \in Seq(T) /\ Len(Prefix(s, i)) = i
  <2>1. Prefix(s, i) \in [1 .. i -> T]
    BY ElementOfSeq DEF Prefix
  <2>. QED  BY <2>1
<1>2. Prefix(s, 0) = <<>> /\ Prefix(s, Len(s)) = s
  <2>1. 0 \in 0 .. Len(s) /\ Len(s) \in 0 .. Len(s)
    OBVIOUS
  <2>2. Prefix(s, 0) = <<>>
    BY <1>1, <2>1
  <2>3. \A i \in 1 .. Len(s) : Prefix(s, Len(s))[i] = s[i]
    BY DEF Prefix
  <2>4. Prefix(s, Len(s)) \in Seq(T) /\ Len(Prefix(s, Len(s))) = Len(s)
    BY <1>1, <2>1
  <2>. HIDE DEF Prefix
  <2>. QED  BY <2>2, <2>3, <2>4, SeqEqual
<1>3. ASSUME NEW i \in 1 .. Len(s)
      PROVE  Append(Prefix(s, i - 1), s[i]) = Prefix(s, i)
  <2>. DEFINE a == Prefix(s, i - 1)
              b == Prefix(s, i)
  <2>1. a \in Seq(T) /\ Len(a) = i - 1 /\ s[i] \in T
    BY <1>1
  <2>2. b \in Seq(T) /\ Len(b) = i
    BY <1>1
  <2>3. \A j \in 1 .. i - 1 : a[j] = s[j]
    BY DEF Prefix
  <2>4. \A j \in 1 .. i : b[j] = s[j]
    BY DEF Prefix
  <2>. HIDE DEF a, b
  <2>5. Append(a, s[i]) \in Seq(T) /\ Len(Append(a, s[i])) = i
    BY <2>1
  <2>6. \A j \in 1 .. i : Append(a, s[i])[j] = b[j]
    BY <2>1, <2>3, <2>4
  <2>7. Append(a, s[i]) = b
    BY <2>2, <2>5, <2>6, SeqEqual
  <2>. QED  BY <2>7 DEF a, b
<1>. QED  BY <1>1, <1>2, <1>3

-----------------------------------------------------------------------------
(* The query after a part of its text.                                     *)

Half(statement, sources, time, items, conditions, root, limit) ==
  [statement |-> statement, sources |-> sources, time |-> time, items |-> items,
   conditions |-> conditions, whereRoot |-> root, limit |-> limit]

LEMMA HalfIs ==
  ASSUME NEW st, NEW so, NEW ti, NEW it, NEW co, NEW wr, NEW li
  PROVE  LET B == Half(st, so, ti, it, co, wr, li)
         IN /\ B # Refused
            /\ B.statement = st /\ B.sources = so /\ B.time = ti /\ B.items = it
            /\ B.conditions = co /\ B.whereRoot = wr /\ B.limit = li
<1>. DEFINE B == Half(st, so, ti, it, co, wr, li)
<1>1. "statement" \in DOMAIN B
  BY DEF Half
<1>2. "statement" \notin DOMAIN Refused
  BY DEF Refused
<1>3. B # Refused
  BY <1>1, <1>2
<1>. QED  BY <1>3 DEF Half

LEMMA WholeHalf ==
  ASSUME NEW A \in Asts
  PROVE  A = Half(A.statement, A.sources, A.time, A.items, A.conditions, A.whereRoot, A.limit)
BY DEF Half, Asts

NoItems == [kind \in Kinds |-> <<>>]

(* The first line sets the statement type of the cleared query.            *)
LEMMA StatementRead ==
  ASSUME NEW st
  PROVE  LET l == Line("statement", st)
         IN /\ EmptyAst # Refused /\ LineDecodes(EmptyAst, l)
            /\ DecodeLine(EmptyAst, l) = Half(st, <<>>, <<>>, NoItems, <<>>, -1, 0)
<1>. DEFINE l == Line("statement", st)
<1>1. l.line = "statement" /\ l.fields = st
  BY DEF Line
<1>2. EmptyAst = Half("SELECT", <<>>, <<>>, NoItems, <<>>, -1, 0)
  BY DEF EmptyAst, Half, NoItems
<1>3. EmptyAst # Refused
  BY <1>2, HalfIs
<1>. HIDE DEF l
<1>4. LineDecodes(EmptyAst, l)
  BY <1>1, AstAssumption DEF LineDecodes
<1>5. DecodeLine(EmptyAst, l) = [EmptyAst EXCEPT !.statement = st]
  BY <1>1 DEF DecodeLine
<1>6. [EmptyAst EXCEPT !.statement = st] = Half(st, <<>>, <<>>, NoItems, <<>>, -1, 0)
  BY <1>2 DEF Half
<1>. QED  BY <1>3, <1>4, <1>5, <1>6 DEF l

(* A source line adds the next source of the query with its ON root.       *)
LEMMA SourceLineRead ==
  ASSUME NEW A, GoodAst(A), Encodes(A), NEW i \in 1 .. Len(A.sources)
  PROVE  LET B == Half(A.statement, Prefix(A.sources, i - 1), <<>>, NoItems, <<>>, -1, 0)
             l == Line("source", A.sources[i])
         IN /\ LineDecodes(B, l)
            /\ DecodeLine(B, l) = Half(A.statement, Prefix(A.sources, i), <<>>, NoItems, <<>>, -1, 0)
<1>. DEFINE s == A.sources[i]
            before == Prefix(A.sources, i - 1)
            B == Half(A.statement, before, <<>>, NoItems, <<>>, -1, 0)
            l == Line("source", s)
<1>1. /\ A \in Asts /\ A.sources \in Seq(Sources) /\ Len(A.sources) \in Nat
      /\ DOMAIN A.sources = 1 .. Len(A.sources) /\ s \in Sources
  BY AstFields, ElementOfSeq DEF GoodAst
<1>2. /\ s.id = i - 1 /\ (s.type = "ROOT" <=> i = 1) /\ (i > 1 => s.parent \in 0 .. i - 2)
  BY <1>1 DEF GoodAst, WellFormed, SourceInv
<1>3. SourceEncodes(A, s) /\ Len(A.sources) <= MaxSources /\ MaxSources \in Nat
  BY <1>1, AstAssumption DEF Encodes, CountsFit
<1>4. /\ before \in Seq(Sources) /\ Len(before) = i - 1 /\ (i = 1 => before = <<>>)
      /\ Append(before, s) = Prefix(A.sources, i)
      /\ \A j \in 1 .. i - 1 : before[j] = A.sources[j]
  <2>1. i - 1 \in 0 .. Len(A.sources)
    BY <1>1
  <2>2. before \in Seq(Sources) /\ Len(before) = i - 1 /\ Append(before, s) = Prefix(A.sources, i)
    BY <1>1, <2>1, PrefixGrows
  <2>3. \A j \in 1 .. i - 1 : before[j] = A.sources[j]
    BY DEF Prefix
  <2>4. i = 1 => before = <<>>
    BY <1>1, PrefixGrows
  <2>. QED  BY <2>2, <2>3, <2>4
<1>5. B.sources = before /\ B = Half(A.statement, before, <<>>, NoItems, <<>>, -1, 0)
  BY HalfIs
<1>6. l.line = "source" /\ l.fields = s
  BY DEF Line
<1>7. \A x : [B EXCEPT !.sources = x] = Half(A.statement, x, <<>>, NoItems, <<>>, -1, 0)
  BY DEF Half
<1>. HIDE DEF before, B, l
<1>8. SourceDecodes(B, s) /\ DecodeSource(B, s) = [B EXCEPT !.sources = Append(before, s)]
  <2>1. CASE i = 1
    <3>1. s.type = "ROOT" /\ s.id = 0 /\ s.parent = -1 /\ s.on = -1
      BY <1>2, <1>3, <2>1 DEF SourceEncodes
    <3>2. s = [id |-> 0, type |-> "ROOT", parent |-> -1, dataset |-> s.dataset, on |-> -1]
      BY <1>1, <3>1 DEF Sources
    <3>3. SourceDecodes(B, s)
      BY <1>4, <1>5, <2>1, <3>1 DEF SourceDecodes, MayAddRoot
    <3>4. DecodeSource(B, s) = AddRootSource(B, s.dataset)
      BY <3>1 DEF DecodeSource
    <3>5. AddRootSource(B, s.dataset) = [B EXCEPT !.sources = Append(before, s)]
      BY <1>5, <3>2 DEF AddRootSource
    <3>. QED  BY <3>3, <3>4, <3>5
  <2>2. CASE i # 1
    <3>1. s.type # "ROOT" /\ s.type = "JOIN" /\ s.parent \in 0 .. i - 2
      BY <1>1, <1>2, <2>2 DEF Sources
    <3>2. HasSource(B, s.parent)
      <4>1. s.parent + 1 \in 1 .. i - 1
        BY <3>1
      <4>2. s.parent + 1 \in DOMAIN before
        BY <1>4, <4>1
      <4>3. A.sources[s.parent + 1].id = s.parent
        <5>1. \A j \in DOMAIN A.sources : A.sources[j].id = j - 1
          BY DEF GoodAst, WellFormed, SourceInv
        <5>2. s.parent + 1 \in DOMAIN A.sources /\ (s.parent + 1) - 1 = s.parent
          BY <1>1, <3>1, <4>1
        <5>. QED  BY <5>1, <5>2
      <4>. QED  BY <1>4, <1>5, <4>1, <4>2, <4>3 DEF HasSource
    <3>3. SourceDecodes(B, s)
      BY <1>1, <1>2, <1>3, <1>4, <1>5, <3>1, <3>2 DEF SourceDecodes, MayAddJoin
    <3>. DEFINE r == [id |-> Len(before), type |-> "JOIN", parent |-> s.parent,
                      dataset |-> s.dataset, on |-> -1]
                S == Append(before, r)
    <3>4. AddJoinSource(B, s.parent, s.dataset) = [B EXCEPT !.sources = S]
      BY <1>5 DEF AddJoinSource
    <3>5. [B EXCEPT !.sources = S].sources = S
      BY <1>7, HalfIs
    <3>6. r \in Sources
      BY <1>4, <3>1, <1>1 DEF Sources
    <3>7. [r EXCEPT !.on = s.on] = s
      <4>1. Len(before) = s.id
        BY <1>2, <1>4
      <4>2. s = [id |-> s.id, type |-> "JOIN", parent |-> s.parent, dataset |-> s.dataset, on |-> s.on]
        BY <1>1, <3>1 DEF Sources
      <4>. HIDE DEF s
      <4>3. [r EXCEPT !.on = s.on] = [id |-> s.id, type |-> "JOIN", parent |-> s.parent,
                                      dataset |-> s.dataset, on |-> s.on]
        BY <4>1
      <4>. QED  BY <4>2, <4>3
    <3>8. /\ S \in Seq(Sources) /\ Len(S) = i /\ S[i] = r
          /\ \A j \in 1 .. i - 1 : S[j] = before[j]
      BY <1>1, <1>4, <3>6
    <3>. HIDE DEF r, S
    <3>9. [S EXCEPT ![i].on = s.on] = Append(before, s)
      <4>. DEFINE T == [S EXCEPT ![i] = s]
      <4>1. [S EXCEPT ![i].on = s.on] = T
        BY <3>7, <3>8
      <4>2. T \in Seq(Sources) /\ Len(T) = i /\ T[i] = s /\ \A j \in 1 .. i - 1 : T[j] = before[j]
        BY <1>1, <3>8
      <4>3. /\ Append(before, s) \in Seq(Sources) /\ Len(Append(before, s)) = i
            /\ Append(before, s)[i] = s /\ \A j \in 1 .. i - 1 : Append(before, s)[j] = before[j]
        <5>1. s \in Sources /\ before \in Seq(Sources) /\ Len(before) = i - 1 /\ i \in Nat
          BY <1>1, <1>4
        <5>. HIDE DEF s
        <5>. QED  BY <5>1, AppendProperties
      <4>. HIDE DEF T
      <4>4. \A j \in 1 .. i : j \in 1 .. i - 1 \/ j = i
        OBVIOUS
      <4>5. T = Append(before, s)
        BY <4>2, <4>3, <4>4, SeqEqual
      <4>. QED  BY <4>1, <4>5
    <3>10. DecodeSource(B, s) = [[B EXCEPT !.sources = S] EXCEPT !.sources[s.id + 1].on = s.on]
      BY <3>1, <3>4 DEF DecodeSource
    <3>11. s.id + 1 = i
      BY <1>2
    <3>. DEFINE C == [B EXCEPT !.sources = S]
    <3>12. [C EXCEPT !.sources[i].on = s.on] = [C EXCEPT !.sources = [C.sources EXCEPT ![i].on = s.on]]
      OBVIOUS
    <3>13. [C EXCEPT !.sources = Append(before, s)] = [B EXCEPT !.sources = Append(before, s)]
      BY DEF B, Half
    <3>. QED  BY <3>3, <3>5, <3>9, <3>10, <3>11, <3>12, <3>13
  <2>. QED  BY <2>1, <2>2
<1>9. LineDecodes(B, l) /\ DecodeLine(B, l) = DecodeSource(B, s)
  BY <1>6, <1>8, AstAssumption DEF LineDecodes, DecodeLine
<1>10. DecodeLine(B, l) = Half(A.statement, Prefix(A.sources, i), <<>>, NoItems, <<>>, -1, 0)
  BY <1>4, <1>7, <1>8, <1>9
<1>. QED  BY <1>9, <1>10 DEF B, l, before

(* The time range follows the sources.                                     *)
LEMMA TimeRead ==
  ASSUME NEW A, GoodAst(A), Encodes(A), A.time # <<>>
  PROVE  LET B == Half(A.statement, A.sources, <<>>, NoItems, <<>>, -1, 0)
             l == Line("time", A.time)
         IN /\ LineDecodes(B, l)
            /\ DecodeLine(B, l) = Half(A.statement, A.sources, A.time, NoItems, <<>>, -1, 0)
<1>. DEFINE B == Half(A.statement, A.sources, <<>>, NoItems, <<>>, -1, 0)
            l == Line("time", A.time)
<1>1. l.line = "time" /\ l.fields = A.time
  BY DEF Line
<1>2. A.time[1] < A.time[2]
  BY DEF Encodes
<1>3. [B EXCEPT !.time = A.time] = Half(A.statement, A.sources, A.time, NoItems, <<>>, -1, 0)
  BY DEF Half
<1>. HIDE DEF B, l
<1>4. LineDecodes(B, l)
  BY <1>1, <1>2, AstAssumption DEF LineDecodes
<1>5. DecodeLine(B, l) = [B EXCEPT !.time = A.time]
  BY <1>1, AstAssumption DEF DecodeLine
<1>. QED  BY <1>3, <1>4, <1>5 DEF B, l

(* The lists of the kinds that were read.                                  *)
ItemsOf(A, kinds) == [kind \in Kinds |-> IF kind \in kinds THEN A.items[kind] ELSE <<>>]

(* An item line adds the next item to its list.                            *)
LEMMA ItemLineRead ==
  ASSUME NEW A, GoodAst(A), Encodes(A), NEW kind \in Kinds, NEW i \in 1 .. Len(A.items[kind]),
         NEW items, DOMAIN items = Kinds
  PROVE  LET B == Half(A.statement, A.sources, A.time,
                       [items EXCEPT ![kind] = Prefix(A.items[kind], i - 1)], <<>>, -1, 0)
             l == Line(kind, A.items[kind][i])
         IN /\ LineDecodes(B, l)
            /\ DecodeLine(B, l) = Half(A.statement, A.sources, A.time,
                                       [items EXCEPT ![kind] = Prefix(A.items[kind], i)], <<>>, -1, 0)
<1>. DEFINE x == A.items[kind][i]
            list == A.items[kind]
            before == [items EXCEPT ![kind] = Prefix(list, i - 1)]
            B == Half(A.statement, A.sources, A.time, before, <<>>, -1, 0)
            l == Line(kind, x)
<1>1. /\ list \in Seq(Items) /\ Len(list) \in Nat /\ DOMAIN list = 1 .. Len(list) /\ x \in Items
      /\ i \in 1 .. Len(list)
  <2>1. A.items \in [Kinds -> Seq(Items)]
    BY AstFields DEF GoodAst
  <2>2. list \in Seq(Items)
    BY <2>1
  <2>. HIDE DEF list
  <2>3. list[i] \in Items
    BY <2>2, ElementOfSeq DEF list
  <2>. QED  BY <2>2, <2>3 DEF list
<1>2. x.text = "plain" /\ HasSource(A, x.source)
  BY <1>1 DEF Encodes
<1>3. Len(list) <= MaxItems[kind] /\ MaxItems[kind] \in Nat
  BY AstAssumption DEF Encodes, CountsFit
<1>4. kind \in {"select", "set", "where", "order"}
  BY AstAssumption
<1>5. Len(Prefix(list, i - 1)) = i - 1 /\ Append(Prefix(list, i - 1), x) = Prefix(list, i)
  <2>1. i - 1 \in 0 .. Len(list)
    BY <1>1
  <2>. QED  BY <1>1, <2>1, PrefixGrows
<1>6. B.items = before /\ B.sources = A.sources /\ before[kind] = Prefix(list, i - 1)
  BY HalfIs
<1>7. HasSource(B, x.source)
  <2>. HIDE DEF B
  <2>. QED  BY <1>2, <1>6 DEF HasSource
<1>8. l.line = kind /\ l.fields = x
  BY DEF Line
<1>9. Item(x.source, x.text) = x
  BY <1>1 DEF Item, Items
<1>10. \A y : [B EXCEPT !.items = y] = Half(A.statement, A.sources, A.time, y, <<>>, -1, 0)
  BY DEF Half
<1>11. [before EXCEPT ![kind] = Prefix(list, i)] = [items EXCEPT ![kind] = Prefix(list, i)]
  OBVIOUS
<1>. HIDE DEF B, l, before, x, list
<1>12. LineDecodes(B, l)
  BY <1>1, <1>2, <1>3, <1>4, <1>5, <1>6, <1>7, <1>8 DEF LineDecodes
<1>13. DecodeLine(B, l) = AddItem(B, kind, x.source, x.text)
  BY <1>4, <1>8 DEF DecodeLine
<1>14. AddItem(B, kind, x.source, x.text) = [B EXCEPT !.items[kind] = Append(@, x)]
  BY <1>9 DEF AddItem
<1>15. [B EXCEPT !.items[kind] = Append(@, x)] = [B EXCEPT !.items = [before EXCEPT ![kind] = Append(before[kind], x)]]
  BY <1>6
<1>16. [before EXCEPT ![kind] = Append(before[kind], x)] = [items EXCEPT ![kind] = Prefix(list, i)]
  BY <1>5, <1>6, <1>11
<1>. QED  BY <1>10, <1>12, <1>13, <1>14, <1>15, <1>16 DEF B, l, before, x, list

(* A condition line adds the next condition: children and sources are      *)
(* there already.                                                          *)
LEMMA ConditionLineRead ==
  ASSUME NEW A, GoodAst(A), Encodes(A), Named(A), NEW i \in 1 .. Len(A.conditions)
  PROVE  LET B == Half(A.statement, A.sources, A.time, A.items, Prefix(A.conditions, i - 1), -1, 0)
             l == Line("condition", A.conditions[i])
         IN /\ LineDecodes(B, l)
            /\ DecodeLine(B, l) =
                 Half(A.statement, A.sources, A.time, A.items, Prefix(A.conditions, i), -1, 0)
<1>. DEFINE c == A.conditions[i]
            before == Prefix(A.conditions, i - 1)
            B == Half(A.statement, A.sources, A.time, A.items, before, -1, 0)
            l == Line("condition", c)
<1>1. /\ A \in Asts /\ A.conditions \in Seq(Conditions) /\ Len(A.conditions) \in Nat
      /\ DOMAIN A.conditions = 1 .. Len(A.conditions) /\ c \in Conditions
  BY AstFields, ElementOfSeq DEF GoodAst
<1>2. c.id = i - 1 /\ (c.type = "GROUP" => \A j \in DOMAIN c.children : c.children[j] \in 0 .. i - 2)
  BY <1>1 DEF GoodAst, WellFormed, ConditionInv
<1>3. ConditionEncodes(A, c) /\ Len(A.conditions) <= MaxConditions /\ MaxConditions \in Nat
  BY <1>1, AstAssumption DEF Encodes, CountsFit
<1>4. /\ before \in Seq(Conditions) /\ Len(before) = i - 1
      /\ Append(before, c) = Prefix(A.conditions, i)
      /\ \A j \in 1 .. i - 1 : before[j] = A.conditions[j]
  <2>1. i - 1 \in 0 .. Len(A.conditions)
    BY <1>1
  <2>2. before \in Seq(Conditions) /\ Len(before) = i - 1 /\ Append(before, c) = Prefix(A.conditions, i)
    BY <1>1, <2>1, PrefixGrows
  <2>3. \A j \in 1 .. i - 1 : before[j] = A.conditions[j]
    BY DEF Prefix
  <2>. QED  BY <2>2, <2>3
<1>5. B.sources = A.sources /\ B.conditions = before
  BY HalfIs
<1>6. l.line = "condition" /\ l.fields = c
  BY DEF Line
<1>7. \A x : [B EXCEPT !.conditions = x] =
               Half(A.statement, A.sources, A.time, A.items, x, -1, 0)
  BY DEF Half
<1>. HIDE DEF before, B, l
<1>8. \A n \in 0 .. Len(A.sources) - 1 : HasSource(B, n)
  <2>1. \A n \in 0 .. Len(A.sources) - 1 : HasSource(A, n)
    BY <1>1, SourceIds DEF GoodAst, WellFormed
  <2>. QED  BY <1>5, <2>1 DEF HasSource
<1>9. \A n \in 0 .. i - 2 : HasCondition(B, n)
  <2>. SUFFICES ASSUME NEW n \in 0 .. i - 2
                PROVE  HasCondition(B, n)
    OBVIOUS
  <2>1. n + 1 \in 1 .. i - 1 /\ n + 1 \in DOMAIN A.conditions /\ (n + 1) - 1 = n
    BY <1>1
  <2>2. n + 1 \in DOMAIN before
    BY <1>4, <2>1
  <2>3. A.conditions[n + 1].id = n
    BY <2>1 DEF GoodAst, WellFormed, ConditionInv
  <2>. QED  BY <1>4, <1>5, <2>1, <2>2, <2>3 DEF HasCondition
<1>10. ConditionDecodes(B, c)
  <2>1. Len(B.conditions) < MaxConditions /\ c.id = Len(B.conditions)
    BY <1>1, <1>2, <1>3, <1>4, <1>5
  <2>2. CASE c.type = "GROUP"
    <3>1. Len(c.children) >= 2
      BY <1>3, <2>2 DEF ConditionEncodes
    <3>2. MayGroup(B, c.children)
      BY <1>2, <1>9, <2>2, <3>1 DEF MayGroup
    <3>. QED  BY <2>1, <2>2, <3>2 DEF ConditionDecodes
  <2>3. CASE c.type # "GROUP"
    <3>1. c.text = "plain"
      BY <1>3, <2>3 DEF ConditionEncodes
    <3>2. /\ c.source \in 0 .. Len(A.sources) - 1
          /\ c.type = "FIELD_COMPARE" => c.right \in 0 .. Len(A.sources) - 1
      BY <1>1, <2>3 DEF Named
    <3>. QED  BY <1>8, <2>1, <2>3, <3>1, <3>2 DEF ConditionDecodes
  <2>. QED  BY <2>2, <2>3
<1>11. LineDecodes(B, l) /\ DecodeLine(B, l) = AddCondition(B, c)
  BY <1>6, <1>10, AstAssumption DEF LineDecodes, DecodeLine
<1>12. AddCondition(B, c) = [B EXCEPT !.conditions = Append(before, c)]
  BY <1>5 DEF AddCondition
<1>. QED  BY <1>4, <1>7, <1>11, <1>12 DEF B, l, before

(* The root of the WHERE and the limit end the text.                       *)
LEMMA RootRead ==
  ASSUME NEW A, GoodAst(A), Encodes(A), A.whereRoot >= 0
  PROVE  LET B == Half(A.statement, A.sources, A.time, A.items, A.conditions, -1, 0)
             l == Line("where_root", A.whereRoot)
         IN /\ LineDecodes(B, l)
            /\ DecodeLine(B, l) =
                 Half(A.statement, A.sources, A.time, A.items, A.conditions, A.whereRoot, 0)
<1>. DEFINE B == Half(A.statement, A.sources, A.time, A.items, A.conditions, -1, 0)
            l == Line("where_root", A.whereRoot)
<1>1. l.line = "where_root" /\ l.fields = A.whereRoot
  BY DEF Line
<1>2. B.conditions = A.conditions
  BY HalfIs
<1>3. [B EXCEPT !.whereRoot = A.whereRoot] =
        Half(A.statement, A.sources, A.time, A.items, A.conditions, A.whereRoot, 0)
  BY DEF Half
<1>. HIDE DEF B, l
<1>4. HasCondition(B, A.whereRoot)
  BY <1>2 DEF Encodes, HasCondition
<1>5. LineDecodes(B, l) /\ DecodeLine(B, l) = [B EXCEPT !.whereRoot = A.whereRoot]
  BY <1>1, <1>4, AstAssumption DEF LineDecodes, DecodeLine
<1>. QED  BY <1>3, <1>5 DEF B, l

LEMMA LimitRead ==
  ASSUME NEW A, GoodAst(A), Encodes(A)
  PROVE  LET B == Half(A.statement, A.sources, A.time, A.items, A.conditions, A.whereRoot, 0)
             l == Line("limit", A.limit)
         IN LineDecodes(B, l) /\ DecodeLine(B, l) = A
<1>. DEFINE B == Half(A.statement, A.sources, A.time, A.items, A.conditions, A.whereRoot, 0)
            l == Line("limit", A.limit)
<1>1. l.line = "limit" /\ l.fields = A.limit /\ A.limit <= MaxLimit
  BY DEF Line, Encodes
<1>2. [B EXCEPT !.limit = A.limit] =
        Half(A.statement, A.sources, A.time, A.items, A.conditions, A.whereRoot, A.limit)
  BY DEF Half
<1>. HIDE DEF B, l
<1>3. LineDecodes(B, l) /\ DecodeLine(B, l) = [B EXCEPT !.limit = A.limit]
  BY <1>1, AstAssumption DEF LineDecodes, DecodeLine
<1>4. [B EXCEPT !.limit = A.limit] = A
  BY <1>2, WholeHalf DEF GoodAst
<1>. QED  BY <1>3, <1>4 DEF B, l

-----------------------------------------------------------------------------
(* The text as a whole.                                                    *)

(* The lines of an item list, however many there are.                      *)
LEMMA ListLines ==
  ASSUME NEW S, NEW list \in Seq(S), NEW name
  PROVE  /\ Len(Lines(name, list)) = Len(list) /\ Len(list) \in Nat
         /\ \A i \in 1 .. Len(list) : Lines(name, list)[i] = Line(name, list[i])
<1>1. DOMAIN list = 1 .. Len(list) /\ Len(list) \in Nat
  OBVIOUS
<1>2. Lines(name, list) \in [1 .. Len(list) -> {Line(name, list[i]) : i \in 1 .. Len(list)}]
  BY <1>1 DEF Lines
<1>3. Lines(name, list) \in Seq({Line(name, list[i]) : i \in 1 .. Len(list)})
      /\ Len(Lines(name, list)) = Len(list)
  BY <1>1, <1>2
<1>. QED  BY <1>1, <1>3 DEF Lines

LEMMA SomeLines ==
  ASSUME NEW S, NEW list \in Seq(S), NEW name \in LineNames,
         S \in {Sources, Items, Conditions}
  PROVE  Lines(name, list) \in Seq(AllLines)
<1>. DEFINE m == Len(list)
            part == Lines(name, list)
<1>1. DOMAIN list = 1 .. m /\ m \in Nat /\ \A i \in 1 .. m : list[i] \in S
  BY ElementOfSeq
<1>2. \A i \in 1 .. m : Line(name, list[i]) \in AllLines
  BY <1>1 DEF Line, AllLines
<1>3. part \in [1 .. m -> AllLines]
  BY <1>1, <1>2 DEF Lines
<1>. HIDE DEF m, part
<1>4. part \in Seq(AllLines)
  BY <1>1, <1>3
<1>. QED  BY <1>4 DEF part

LEMMA OneLine ==
  ASSUME NEW name \in LineNames, NEW x \in Statements \cup (Times \X Times) \cup Int
  PROVE  <<Line(name, x)>> \in Seq(AllLines) /\ Len(<<Line(name, x)>>) = 1
<1>. DEFINE l == Line(name, x)
<1>1. l \in AllLines
  BY DEF Line, AllLines
<1>. HIDE DEF l
<1>2. <<l>> \in Seq(AllLines) /\ Len(<<l>>) = 1
  BY <1>1
<1>. QED  BY <1>2 DEF l

LEMMA NoLine == <<>> \in Seq(AllLines) /\ Len(<<>>) = 0
OBVIOUS

LEMMA SourcesRead ==
  ASSUME NEW A, GoodAst(A), Encodes(A),
         NEW text, Len(text) \in Nat, NEW read, Reads(read, text, Len(text)), NEW at \in Nat,
         Stands(text, at, Lines("source", A.sources)),
         read[at] = Half(A.statement, <<>>, <<>>, NoItems, <<>>, -1, 0)
  PROVE  read[at + Len(Lines("source", A.sources))] =
           Half(A.statement, A.sources, <<>>, NoItems, <<>>, -1, 0)
<1>. DEFINE part == Lines("source", A.sources)
            m == Len(A.sources)
            state(i) == Half(A.statement, Prefix(A.sources, i), <<>>, NoItems, <<>>, -1, 0)
            g == [i \in 0 .. m |-> state(i)]
<1>1. A.sources \in Seq(Sources) /\ m \in Nat
  BY AstFields DEF GoodAst
<1>2. Len(part) = m /\ \A i \in 1 .. m : part[i] = Line("source", A.sources[i])
  BY <1>1, ListLines
<1>3. Prefix(A.sources, 0) = <<>> /\ Prefix(A.sources, m) = A.sources
  BY <1>1, PrefixGrows
<1>4. \A i \in 0 .. m : g[i] = state(i)
  OBVIOUS
<1>5. ASSUME NEW i \in 1 .. m
      PROVE  g[i - 1] # Refused /\ LineDecodes(g[i - 1], part[i]) /\ DecodeLine(g[i - 1], part[i]) = g[i]
  <2>1. LineDecodes(state(i - 1), part[i]) /\ DecodeLine(state(i - 1), part[i]) = state(i)
    BY <1>2, SourceLineRead
  <2>2. state(i - 1) # Refused
    BY HalfIs
  <2>3. g[i - 1] = state(i - 1) /\ g[i] = state(i)
    BY <1>1
  <2>. HIDE DEF g, state, part
  <2>. QED  BY <2>1, <2>2, <2>3
<1>6. read[at] = g[0]
  BY <1>1, <1>3
<1>. HIDE DEF g, part
<1>7. Len(part) \in Nat /\ Stands(text, at, part)
  BY <1>1, <1>2 DEF part
<1>8. \A i \in 1 .. Len(part) : /\ g[i - 1] # Refused /\ LineDecodes(g[i - 1], part[i])
                                /\ DecodeLine(g[i - 1], part[i]) = g[i]
  BY <1>2, <1>5
<1>9. read[at + Len(part)] = g[Len(part)]
  BY <1>6, <1>7, <1>8, PartRead
<1>10. g[Len(part)] = Half(A.statement, A.sources, <<>>, NoItems, <<>>, -1, 0)
  BY <1>1, <1>2, <1>3, <1>4
<1>. QED  BY <1>9, <1>10 DEF part

LEMMA ConditionsRead ==
  ASSUME NEW A, GoodAst(A), Encodes(A), Named(A),
         NEW text, Len(text) \in Nat, NEW read, Reads(read, text, Len(text)), NEW at \in Nat,
         Stands(text, at, Lines("condition", A.conditions)),
         read[at] = Half(A.statement, A.sources, A.time, A.items, <<>>, -1, 0)
  PROVE  read[at + Len(Lines("condition", A.conditions))] =
           Half(A.statement, A.sources, A.time, A.items, A.conditions, -1, 0)
<1>. DEFINE part == Lines("condition", A.conditions)
            m == Len(A.conditions)
            state(i) == Half(A.statement, A.sources, A.time, A.items, Prefix(A.conditions, i), -1, 0)
            g == [i \in 0 .. m |-> state(i)]
<1>1. A.conditions \in Seq(Conditions) /\ m \in Nat
  BY AstFields DEF GoodAst
<1>2. Len(part) = m /\ \A i \in 1 .. m : part[i] = Line("condition", A.conditions[i])
  BY <1>1, ListLines
<1>3. Prefix(A.conditions, 0) = <<>> /\ Prefix(A.conditions, m) = A.conditions
  BY <1>1, PrefixGrows
<1>4. \A i \in 0 .. m : g[i] = state(i)
  OBVIOUS
<1>5. ASSUME NEW i \in 1 .. m
      PROVE  g[i - 1] # Refused /\ LineDecodes(g[i - 1], part[i]) /\ DecodeLine(g[i - 1], part[i]) = g[i]
  <2>1. LineDecodes(state(i - 1), part[i]) /\ DecodeLine(state(i - 1), part[i]) = state(i)
    BY <1>2, ConditionLineRead
  <2>2. state(i - 1) # Refused
    BY HalfIs
  <2>3. g[i - 1] = state(i - 1) /\ g[i] = state(i)
    BY <1>1
  <2>. HIDE DEF g, state, part
  <2>. QED  BY <2>1, <2>2, <2>3
<1>6. read[at] = g[0]
  BY <1>1, <1>3
<1>. HIDE DEF g, part
<1>7. Len(part) \in Nat /\ Stands(text, at, part)
  BY <1>1, <1>2 DEF part
<1>8. \A i \in 1 .. Len(part) : /\ g[i - 1] # Refused /\ LineDecodes(g[i - 1], part[i])
                                /\ DecodeLine(g[i - 1], part[i]) = g[i]
  BY <1>2, <1>5
<1>9. read[at + Len(part)] = g[Len(part)]
  BY <1>6, <1>7, <1>8, PartRead
<1>10. g[Len(part)] = Half(A.statement, A.sources, A.time, A.items, A.conditions, -1, 0)
  BY <1>1, <1>2, <1>3, <1>4
<1>. QED  BY <1>9, <1>10 DEF part

(* One of the four item lists; a list that is not modelled has no line.    *)
LEMMA KindRead ==
  ASSUME NEW A, GoodAst(A), Encodes(A), NEW kind, NEW kinds, kind \notin kinds,
         NEW more, more = kinds \cup {kind},
         NEW text, Len(text) \in Nat, NEW read, Reads(read, text, Len(text)), NEW at \in Nat,
         Stands(text, at, ItemLines(A, kind)),
         read[at] = Half(A.statement, A.sources, A.time, ItemsOf(A, kinds), <<>>, -1, 0)
  PROVE  read[at + Len(ItemLines(A, kind))] =
           Half(A.statement, A.sources, A.time, ItemsOf(A, more), <<>>, -1, 0)
<1>1. CASE kind \notin Kinds
  <2>1. ItemLines(A, kind) = <<>> /\ Len(<<>>) = 0
    BY <1>1 DEF ItemLines
  <2>2. ItemsOf(A, more) = ItemsOf(A, kinds)
    BY <1>1 DEF ItemsOf
  <2>3. at + Len(ItemLines(A, kind)) = at
    BY <2>1
  <2>. QED  BY <2>2, <2>3
<1>2. CASE kind \in Kinds
  <2>. DEFINE list == A.items[kind]
              part == Lines(kind, list)
              m == Len(list)
              items == ItemsOf(A, kinds)
              itemsTo(i) == [items EXCEPT ![kind] = Prefix(list, i)]
              state(i) == Half(A.statement, A.sources, A.time, itemsTo(i), <<>>, -1, 0)
              g == [i \in 0 .. m |-> state(i)]
  <2>1. ItemLines(A, kind) = part
    BY <1>2 DEF ItemLines
  <2>2. list \in Seq(Items) /\ m \in Nat
    <3>1. A.items \in [Kinds -> Seq(Items)]
      BY AstFields DEF GoodAst
    <3>. QED  BY <1>2, <3>1
  <2>3. Len(part) = m /\ \A i \in 1 .. m : part[i] = Line(kind, list[i])
    BY <2>2, ListLines
  <2>4. Prefix(list, 0) = <<>> /\ Prefix(list, m) = list
    BY <2>2, PrefixGrows
  <2>5. DOMAIN items = Kinds
    BY DEF ItemsOf
  <2>6. itemsTo(0) = items
    <3>1. items[kind] = <<>>
      BY <1>2 DEF ItemsOf
    <3>. HIDE DEF items, list
    <3>2. itemsTo(0) = [items EXCEPT ![kind] = items[kind]]
      BY <2>4, <3>1
    <3>3. items = [k \in Kinds |-> items[k]]
      BY DEF items, ItemsOf
    <3>. QED  BY <3>2, <3>3
  <2>7. itemsTo(m) = ItemsOf(A, more)
    <3>1. itemsTo(m) = [items EXCEPT ![kind] = list]
      BY <2>4
    <3>. QED  BY <3>1 DEF ItemsOf
  <2>8. \A i \in 0 .. m : g[i] = state(i)
    OBVIOUS
  <2>9. ASSUME NEW i \in 1 .. m
        PROVE  /\ g[i - 1] # Refused /\ LineDecodes(g[i - 1], part[i])
               /\ DecodeLine(g[i - 1], part[i]) = g[i]
    <3>1. LineDecodes(state(i - 1), part[i]) /\ DecodeLine(state(i - 1), part[i]) = state(i)
      <4>1. part[i] = Line(kind, list[i]) /\ i \in 1 .. Len(A.items[kind])
        BY <2>3
      <4>. HIDE DEF items, part
      <4>2. LineDecodes(state(i - 1), Line(kind, list[i])) /\ DecodeLine(state(i - 1), Line(kind, list[i])) = state(i)
        BY <1>2, <2>5, <4>1, ItemLineRead
      <4>. QED  BY <4>1, <4>2
    <3>2. state(i - 1) # Refused
      BY HalfIs
    <3>3. g[i - 1] = state(i - 1) /\ g[i] = state(i)
      BY <2>2
    <3>. HIDE DEF g, state, part
    <3>. QED  BY <3>1, <3>2, <3>3
  <2>10. read[at] = g[0]
    <3>1. g[0] = state(0) /\ state(0) = Half(A.statement, A.sources, A.time, items, <<>>, -1, 0)
      BY <2>2, <2>6
    <3>. QED  BY <3>1
  <2>. HIDE DEF g, part, itemsTo
  <2>11. Len(part) \in Nat /\ Stands(text, at, part)
    BY <2>1, <2>2, <2>3
  <2>12. \A i \in 1 .. Len(part) : /\ g[i - 1] # Refused /\ LineDecodes(g[i - 1], part[i])
                                   /\ DecodeLine(g[i - 1], part[i]) = g[i]
    BY <2>3, <2>9
  <2>13. read[at + Len(part)] = g[Len(part)]
    BY <2>10, <2>11, <2>12, PartRead
  <2>14. g[Len(part)] = Half(A.statement, A.sources, A.time, ItemsOf(A, more), <<>>, -1, 0)
    BY <2>2, <2>3, <2>7, <2>8
  <2>. QED  BY <2>1, <2>13, <2>14
<1>. QED  BY <1>1, <1>2

(* A text whose lines were written by Encode is read back to its end.      *)
LEMMA EncodedRead ==
  ASSUME NEW A, GoodAst(A), Encodes(A), Named(A)
  PROVE  /\ Len(Encode(A)) \in Nat
         /\ \A read : Reads(read, Encode(A), Len(Encode(A))) => read[Len(Encode(A))] = A
<1>. DEFINE text == Encode(A)
            a1 == <<Line("statement", A.statement)>>
            a2 == Lines("source", A.sources)
            a3 == IF A.time = <<>> THEN <<>> ELSE <<Line("time", A.time)>>
            a4 == ItemLines(A, "select")
            a5 == ItemLines(A, "set")
            a6 == ItemLines(A, "where")
            a7 == ItemLines(A, "order")
            a8 == Lines("condition", A.conditions)
            a9 == IF A.whereRoot >= 0 THEN <<Line("where_root", A.whereRoot)>> ELSE <<>>
            a10 == <<Line("limit", A.limit)>>
            x2 == a1 \o a2
            x3 == x2 \o a3
            x4 == x3 \o a4
            x5 == x4 \o a5
            x6 == x5 \o a6
            x7 == x6 \o a7
            x8 == x7 \o a8
            x9 == x8 \o a9
            L == Seq(AllLines)
            Fields == Statements \cup (Times \X Times) \cup Int
<1>1. /\ A \in Asts /\ A.statement \in Statements /\ A.sources \in Seq(Sources)
      /\ A.items \in [Kinds -> Seq(Items)] /\ A.conditions \in Seq(Conditions)
      /\ A.whereRoot \in Nat \cup {-1} /\ A.limit \in Nat
      /\ A.time \in (Times \X Times) \cup {<<>>}
  BY AstFields DEF GoodAst, Asts
<1>2. text = x9 \o a10
  BY DEF Encode
<1>3. a1 \in L /\ Len(a1) = 1 /\ a10 \in L /\ Len(a10) = 1
  <2>1. A.statement \in Fields /\ A.limit \in Fields
    BY <1>1
  <2>2. "statement" \in LineNames /\ "limit" \in LineNames
    BY DEF LineNames
  <2>. HIDE DEF Fields
  <2>. QED  BY <2>1, <2>2, OneLine DEF Fields
<1>4. a2 \in L /\ a8 \in L
  <2>1. a2 \in L
    <3>1. Sources \in {Sources, Items, Conditions} /\ "source" \in LineNames
      BY DEF LineNames
    <3>. QED  BY <1>1, <3>1, SomeLines
  <2>2. a8 \in L
    <3>1. Conditions \in {Sources, Items, Conditions} /\ "condition" \in LineNames
      BY DEF LineNames
    <3>. QED  BY <1>1, <3>1, SomeLines
  <2>. QED  BY <2>1, <2>2
<1>5. a3 \in L /\ (A.time # <<>> => Len(a3) = 1) /\ (A.time = <<>> => Len(a3) = 0)
  <2>1. CASE A.time = <<>>
    <3>1. a3 = <<>>
      BY <2>1
    <3>. QED  BY <2>1, <3>1, NoLine
  <2>2. CASE A.time # <<>>
    <3>. DEFINE u == <<Line("time", A.time)>>
    <3>1. A.time \in Fields /\ "time" \in LineNames
      BY <1>1, <2>2 DEF LineNames
    <3>. HIDE DEF Fields
    <3>2. u \in Seq(AllLines) /\ Len(u) = 1
      BY <3>1, OneLine DEF Fields
    <3>. HIDE DEF u
    <3>3. a3 = u
      BY <2>2 DEF u
    <3>. HIDE DEF a3
    <3>. QED  BY <2>2, <3>2, <3>3
  <2>. QED  BY <2>1, <2>2
<1>6. a9 \in L /\ (A.whereRoot >= 0 => Len(a9) = 1) /\ (A.whereRoot < 0 => Len(a9) = 0)
  <2>1. CASE A.whereRoot < 0
    <3>1. a9 = <<>> /\ ~(A.whereRoot >= 0)
      BY <1>1, <2>1
    <3>. QED  BY <2>1, <3>1, NoLine
  <2>2. CASE A.whereRoot >= 0
    <3>. DEFINE u == <<Line("where_root", A.whereRoot)>>
    <3>1. A.whereRoot \in Fields /\ "where_root" \in LineNames
      BY <1>1 DEF LineNames
    <3>. HIDE DEF Fields
    <3>2. u \in Seq(AllLines) /\ Len(u) = 1
      BY <3>1, OneLine DEF Fields
    <3>. HIDE DEF u
    <3>3. a9 = u
      BY <2>2 DEF u
    <3>4. ~(A.whereRoot < 0)
      BY <1>1, <2>2
    <3>. HIDE DEF a9
    <3>. QED  BY <2>2, <3>2, <3>3, <3>4
  <2>. QED  BY <1>1, <2>1, <2>2
<1>7. ASSUME NEW kind \in LineNames
      PROVE  ItemLines(A, kind) \in L
  <2>1. CASE kind \notin Kinds
    BY <2>1, NoLine DEF ItemLines
  <2>2. CASE kind \in Kinds
    <3>1. Items \in {Sources, Items, Conditions} /\ A.items[kind] \in Seq(Items)
      BY <1>1, <2>2
    <3>2. Lines(kind, A.items[kind]) \in Seq(AllLines)
      BY <3>1, SomeLines
    <3>. QED  BY <2>2, <3>2 DEF ItemLines
  <2>. QED  BY <2>1, <2>2
<1>8. a4 \in L /\ a5 \in L /\ a6 \in L /\ a7 \in L
  <2>1. "select" \in LineNames /\ "set" \in LineNames /\ "where" \in LineNames /\ "order" \in LineNames
    BY DEF LineNames
  <2>. HIDE DEF L
  <2>. QED  BY <1>7, <2>1
<1>. HIDE DEF text, a1, a2, a3, a4, a5, a6, a7, a8, a9, a10
<1>9. /\ x2 \in L /\ Len(x2) = Len(a1) + Len(a2) /\ x3 \in L /\ Len(x3) = Len(x2) + Len(a3)
      /\ x4 \in L /\ Len(x4) = Len(x3) + Len(a4) /\ x5 \in L /\ Len(x5) = Len(x4) + Len(a5)
      /\ x6 \in L /\ Len(x6) = Len(x5) + Len(a6) /\ x7 \in L /\ Len(x7) = Len(x6) + Len(a7)
      /\ x8 \in L /\ Len(x8) = Len(x7) + Len(a8) /\ x9 \in L /\ Len(x9) = Len(x8) + Len(a9)
      /\ text \in L /\ Len(text) = Len(x9) + Len(a10)
  <2>1. x2 \in L /\ Len(x2) = Len(a1) + Len(a2)
    BY <1>3, <1>4, JoinSize
  <2>. HIDE DEF x2
  <2>2. x3 \in L /\ Len(x3) = Len(x2) + Len(a3)
    BY <1>5, <2>1, JoinSize
  <2>. HIDE DEF x3
  <2>3. x4 \in L /\ Len(x4) = Len(x3) + Len(a4)
    BY <1>8, <2>2, JoinSize
  <2>. HIDE DEF x4
  <2>4. x5 \in L /\ Len(x5) = Len(x4) + Len(a5)
    BY <1>8, <2>3, JoinSize
  <2>. HIDE DEF x5
  <2>5. x6 \in L /\ Len(x6) = Len(x5) + Len(a6)
    BY <1>8, <2>4, JoinSize
  <2>. HIDE DEF x6
  <2>6. x7 \in L /\ Len(x7) = Len(x6) + Len(a7)
    BY <1>8, <2>5, JoinSize
  <2>. HIDE DEF x7
  <2>7. x8 \in L /\ Len(x8) = Len(x7) + Len(a8)
    BY <1>4, <2>6, JoinSize
  <2>. HIDE DEF x8
  <2>8. x9 \in L /\ Len(x9) = Len(x8) + Len(a9)
    BY <1>6, <2>7, JoinSize
  <2>. HIDE DEF x9
  <2>9. text \in L /\ Len(text) = Len(x9) + Len(a10)
    BY <1>2, <1>3, <2>8, JoinSize
  <2>. QED  BY <2>1, <2>2, <2>3, <2>4, <2>5, <2>6, <2>7, <2>8, <2>9
<1>10. /\ Len(a1) \in Nat /\ Len(x2) \in Nat /\ Len(x3) \in Nat /\ Len(x4) \in Nat /\ Len(x5) \in Nat
       /\ Len(x6) \in Nat /\ Len(x7) \in Nat /\ Len(x8) \in Nat /\ Len(x9) \in Nat /\ Len(text) \in Nat
       /\ \A u \in L : Len(u) \in Nat /\ 0 + Len(u) = Len(u)
  <2>1. \A u \in L : Len(u) \in Nat /\ 0 + Len(u) = Len(u)
    OBVIOUS
  <2>. HIDE DEF L, x2, x3, x4, x5, x6, x7, x8, x9
  <2>. QED  BY <1>3, <1>9, <2>1
<1>11. /\ Stands(text, 0, a1) /\ Stands(text, Len(a1), a2) /\ Stands(text, Len(x2), a3)
       /\ Stands(text, Len(x3), a4) /\ Stands(text, Len(x4), a5) /\ Stands(text, Len(x5), a6)
       /\ Stands(text, Len(x6), a7) /\ Stands(text, Len(x7), a8) /\ Stands(text, Len(x8), a9)
       /\ Stands(text, Len(x9), a10)
  <2>1. ASSUME NEW a \in L, NEW b \in L, Stands(text, 0, a \o b)
        PROVE  Stands(text, 0, a) /\ Stands(text, Len(a), b)
    <3>1. text \in Seq(AllLines) /\ a \in Seq(AllLines) /\ b \in Seq(AllLines)
          /\ 0 \in Nat /\ 0 + Len(a) = Len(a)
      BY <1>9, <1>10
    <3>. HIDE DEF x2, x3, x4, x5, x6, x7, x8, x9, L
    <3>2. Stands(text, 0, a) /\ Stands(text, 0 + Len(a), b)
      BY <2>1, <3>1, StandsJoined
    <3>. QED  BY <3>1, <3>2
  <2>2. Stands(text, 0, x9 \o a10)
    <3>1. Stands(text, 0, text)
      BY <1>9, <1>10 DEF Stands
    <3>. QED  BY <1>2, <3>1
  <2>3. Stands(text, 0, x9) /\ Stands(text, Len(x9), a10)
    <3>. HIDE DEF x9, L
    <3>. QED  BY <1>3, <1>9, <2>1, <2>2
  <2>4. Stands(text, 0, x8) /\ Stands(text, Len(x8), a9)
    <3>. HIDE DEF x8, L
    <3>. QED  BY <1>6, <1>9, <2>1, <2>3
  <2>5. Stands(text, 0, x7) /\ Stands(text, Len(x7), a8)
    <3>. HIDE DEF x7, L
    <3>. QED  BY <1>4, <1>9, <2>1, <2>4
  <2>6. Stands(text, 0, x6) /\ Stands(text, Len(x6), a7)
    <3>. HIDE DEF x6, L
    <3>. QED  BY <1>8, <1>9, <2>1, <2>5
  <2>7. Stands(text, 0, x5) /\ Stands(text, Len(x5), a6)
    <3>. HIDE DEF x5, L
    <3>. QED  BY <1>8, <1>9, <2>1, <2>6
  <2>8. Stands(text, 0, x4) /\ Stands(text, Len(x4), a5)
    <3>. HIDE DEF x4, L
    <3>. QED  BY <1>8, <1>9, <2>1, <2>7
  <2>9. Stands(text, 0, x3) /\ Stands(text, Len(x3), a4)
    <3>. HIDE DEF x3, L
    <3>. QED  BY <1>8, <1>9, <2>1, <2>8
  <2>10. Stands(text, 0, x2) /\ Stands(text, Len(x2), a3)
    <3>. HIDE DEF x2, L
    <3>. QED  BY <1>5, <1>9, <2>1, <2>9
  <2>11. Stands(text, 0, a1) /\ Stands(text, Len(a1), a2)
    <3>. HIDE DEF L
    <3>. QED  BY <1>3, <1>4, <2>1, <2>10
  <2>. HIDE DEF x2, x3, x4, x5, x6, x7, x8, x9
  <2>. QED  BY <2>3, <2>4, <2>5, <2>6, <2>7, <2>8, <2>9, <2>10, <2>11
<1>. HIDE DEF x2, x3, x4, x5, x6, x7, x8, x9, L
<1>. SUFFICES ASSUME NEW read, Reads(read, text, Len(text))
              PROVE  read[Len(text)] = A
  BY <1>10 DEF text
<1>12. Reads(read, text, Len(text))
  OBVIOUS
<1>13. read[Len(a1)] = Half(A.statement, <<>>, <<>>, NoItems, <<>>, -1, 0)
  <2>. DEFINE l == Line("statement", A.statement)
  <2>1. read[0] = EmptyAst
    BY <1>10, <1>12, ReadsAt DEF ReadAt
  <2>2. Stands(text, 0, <<l>>)
    BY <1>11 DEF a1
  <2>3. /\ EmptyAst # Refused /\ LineDecodes(EmptyAst, l)
        /\ DecodeLine(EmptyAst, l) = Half(A.statement, <<>>, <<>>, NoItems, <<>>, -1, 0)
    BY StatementRead
  <2>. HIDE DEF l
  <2>4. read[0 + 1] = DecodeLine(EmptyAst, l)
    BY <1>10, <1>12, <2>1, <2>2, <2>3, LineRead
  <2>. QED  BY <1>3, <2>3, <2>4
<1>14. read[Len(x2)] = Half(A.statement, A.sources, <<>>, NoItems, <<>>, -1, 0)
  <2>1. read[Len(a1) + Len(a2)] = Half(A.statement, A.sources, <<>>, NoItems, <<>>, -1, 0)
    BY <1>10, <1>11, <1>12, <1>13, SourcesRead DEF a2
  <2>. QED  BY <1>9, <2>1
<1>15. read[Len(x3)] = Half(A.statement, A.sources, A.time, NoItems, <<>>, -1, 0)
  <2>1. CASE A.time = <<>>
    <3>1. Len(x3) = Len(x2)
      BY <1>5, <1>9, <1>10, <2>1
    <3>. QED  BY <1>14, <2>1, <3>1
  <2>2. CASE A.time # <<>>
    <3>. DEFINE l == Line("time", A.time)
                B == Half(A.statement, A.sources, <<>>, NoItems, <<>>, -1, 0)
    <3>1. Stands(text, Len(x2), <<l>>)
      BY <1>11, <2>2 DEF a3
    <3>2. /\ LineDecodes(B, l)
          /\ DecodeLine(B, l) = Half(A.statement, A.sources, A.time, NoItems, <<>>, -1, 0)
      BY <2>2, TimeRead
    <3>3. B # Refused
      BY HalfIs
    <3>. HIDE DEF l, B
    <3>4. read[Len(x2)] = B
      BY <1>14 DEF B
    <3>5. read[Len(x2) + 1] = DecodeLine(B, l)
      BY <1>10, <1>12, <3>1, <3>2, <3>3, <3>4, LineRead
    <3>. QED  BY <1>5, <1>9, <2>2, <3>2, <3>5
  <2>. QED  BY <2>1, <2>2
<1>16. ItemsOf(A, {}) = NoItems
  BY DEF ItemsOf, NoItems
<1>17. read[Len(x4)] =
         Half(A.statement, A.sources, A.time, ItemsOf(A, {"select"}), <<>>, -1, 0)
  <2>. DEFINE kinds == {}
              more == {"select"}
  <2>1. "select" \notin kinds /\ more = kinds \cup {"select"}
    OBVIOUS
  <2>2. read[Len(x3)] = Half(A.statement, A.sources, A.time, ItemsOf(A, kinds), <<>>, -1, 0)
    BY <1>15, <1>16
  <2>3. Stands(text, Len(x3), ItemLines(A, "select"))
    BY <1>11 DEF a4
  <2>. HIDE DEF kinds, more
  <2>. HIDE DEF text
  <2>5. Len(text) \in Nat /\ Len(x3) \in Nat
    BY <1>10
  <2>4. read[Len(x3) + Len(ItemLines(A, "select"))] =
          Half(A.statement, A.sources, A.time, ItemsOf(A, more), <<>>, -1, 0)
    BY <1>12, <2>1, <2>2, <2>3, <2>5, KindRead
  <2>. QED  BY <1>9, <2>4 DEF a4, more
<1>18. read[Len(x5)] =
         Half(A.statement, A.sources, A.time, ItemsOf(A, {"select", "set"}), <<>>, -1, 0)
  <2>. DEFINE kinds == {"select"}
              more == {"select", "set"}
  <2>1. "set" \notin kinds /\ more = kinds \cup {"set"}
    OBVIOUS
  <2>2. read[Len(x4)] = Half(A.statement, A.sources, A.time, ItemsOf(A, kinds), <<>>, -1, 0)
    BY <1>17
  <2>3. Stands(text, Len(x4), ItemLines(A, "set"))
    BY <1>11 DEF a5
  <2>. HIDE DEF kinds, more
  <2>. HIDE DEF text
  <2>5. Len(text) \in Nat /\ Len(x4) \in Nat
    BY <1>10
  <2>4. read[Len(x4) + Len(ItemLines(A, "set"))] =
          Half(A.statement, A.sources, A.time, ItemsOf(A, more), <<>>, -1, 0)
    BY <1>12, <2>1, <2>2, <2>3, <2>5, KindRead
  <2>. QED  BY <1>9, <2>4 DEF a5, more
<1>19. read[Len(x6)] =
         Half(A.statement, A.sources, A.time, ItemsOf(A, {"select", "set", "where"}), <<>>, -1, 0)
  <2>. DEFINE kinds == {"select", "set"}
              more == {"select", "set", "where"}
  <2>1. "where" \notin kinds /\ more = kinds \cup {"where"}
    OBVIOUS
  <2>2. read[Len(x5)] = Half(A.statement, A.sources, A.time, ItemsOf(A, kinds), <<>>, -1, 0)
    BY <1>18
  <2>3. Stands(text, Len(x5), ItemLines(A, "where"))
    BY <1>11 DEF a6
  <2>. HIDE DEF kinds, more
  <2>. HIDE DEF text
  <2>5. Len(text) \in Nat /\ Len(x5) \in Nat
    BY <1>10
  <2>4. read[Len(x5) + Len(ItemLines(A, "where"))] =
          Half(A.statement, A.sources, A.time, ItemsOf(A, more), <<>>, -1, 0)
    BY <1>12, <2>1, <2>2, <2>3, <2>5, KindRead
  <2>. QED  BY <1>9, <2>4 DEF a6, more
<1>20. read[Len(x7)] =
         Half(A.statement, A.sources, A.time, ItemsOf(A, {"select", "set", "where", "order"}), <<>>, -1, 0)
  <2>. DEFINE kinds == {"select", "set", "where"}
              more == {"select", "set", "where", "order"}
  <2>1. "order" \notin kinds /\ more = kinds \cup {"order"}
    OBVIOUS
  <2>2. read[Len(x6)] = Half(A.statement, A.sources, A.time, ItemsOf(A, kinds), <<>>, -1, 0)
    BY <1>19
  <2>3. Stands(text, Len(x6), ItemLines(A, "order"))
    BY <1>11 DEF a7
  <2>. HIDE DEF kinds, more
  <2>. HIDE DEF text
  <2>5. Len(text) \in Nat /\ Len(x6) \in Nat
    BY <1>10
  <2>4. read[Len(x6) + Len(ItemLines(A, "order"))] =
          Half(A.statement, A.sources, A.time, ItemsOf(A, more), <<>>, -1, 0)
    BY <1>12, <2>1, <2>2, <2>3, <2>5, KindRead
  <2>. QED  BY <1>9, <2>4 DEF a7, more
<1>. DEFINE all == {"select", "set", "where", "order"}
<1>25. ItemsOf(A, all) = A.items
  <2>1. \A kind \in Kinds : kind \in all
    BY AstAssumption
  <2>. HIDE DEF all
  <2>. QED  BY <1>1, <2>1 DEF ItemsOf
<1>21. read[Len(x8)] = Half(A.statement, A.sources, A.time, A.items, A.conditions, -1, 0)
  <2>1. read[Len(x7) + Len(a8)] =
          Half(A.statement, A.sources, A.time, A.items, A.conditions, -1, 0)
    BY <1>10, <1>11, <1>12, <1>20, <1>25, ConditionsRead DEF a8
  <2>. QED  BY <1>9, <2>1
<1>22. read[Len(x9)] = Half(A.statement, A.sources, A.time, A.items, A.conditions, A.whereRoot, 0)
  <2>1. CASE A.whereRoot < 0
    <3>1. Len(x9) = Len(x8)
      <4>1. Len(a9) = 0 /\ Len(x9) = Len(x8) + Len(a9)
        BY <1>6, <1>9, <2>1
      <4>. QED  BY <1>10, <4>1
    <3>2. A.whereRoot = -1
      BY <1>1, <2>1
    <3>. QED  BY <1>21, <3>1, <3>2
  <2>2. CASE A.whereRoot >= 0
    <3>. DEFINE l == Line("where_root", A.whereRoot)
                B == Half(A.statement, A.sources, A.time, A.items, A.conditions, -1, 0)
    <3>1. Stands(text, Len(x8), <<l>>)
      BY <1>11, <2>2 DEF a9
    <3>2. /\ LineDecodes(B, l)
          /\ DecodeLine(B, l) =
               Half(A.statement, A.sources, A.time, A.items, A.conditions, A.whereRoot, 0)
      BY <2>2, RootRead
    <3>3. B # Refused
      BY HalfIs
    <3>. HIDE DEF l, B
    <3>4. read[Len(x8)] = B
      BY <1>21 DEF B
    <3>5. read[Len(x8) + 1] = DecodeLine(B, l)
      BY <1>10, <1>12, <3>1, <3>2, <3>3, <3>4, LineRead
    <3>. QED  BY <1>6, <1>9, <2>2, <3>2, <3>5
  <2>. QED  BY <1>1, <2>1, <2>2
<1>23. read[Len(text)] = A
  <2>. DEFINE l == Line("limit", A.limit)
              B == Half(A.statement, A.sources, A.time, A.items, A.conditions, A.whereRoot, 0)
  <2>1. Stands(text, Len(x9), <<l>>)
    BY <1>11 DEF a10
  <2>2. LineDecodes(B, l) /\ DecodeLine(B, l) = A
    BY LimitRead
  <2>3. B # Refused
    BY HalfIs
  <2>. HIDE DEF l, B
  <2>4. read[Len(x9)] = B
    BY <1>22 DEF B
  <2>. HIDE DEF text
  <2>6. Len(text) \in Nat /\ Len(x9) \in Nat /\ LineDecodes(B, l)
    BY <1>10, <2>2
  <2>5. read[Len(x9) + 1] = DecodeLine(B, l)
    BY <1>12, <2>1, <2>3, <2>4, <2>6, LineRead
  <2>. QED  BY <1>3, <1>9, <2>2, <2>5
<1>. QED  BY <1>23

(* What Encode lets out, Decode reads back as the same query.              *)
LEMMA RoundTrip ==
  ASSUME NEW A, GoodAst(A), Encodes(A), Named(A)
  PROVE  Decode(Encode(A)) = A
<1>1. Len(Encode(A)) \in Nat
  BY EncodedRead
<1>2. PICK read : /\ Reads(read, Encode(A), Len(Encode(A)))
                  /\ Whole(read[Len(Encode(A))]) => Decode(Encode(A)) = read[Len(Encode(A))]
  BY <1>1, DecodeReads
<1>3. read[Len(Encode(A))] = A
  BY <1>1, <1>2, EncodedRead
<1>4. Whole(A)
  <2>1. A # Refused
    BY WholeHalf, HalfIs DEF GoodAst
  <2>2. HasRootSource(A)
    BY DEF Encodes
  <2>3. ASSUME NEW i \in DOMAIN A.sources, A.sources[i].type = "JOIN"
        PROVE  HasCondition(A, A.sources[i].on)
    BY <2>3 DEF Encodes, SourceEncodes
  <2>. QED  BY <2>1, <2>2, <2>3 DEF Whole
<1>. QED  BY <1>2, <1>3, <1>4

-----------------------------------------------------------------------------
(* Conditions keep naming sources the query has.                           *)

CInv == ~lost => Named(ast)

NamesOf(c, n) ==
  /\ c.type # "GROUP" => c.source \in 0 .. n - 1
  /\ c.type = "FIELD_COMPARE" => c.right \in 0 .. n - 1

(* A query that keeps what another named, and whose new conditions name    *)
(* sources, has only such conditions.                                      *)
LEMMA NamedKept ==
  ASSUME NEW A, GoodAst(A), Named(A), NEW B, GoodAst(B), Preserves(A, B),
         \A i \in DOMAIN B.conditions :
           i \notin DOMAIN A.conditions => NamesOf(B.conditions[i], Len(B.sources))
  PROVE  Named(B)
<1>. DEFINE n == Len(A.sources)
            m == Len(B.sources)
<1>1. n \in Nat /\ m \in Nat /\ DOMAIN A.sources = 1 .. n /\ DOMAIN B.sources = 1 .. m
  BY AstFields DEF GoodAst
<1>2. n <= m
  <2>1. \A i \in 1 .. n : i \in 1 .. m
    BY <1>1 DEF Preserves
  <2>. HIDE DEF n, m
  <2>2. CASE n = 0
    BY <1>1, <2>2
  <2>3. CASE n # 0
    <3>1. n \in 1 .. n
      BY <1>1, <2>3
    <3>. QED  BY <1>1, <2>1, <3>1
  <2>. QED  BY <2>2, <2>3
<1>3. ASSUME NEW i \in DOMAIN B.conditions
      PROVE  NamesOf(B.conditions[i], m)
  <2>1. CASE i \in DOMAIN A.conditions
    <3>1. B.conditions[i] = A.conditions[i]
      BY <2>1 DEF Preserves
    <3>2. NamesOf(A.conditions[i], n)
      BY <2>1 DEF Named, NamesOf
    <3>. HIDE DEF n, m
    <3>3. \A x \in 0 .. n - 1 : x \in 0 .. m - 1
      BY <1>1, <1>2
    <3>. QED  BY <3>1, <3>2, <3>3 DEF NamesOf
  <2>. QED  BY <2>1
<1>. QED  BY <1>3 DEF Named, NamesOf

LEMMA SameConditions ==
  ASSUME NEW A, Named(A), NEW B, B.sources = A.sources, B.conditions = A.conditions
  PROVE  Named(B)
BY DEF Named

LEMMA HeldSource ==
  ASSUME IInv, NEW h \in handles
  PROVE  h.id \in 0 .. Len(ast.sources) - 1
<1>1. h.id \in Nat /\ h.id + 1 \in DOMAIN ast.sources
  BY DEF IInv, NamesKeepMeaning
<1>2. Len(ast.sources) \in Nat /\ DOMAIN ast.sources = 1 .. Len(ast.sources)
  BY AstFields DEF IInv, GoodAst
<1>. QED  BY <1>1, <1>2

LEMMA NamedJoinOn ==
  ASSUME IInv, Named(ast), NEW h \in handles, NEW d \in Datasets, MayAddJoin(ast, h.id)
  PROVE  Named(WithJoinOn(h, d))
<1>. DEFINE C == WithJoinOn(h, d)
            n == Len(ast.sources)
            m == Len(ast.conditions)
<1>1. /\ GoodAst(C) /\ Preserves(ast, C) /\ n \in Nat /\ Len(C.sources) = n + 1
      /\ Len(C.conditions) = m + 1
      /\ C.conditions[m + 1].type = "FIELD_COMPARE" /\ C.conditions[m + 1].source = h.id
      /\ C.conditions[m + 1].right = n
  BY JoinOnOk
<1>2. GoodAst(ast) /\ DOMAIN ast.conditions = 1 .. m /\ m \in Nat /\ h.id \in 0 .. n - 1
  BY AstFields, HeldSource DEF IInv, GoodAst
<1>3. DOMAIN C.conditions = 1 .. Len(C.conditions)
  BY <1>1, AstFields DEF GoodAst
<1>. HIDE DEF C, n, m
<1>4. \A i \in 1 .. m + 1 : i \notin 1 .. m => i = m + 1
  BY <1>2
<1>5. h.id \in 0 .. (n + 1) - 1 /\ n \in 0 .. (n + 1) - 1
  BY <1>1, <1>2
<1>6. \A i \in DOMAIN C.conditions :
        i \notin DOMAIN ast.conditions => NamesOf(C.conditions[i], Len(C.sources))
  BY <1>1, <1>2, <1>3, <1>4, <1>5 DEF NamesOf
<1>7. Named(C)
  BY <1>1, <1>2, <1>6, NamedKept
<1>. QED  BY <1>7 DEF C

LEMMA NamedCondition ==
  ASSUME IInv, Named(ast), NEW c \in Conditions, ast.sources # <<>>,
         c.id = Len(ast.conditions),
         c.type = "GROUP" => \A j \in DOMAIN c.children : HasCondition(ast, c.children[j]),
         NamesOf(c, Len(ast.sources))
  PROVE  Named(AddCondition(ast, c))
<1>. DEFINE B == AddCondition(ast, c)
            m == Len(ast.conditions)
<1>1. /\ GoodAst(B) /\ Preserves(ast, B) /\ B.sources = ast.sources
      /\ DOMAIN B.conditions = 1 .. m + 1 /\ B.conditions[m + 1] = c /\ m \in Nat
  BY AddConditionOk DEF IInv
<1>2. GoodAst(ast) /\ DOMAIN ast.conditions = 1 .. m
  BY AstFields DEF IInv, GoodAst
<1>. HIDE DEF B, m
<1>3. \A i \in 1 .. m + 1 : i \notin 1 .. m => i = m + 1
  BY <1>1
<1>4. \A i \in DOMAIN B.conditions :
        i \notin DOMAIN ast.conditions => NamesOf(B.conditions[i], Len(B.sources))
  BY <1>1, <1>2, <1>3
<1>5. Named(B)
  BY <1>1, <1>2, <1>4, NamedKept
<1>. QED  BY <1>5 DEF B

LEMMA NamedStep ==
  ASSUME IInv, Named(ast), [Next]_vars, lost' = FALSE
  PROVE  Named(ast')
<1>1. ast \in Asts /\ GoodAst(ast)
  BY DEF IInv, GoodAst
<1>2. CASE UNCHANGED vars
  BY <1>2 DEF vars
<1>3. ASSUME NEW s \in Statements, QuerySetStatementType(s) PROVE Named(ast')
  <2>1. ast'.sources = ast.sources /\ ast'.conditions = ast.conditions
    BY <1>1, <1>3 DEF QuerySetStatementType, Asts
  <2>. QED  BY <2>1, SameConditions
<1>4. ASSUME NEW d \in Datasets, QueryFrom(d) PROVE Named(ast')
  <2>1. ast.conditions = <<>> /\ ast'.conditions = ast.conditions
    BY <1>1, <1>4 DEF QueryFrom, MayAddRoot, AddRootSource, GoodAst, Rooted, Asts
  <2>. QED  BY <2>1 DEF Named
<1>5. ASSUME NEW d \in Datasets, QueryFromFails(d) PROVE Named(ast')
  <2>1. ast.conditions = <<>> /\ AddRootSource(ast, d).conditions = ast.conditions
    BY <1>1, <1>5 DEF QueryFromFails, MayAddRoot, AddRootSource, GoodAst, Rooted, Asts
  <2>2. ast'.conditions = <<>>
    BY <1>5, <2>1 DEF QueryFromFails, EmptyAst
  <2>. QED  BY <2>2 DEF Named
<1>6. ASSUME NEW h \in handles, NEW d \in Datasets, MayAddJoin(ast, h.id)
      PROVE  /\ Named(AddJoinSource(ast, h.id, d)) /\ Named(WithJoinOn(h, d))
             /\ Named(DropLastSource(AddJoinSource(ast, h.id, d)))
  <2>. DEFINE B == AddJoinSource(ast, h.id, d)
  <2>1. /\ GoodAst(B) /\ Preserves(ast, B) /\ B.conditions = ast.conditions
        /\ Len(B.sources) = Len(ast.sources) + 1
        /\ \A i \in 1 .. Len(ast.sources) : B.sources[i] = ast.sources[i]
    BY <1>1, <1>6, AddJoinOk
  <2>2. ast.sources # <<>> /\ DOMAIN ast.sources = 1 .. Len(ast.sources)
        /\ Len(ast.conditions) \in Nat
    BY <1>1, HeldHandle, AstFields DEF GoodAst
  <2>. HIDE DEF B
  <2>3. Named(B)
    BY <1>1, <2>1, NamedKept
  <2>4. /\ DropLastSource(B).sources = ast.sources
        /\ DropLastSource(B).conditions = ast.conditions
    BY <1>1, <2>1, <2>2, DropLastOk
  <2>5. Named(DropLastSource(B))
    BY <2>4, SameConditions
  <2>. QED  BY <1>6, <2>3, <2>5, NamedJoinOn DEF B
<1>7. ASSUME NEW h \in handles, NEW d \in Datasets,
             QueryJoin(h, d) \/ QueryJoinFails(h, d) \/ QueryJoinOn(h, d) \/ QueryJoinOnFails(h, d)
      PROVE  Named(ast')
  <2>1. MayAddJoin(ast, h.id)
    BY <1>7 DEF QueryJoin, QueryJoinFails, QueryJoinOn, QueryJoinOnFails
  <2>2. \/ ast' = AddJoinSource(ast, h.id, d) \/ ast' = WithJoinOn(h, d)
        \/ ast' = DropLastSource(AddJoinSource(ast, h.id, d))
    BY <1>7 DEF QueryJoin, QueryJoinFails, QueryJoinOn, QueryJoinOnFails
  <2>. QED  BY <1>6, <2>1, <2>2
<1>8. ASSUME NEW h \in handles, NEW node \in AnyNode, QueryJoinOnCondition(h, node)
      PROVE  Named(ast')
  <2>1. HasCondition(ast, node) /\ ast' = SetJoinOnRoot(ast, h.id, node)
    BY <1>8 DEF QueryJoinOnCondition, MaySetJoinOn
  <2>2. GoodAst(ast') /\ Preserves(ast, ast') /\ ast'.conditions = ast.conditions
    BY <1>1, <2>1, SetJoinOnOk
  <2>. QED  BY <1>1, <2>2, NamedKept
<1>9. ASSUME NEW b \in Times, NEW e \in Times, QueryTimeRange(b, e) PROVE Named(ast')
  <2>1. ast'.sources = ast.sources /\ ast'.conditions = ast.conditions
    BY <1>1, <1>9 DEF QueryTimeRange, Asts
  <2>. QED  BY <2>1, SameConditions
<1>10. ASSUME NEW kind \in Kinds, NEW h \in handles, NEW text \in Texts, QueryItem(kind, h, text)
       PROVE  Named(ast')
  <2>1. ast'.sources = ast.sources /\ ast'.conditions = ast.conditions
    BY <1>1, <1>10 DEF QueryItem, AddItem, Asts
  <2>. QED  BY <2>1, SameConditions
<1>11. Len(ast.conditions) \in Nat
  BY <1>1, AstFields
<1>12. ASSUME NEW h \in handles, NEW text \in Texts, QueryConditionValue(h, text)
       PROVE  Named(ast')
  <2>. DEFINE c == ValueCondition(ast, h.id, text)
  <2>1. /\ c \in Conditions /\ c.id = Len(ast.conditions) /\ c.type # "GROUP"
        /\ c.type # "FIELD_COMPARE" /\ c.source = h.id
    BY <1>11, HeldHandle DEF ValueCondition, Conditions
  <2>2. ast' = AddCondition(ast, c) /\ ast.sources # <<>>
    BY <1>12, HeldHandle DEF QueryConditionValue, QueryCondition
  <2>. HIDE DEF c
  <2>3. NamesOf(c, Len(ast.sources))
    BY <2>1, HeldSource DEF NamesOf
  <2>. QED  BY <2>1, <2>2, <2>3, NamedCondition
<1>13. ASSUME NEW h \in handles, NEW r \in handles, QueryConditionField(h, r)
       PROVE  Named(ast')
  <2>. DEFINE c == FieldCompare(ast, h.id, r.id)
  <2>1. /\ c \in Conditions /\ c.id = Len(ast.conditions) /\ c.type # "GROUP"
        /\ c.source = h.id /\ c.right = r.id
    BY <1>11, HeldHandle DEF FieldCompare, Conditions, Texts
  <2>2. ast' = AddCondition(ast, c) /\ ast.sources # <<>>
    BY <1>13, HeldHandle DEF QueryConditionField, QueryCondition
  <2>. HIDE DEF c
  <2>3. NamesOf(c, Len(ast.sources))
    BY <2>1, HeldSource DEF NamesOf
  <2>. QED  BY <2>1, <2>2, <2>3, NamedCondition
<1>14. ASSUME NEW x \in AnyNode, NEW y \in AnyNode, QueryConditionGroup(<<x, y>>)
       PROVE  Named(ast')
  <2>. DEFINE c == Group(ast, <<x, y>>)
  <2>1. x \in Nat /\ y \in Nat
    BY AstAssumption DEF AnyNode
  <2>2. /\ c \in Conditions /\ c.id = Len(ast.conditions) /\ c.type = "GROUP"
        /\ c.children = <<x, y>>
    BY <1>11, <2>1 DEF Group, Conditions
  <2>3. ast' = AddCondition(ast, c)
        /\ \A j \in DOMAIN <<x, y>> : HasCondition(ast, <<x, y>>[j])
    BY <1>14 DEF QueryConditionGroup, QueryCondition, MayGroup
  <2>4. HasCondition(ast, x)
    BY <2>3
  <2>5. ast.sources # <<>>
    BY <1>1, <2>4 DEF HasCondition, GoodAst, Rooted
  <2>. HIDE DEF c
  <2>6. NamesOf(c, Len(ast.sources))
    BY <2>2 DEF NamesOf
  <2>. QED  BY <2>2, <2>3, <2>5, <2>6, NamedCondition
<1>15. ASSUME NEW node \in AnyNode, QueryWhereCondition(node) PROVE Named(ast')
  <2>1. ast'.sources = ast.sources /\ ast'.conditions = ast.conditions
    BY <1>1, <1>15 DEF QueryWhereCondition, Asts
  <2>. QED  BY <2>1, SameConditions
<1>16. ASSUME NEW l \in -1 .. MaxLimit + 1, QueryLimit(l) PROVE Named(ast')
  <2>1. ast'.sources = ast.sources /\ ast'.conditions = ast.conditions
    BY <1>1, <1>16 DEF QueryLimit, Asts
  <2>. QED  BY <2>1, SameConditions
<1>. QED  BY <1>2, <1>3, <1>4, <1>5, <1>7, <1>8, <1>9, <1>10, <1>12, <1>13, <1>14, <1>15, <1>16
          DEF Next

(* lost is never taken back.                                               *)
LEMMA LostStays ==
  ASSUME IInv, [Next]_vars, lost' = FALSE
  PROVE  lost = FALSE
BY DEF IInv, Next, vars, QuerySetStatementType, QueryFrom, QueryFromFails, QueryJoin,
       QueryJoinFails, QueryJoinOn, QueryJoinOnFails, QueryJoinOnCondition, QueryTimeRange,
       QueryItem, QueryConditionValue, QueryConditionField, QueryConditionGroup,
       QueryCondition, QueryWhereCondition, QueryLimit

LEMMA NamedInvariant == Spec => [](IInv /\ CInv)
<1>1. Init => CInv
  BY DEF Init, CInv, Named, EmptyAst
<1>2. IInv /\ CInv /\ [Next]_vars => CInv'
  <2>. SUFFICES ASSUME IInv, CInv, [Next]_vars, ~lost'
                PROVE  Named(ast')
    BY DEF CInv, Named
  <2>1. lost' = FALSE
    BY StepInvariant DEF IInv
  <2>2. lost = FALSE
    BY <2>1, LostStays
  <2>. QED  BY <2>1, <2>2, NamedStep DEF CInv
<1>. QED  BY <1>1, <1>2, Initially, StepInvariant, PTL DEF Spec

(* What Encode lets out, Decode reads back as the same query: every list,  *)
(* id, root and limit, however long the query and whatever the limits,     *)
(* unless HdbQueryJoinOn lost a handle.  So the server runs the query the  *)
(* caller built.                                                           *)
THEOREM WireIsFaithful == Spec => []WireFaithful
<1>1. IInv /\ CInv => WireFaithful
  <2>. SUFFICES ASSUME IInv, CInv, Encodes(ast), ~lost
                PROVE  Decode(Encode(ast)) = ast
    BY DEF WireFaithful
  <2>1. GoodAst(ast) /\ Named(ast)
    BY DEF IInv, CInv
  <2>. QED  BY <2>1, RoundTrip
<1>. QED  BY <1>1, NamedInvariant, PTL

=============================================================================
