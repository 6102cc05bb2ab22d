---------------------- MODULE JsonConfigurationParser_proofs ----------------------
(***************************************************************************)
(* The JSON parser, for any documents of any depth and any number of calls:    *)
(* what it returns is every scalar of the document under its path, and it       *)
(* throws exactly if two of them have the same.                              *)
(*                                                                         *)
(* The argument: the calls still to make are links of a chain, from the place   *)
(* the stack of names describes back to the root, and no place they are about    *)
(* leads to another.  So every scalar is either still to be visited, by one     *)
(* call alone, or has its entry in the dictionary.                            *)
(***************************************************************************)
EXTENDS JsonConfigurationParser, SequenceTheorems, WellFoundedInduction, TLAPS

(***************************************************************************)
(* Induction, over sets: what holds of nought and of a successor, or of the    *)
(* empty sequence and of one that is longer by an element, holds of all.       *)
(***************************************************************************)
LEMMA LeastNatural ==
    ASSUME NEW T \in SUBSET Nat, T # {}
    PROVE  \E n \in T : \A m \in T : n <= m
<1> DEFINE Less == OpToRel(<, Nat)
<1>1. IsWellFoundedOn(Less, Nat)
    BY NatLessThanWellFounded
<1>2. Less = {pair \in Nat \X Nat : pair[1] < pair[2]}
    BY DEF OpToRel
<1> HIDE DEF Less
<1>3. PICK n \in T : \A m \in T : <<m, n>> \notin Less
    BY <1>1, WFMin
<1>4. ASSUME NEW m \in T
      PROVE  n <= m
    <2>1. <<m, n>> \in Nat \X Nat /\ <<m, n>>[1] = m /\ <<m, n>>[2] = n
        OBVIOUS
    <2>2. ~(m < n)
        BY <1>2, <1>3, <2>1
    <2>3. QED
        BY <2>2
<1>5. QED
    BY <1>4

LEMMA NaturalInduction ==
    ASSUME NEW T \in SUBSET Nat, 0 \in T, \A n \in T : n + 1 \in T
    PROVE  T = Nat
<1> SUFFICES ASSUME Nat \ T # {}
             PROVE  FALSE
    OBVIOUS
<1>1. PICK n \in Nat \ T : \A m \in Nat \ T : n <= m
    BY LeastNatural
<1>2. n - 1 \in Nat /\ n - 1 \in T
    BY <1>1
<1>3. QED
    BY <1>1, <1>2

LEMMA SequenceInduction ==
    ASSUME NEW S, NEW T \in SUBSET Seq(S), <<>> \in T,
           \A s \in T : \A x \in S : Append(s, x) \in T
    PROVE  T = Seq(S)
<1> DEFINE Lengths == {n \in Nat : \A s \in Seq(S) : Len(s) = n => s \in T}
<1>1. 0 \in Lengths
    BY EmptySeq
<1>2. ASSUME NEW n \in Lengths
      PROVE  n + 1 \in Lengths
    <2>1. SUFFICES ASSUME NEW s \in Seq(S), Len(s) = n + 1
                   PROVE  s \in T
        OBVIOUS
    <2>2. s # <<>>
        BY <2>1, EmptySeq
    <2>3. PICK t \in Seq(S), x \in S : s = Append(t, x)
        BY <2>2, SequenceEmptyOrAppend
    <2>4. Len(t) = n
        BY <2>1, <2>3, AppendProperties, LenProperties
    <2>5. QED
        BY <2>3, <2>4
<1>3. Lengths = Nat
    <2>1. Lengths \in SUBSET Nat
        OBVIOUS
    <2> HIDE DEF Lengths
    <2>2. QED
        BY <1>1, <1>2, <2>1, NaturalInduction
<1>4. QED
    BY <1>3, LenProperties

-------------------------------------------------------------------------------
(***************************************************************************)
(* FlattenSeq, which joins the names on the stack to a path.                  *)
(***************************************************************************)
Joins(s, n, f) == f = [i \in 1..n |-> IF i = 1 THEN s[i] ELSE f[i - 1] \o s[i]]

LEMMA JoinUnfolds ==
    ASSUME NEW s, NEW n \in Nat, NEW f, Joins(s, n, f)
    PROVE  \A i \in 1..n : f[i] = IF i = 1 THEN s[i] ELSE f[i - 1] \o s[i]
  BY DEF Joins

LEMMA JoinExists ==
    ASSUME NEW s, NEW n \in Nat
    PROVE  \E f : Joins(s, n, f)
<1> DEFINE T == {k \in Nat : \E f : Joins(s, k, f)}
<1>1. 0 \in T
    <2>1. Joins(s, 0, [i \in 1..0 |-> <<>>])
        BY DEF Joins
    <2>2. QED
        BY <2>1
<1>2. ASSUME NEW k \in T
      PROVE  k + 1 \in T
    <2>1. PICK f : Joins(s, k, f)
        OBVIOUS
    <2> DEFINE g == [i \in 1..(k + 1) |-> IF i = 1 THEN s[i] ELSE f[i - 1] \o s[i]]
    <2>2. \A i \in 1..k : g[i] = f[i]
        BY <2>1, JoinUnfolds
    <2>3. \A i \in 1..(k + 1) : i # 1 => i - 1 \in 1..k
        OBVIOUS
    <2>4. \A i \in 1..(k + 1) : (IF i = 1 THEN s[i] ELSE f[i - 1] \o s[i])
                                    = (IF i = 1 THEN s[i] ELSE g[i - 1] \o s[i])
        <3> HIDE DEF g
        <3>1. QED
            BY <2>2, <2>3
    <2>5. Joins(s, k + 1, g)
        <3> DEFINE h == [i \in 1..(k + 1) |-> IF i = 1 THEN s[i] ELSE g[i - 1] \o s[i]]
        <3>1. g = h
            <4> HIDE DEF g
            <4>1. [i \in 1..(k + 1) |-> IF i = 1 THEN s[i] ELSE f[i - 1] \o s[i]] = h
                BY <2>4
            <4>2. QED
                BY <4>1 DEF g
        <3>2. QED
            BY <3>1, Zenon DEF Joins
    <2>6. QED
        BY <2>5
<1>3. T = Nat
    <2>1. T \in SUBSET Nat
        OBVIOUS
    <2>2. \A k \in T : k + 1 \in T
        BY <1>2
    <2> HIDE DEF T
    <2>3. QED
        BY <1>1, <2>1, <2>2, NaturalInduction
<1>4. QED
    BY <1>3

LEMMA FlattenJoins ==
    ASSUME NEW S, NEW s \in Seq(S), s # <<>>
    PROVE  \E f : Joins(s, Len(s), f) /\ FlattenSeq(s) = f[Len(s)]
<1> DEFINE f == CHOOSE g : Joins(s, Len(s), g)
<1>1. Len(s) \in Nat /\ Len(s) # 0
    BY EmptySeq
<1>2. Joins(s, Len(s), f)
    BY <1>1, JoinExists, Zenon
<1>3. f = CHOOSE h : h = [i \in 1..Len(s) |-> IF i = 1 THEN s[i] ELSE h[i - 1] \o s[i]]
    BY DEF Joins
<1>4. FlattenSeq(s) = f[Len(s)]
    BY <1>1, <1>3, Zenon DEF FlattenSeq
<1>5. QED
    BY <1>2, <1>4, Zenon

LEMMA JoinType ==
    ASSUME NEW S, NEW s \in Seq(Seq(S)), NEW f, Joins(s, Len(s), f)
    PROVE  \A i \in 1..Len(s) : f[i] \in Seq(S)
<1> DEFINE T == {k \in Nat : k \in 1..Len(s) => f[k] \in Seq(S)}
<1>1. Len(s) \in Nat /\ \A i \in 1..Len(s) : s[i] \in Seq(S)
    BY LenProperties
<1>2. ASSUME NEW k \in T
      PROVE  k + 1 \in T
    <2>1. SUFFICES ASSUME k + 1 \in 1..Len(s)
                   PROVE  f[k + 1] \in Seq(S)
        OBVIOUS
    <2>2. f[k + 1] = IF k + 1 = 1 THEN s[k + 1] ELSE f[k] \o s[k + 1]
        BY <1>1, <2>1, JoinUnfolds
    <2>3. CASE k = 0
        BY <1>1, <2>1, <2>2, <2>3
    <2>4. CASE k # 0
        <3>1. k \in 1..Len(s) /\ f[k] \in Seq(S) /\ s[k + 1] \in Seq(S)
            BY <1>1, <2>1, <2>4
        <3>2. f[k] \o s[k + 1] \in Seq(S)
            BY <3>1, ConcatProperties
        <3>3. QED
            BY <2>2, <2>4, <3>2
    <2>5. QED
        BY <2>3, <2>4
<1>3. T = Nat
    <2>1. T \in SUBSET Nat /\ 0 \in T
        BY <1>1
    <2> HIDE DEF T
    <2>2. QED
        BY <1>2, <2>1, NaturalInduction
<1>4. \A i \in 1..Len(s) : i \in T
    <2> HIDE DEF T
    <2>1. QED
        BY <1>1, <1>3
<1>5. QED
    BY <1>4

\* Two joins agree as long as what they join does.
LEMMA JoinsAgree ==
    ASSUME NEW s, NEW t, NEW m \in Nat, NEW n \in Nat, m <= n, NEW f, NEW g,
           Joins(s, m, f), Joins(t, n, g), \A i \in 1..m : s[i] = t[i]
    PROVE  \A i \in 1..m : f[i] = g[i]
<1> DEFINE T == {k \in Nat : k \in 1..m => f[k] = g[k]}
<1>1. ASSUME NEW k \in T
      PROVE  k + 1 \in T
    <2>1. SUFFICES ASSUME k + 1 \in 1..m
                   PROVE  f[k + 1] = g[k + 1]
        OBVIOUS
    <2>2. k + 1 \in 1..n
        BY <2>1
    <2>3. /\ f[k + 1] = IF k + 1 = 1 THEN s[k + 1] ELSE f[k] \o s[k + 1]
          /\ g[k + 1] = IF k + 1 = 1 THEN t[k + 1] ELSE g[k] \o t[k + 1]
        BY <2>1, <2>2, JoinUnfolds
    <2>4. k # 0 => f[k] = g[k]
        BY <2>1
    <2>5. QED
        BY <2>1, <2>3, <2>4
<1>2. T = Nat
    <2>1. T \in SUBSET Nat /\ 0 \in T
        OBVIOUS
    <2> HIDE DEF T
    <2>2. QED
        BY <1>1, <2>1, NaturalInduction
<1>3. QED
    BY <1>2

LEMMA FlattenType ==
    ASSUME NEW S, NEW s \in Seq(Seq(S))
    PROVE  FlattenSeq(s) \in Seq(S)
<1>1. CASE s = <<>>
    BY <1>1, EmptySeq DEF FlattenSeq
<1>2. CASE s # <<>>
    <2>1. PICK f : Joins(s, Len(s), f) /\ FlattenSeq(s) = f[Len(s)]
        BY <1>2, FlattenJoins
    <2>2. Len(s) \in 1..Len(s)
        BY <1>2, EmptySeq
    <2>3. QED
        BY <2>1, <2>2, JoinType
<1>3. QED
    BY <1>1, <1>2

LEMMA FlattenAppend ==
    ASSUME NEW S, NEW s \in Seq(Seq(S)), NEW x \in Seq(S)
    PROVE  FlattenSeq(Append(s, x)) = FlattenSeq(s) \o x
<1> DEFINE t == Append(s, x)
<1>1. /\ Len(s) \in Nat /\ t \in Seq(Seq(S)) /\ t # <<>> /\ Len(t) = Len(s) + 1
      /\ t[Len(t)] = x /\ \A i \in 1..Len(s) : t[i] = s[i]
    BY AppendProperties, LenProperties
<1> HIDE DEF t
<1>2. PICK g : Joins(t, Len(t), g) /\ FlattenSeq(t) = g[Len(t)]
    BY <1>1, FlattenJoins
<1>3. g[Len(t)] = IF Len(t) = 1 THEN x ELSE g[Len(s)] \o x
    <2>1. Len(t) \in Nat /\ Len(t) \in 1..Len(t) /\ Len(t) - 1 = Len(s)
        BY <1>1
    <2>2. QED
        BY <1>1, <1>2, <2>1, JoinUnfolds
<1>4. CASE s = <<>>
    <2>1. FlattenSeq(s) = <<>> /\ Len(s) = 0
        BY <1>4, EmptySeq DEF FlattenSeq
    <2>2. FlattenSeq(t) = x
        BY <1>1, <1>2, <1>3, <2>1
    <2>3. QED
        BY <2>1, <2>2, ConcatEmptySeq DEF t
<1>5. CASE s # <<>>
    <2>1. PICK f : Joins(s, Len(s), f) /\ FlattenSeq(s) = f[Len(s)]
        BY <1>5, FlattenJoins
    <2>2. Len(s) \in 1..Len(s) /\ Len(t) # 1 /\ Len(t) \in Nat /\ Len(s) <= Len(t)
        BY <1>1, <1>5, EmptySeq
    <2>3. f[Len(s)] = g[Len(s)]
        <3>1. \A i \in 1..Len(s) : s[i] = t[i]
            BY <1>1
        <3>2. \A i \in 1..Len(s) : f[i] = g[i]
            <4> DEFINE m == Len(s)  n == Len(t)
            <4>1. m \in Nat /\ n \in Nat /\ m <= n
                BY <1>1, <2>2
            <4>2. Joins(s, m, f) /\ Joins(t, n, g) /\ \A i \in 1..m : s[i] = t[i]
                BY <1>2, <2>1, <3>1
            <4> HIDE DEF m, n
            <4>3. \A i \in 1..m : f[i] = g[i]
                BY <4>1, <4>2, JoinsAgree
            <4>4. QED
                BY <4>3 DEF m
        <3>3. QED
            BY <2>2, <3>2
    <2>4. FlattenSeq(t) = FlattenSeq(s) \o x
        BY <1>2, <1>3, <2>1, <2>2, <2>3
    <2>5. QED
        BY <2>4 DEF t
<1>6. QED
    BY <1>4, <1>5

LEMMA ConcatAgain ==
    ASSUME NEW S, NEW a \in Seq(S), NEW b \in Seq(S), NEW c \in Seq(S)
    PROVE  (a \o b) \o c = a \o (b \o c)
  OBVIOUS

LEMMA ConcatOfAppend ==
    ASSUME NEW S, NEW s \in Seq(S), NEW t \in Seq(S), NEW x \in S
    PROVE  s \o Append(t, x) = Append(s \o t, x)
<1>1. <<x>> \in Seq(S) /\ s \o t \in Seq(S)
    BY ConcatProperties
<1>2. (s \o t) \o <<x>> = s \o (t \o <<x>>)
    BY <1>1, ConcatAgain
<1>3. Append(t, x) = t \o <<x>> /\ Append(s \o t, x) = (s \o t) \o <<x>>
    BY <1>1, AppendIsConcat
<1>4. QED
    BY <1>2, <1>3, Zenon

LEMMA FlattenConcat ==
    ASSUME NEW S, NEW s \in Seq(Seq(S)), NEW t \in Seq(Seq(S))
    PROVE  FlattenSeq(s \o t) = FlattenSeq(s) \o FlattenSeq(t)
<1> DEFINE T == {u \in Seq(Seq(S)) : FlattenSeq(s \o u) = FlattenSeq(s) \o FlattenSeq(u)}
<1>1. FlattenSeq(s) \in Seq(S)
    BY FlattenType
<1>2. <<>> \in T
    <2>1. FlattenSeq(<<>>) = <<>> /\ <<>> \in Seq(Seq(S))
        BY EmptySeq DEF FlattenSeq
    <2>2. QED
        BY <1>1, <2>1, ConcatEmptySeq
<1>3. ASSUME NEW u \in T, NEW x \in Seq(S)
      PROVE  Append(u, x) \in T
    <2>1. /\ u \in Seq(Seq(S)) /\ s \o u \in Seq(Seq(S)) /\ Append(u, x) \in Seq(Seq(S))
          /\ FlattenSeq(u) \in Seq(S)
        BY ConcatProperties, AppendProperties, FlattenType
    <2>2. s \o Append(u, x) = Append(s \o u, x)
        <3> DEFINE R == Seq(S)
        <3>1. s \in Seq(R) /\ u \in Seq(R) /\ x \in R
            BY <2>1
        <3> HIDE DEF T, R
        <3>2. QED
            BY <3>1, ConcatOfAppend
    <2>3. FlattenSeq(s \o Append(u, x)) = (FlattenSeq(s) \o FlattenSeq(u)) \o x
        <3> DEFINE w == s \o u
        <3>1. w \in Seq(Seq(S)) /\ s \o Append(u, x) = Append(w, x)
            BY <2>1, <2>2
        <3>2. FlattenSeq(w) = FlattenSeq(s) \o FlattenSeq(u)
            OBVIOUS
        <3> HIDE DEF T, w
        <3>3. FlattenSeq(Append(w, x)) = FlattenSeq(w) \o x
            BY <3>1, FlattenAppend
        <3>4. QED
            BY <3>1, <3>2, <3>3
    <2>4. FlattenSeq(Append(u, x)) = FlattenSeq(u) \o x
        <3> HIDE DEF T
        <3>1. QED
            BY <2>1, FlattenAppend
    <2>5. (FlattenSeq(s) \o FlattenSeq(u)) \o x = FlattenSeq(s) \o (FlattenSeq(u) \o x)
        <3> DEFINE a == FlattenSeq(s)
                   b == FlattenSeq(u)
        <3>1. a \in Seq(S) /\ b \in Seq(S) /\ x \in Seq(S)
            BY <1>1, <2>1
        <3> HIDE DEF a, b, T
        <3>2. (a \o b) \o x = a \o (b \o x)
            BY ONLY <3>1, SMTT(30)
        <3>3. QED
            BY <3>2 DEF a, b
    <2>6. QED
        BY <2>1, <2>3, <2>4, <2>5
<1>4. T = Seq(Seq(S))
    <2>1. T \in SUBSET Seq(Seq(S))
        OBVIOUS
    <2> HIDE DEF T
    <2>2. QED
        BY <1>2, <1>3, <2>1, SequenceInduction
<1>5. QED
    BY <1>4

-------------------------------------------------------------------------------
(***************************************************************************)
(* Places.                                                                 *)
(***************************************************************************)
\* An element stands where it is in the value it belongs to.
LEMMA ChildrenType ==
    ASSUME NEW node \in Nodes
    PROVE  /\ Children(node) \in Seq(AllElements)
           /\ DOMAIN Children(node) = 1..Len(Children(node))
           /\ \A i \in 1..Len(Children(node)) : Children(node)[i].index = i
           /\ node.kind \notin {"object", "array"} => Children(node) = <<>>
<1> DEFINE c == Children(node)
<1>1. \E n \in Nat : DOMAIN c = 1..n /\ (\A i \in 1..n : c[i].index = i)
                      /\ c = [i \in 1..n |-> c[i]]
    <2>1. CASE node.kind = "object"
        <3>1. node.members \in Seq([name : Seq(Segments), node : Nodes])
            BY <2>1, NodesAssumption
        <3>2. DOMAIN node.members = 1..Len(node.members) /\ Len(node.members) \in Nat
            BY <3>1, LenProperties
        <3>3. c = [i \in 1..Len(node.members) |->
                     [index |-> i, name |-> node.members[i].name, node |-> node.members[i].node]]
            BY <2>1, <3>2 DEF Children
        <3>4. QED
            BY <3>2, <3>3
    <2>2. CASE node.kind = "array"
        <3>1. node.items \in Seq(Nodes)
            BY <2>2, NodesAssumption
        <3>2. DOMAIN node.items = 1..Len(node.items) /\ Len(node.items) \in Nat
            BY <3>1, LenProperties
        <3>3. c = [i \in 1..Len(node.items) |->
                     [index |-> i, name |-> <<Digits[i]>>, node |-> node.items[i]]]
            BY <2>2, <3>2 DEF Children
        <3>4. QED
            BY <3>2, <3>3
    <2>3. CASE node.kind \notin {"object", "array"}
        <3>1. c = <<>>
            BY <2>3 DEF Children
        <3>2. c = [i \in 1..0 |-> c[i]]
            BY <3>1
        <3>3. QED
            BY <3>1, <3>2
    <2>4. QED
        BY <2>1, <2>2, <2>3
<1>2. PICK n \in Nat : /\ DOMAIN c = 1..n /\ (\A i \in 1..n : c[i].index = i)
                        /\ c = [i \in 1..n |-> c[i]]
    BY <1>1
<1>3. node.kind \notin {"object", "array"} => c = <<>>
    BY DEF Children
<1> HIDE DEF c
<1>4. \A i \in 1..n : c[i] \in AllElements
    BY <1>2 DEF AllElements, ToSet, c
<1>5. c \in [1..n -> AllElements]
    BY <1>2, <1>4
<1>6. c \in Seq(AllElements)
    BY <1>5, SeqDef
<1>7. Len(c) = n
    <2>1. DOMAIN c = 1..Len(c) /\ Len(c) \in Nat
        BY <1>6, LenProperties
    <2>2. QED
        BY <1>2, <2>1
<1>8. QED
    BY <1>2, <1>3, <1>6, <1>7 DEF c

LEMMA ElementType ==
    ASSUME NEW e \in AllElements
    PROVE  e.name \in Seq(Segments) /\ e.node \in Nodes
<1>1. PICK node \in Nodes : e \in ToSet(Children(node))
    BY DEF AllElements
<1>2. PICK i \in DOMAIN Children(node) : e = Children(node)[i]
    BY <1>1 DEF ToSet
<1>3. CASE node.kind = "object"
    <2>1. /\ node.members \in Seq([name : Seq(Segments), node : Nodes])
          /\ i \in DOMAIN node.members
          /\ e = [index |-> i, name |-> node.members[i].name, node |-> node.members[i].node]
        BY <1>2, <1>3, NodesAssumption DEF Children
    <2>2. node.members[i] \in [name : Seq(Segments), node : Nodes]
        <3> DEFINE Members == [name : Seq(Segments), node : Nodes]
                   members == node.members
        <3>1. members \in Seq(Members) /\ i \in DOMAIN members
            BY <2>1
        <3> HIDE DEF Members, members
        <3>2. members[i] \in Members
            BY <3>1, LenProperties
        <3>3. QED
            BY <3>2 DEF Members, members
    <2>3. QED
        BY <2>1, <2>2
<1>4. CASE node.kind = "array"
    <2>1. /\ node.items \in Seq(Nodes) /\ Len(node.items) <= Len(Digits)
          /\ i \in DOMAIN node.items
          /\ e = [index |-> i, name |-> <<Digits[i]>>, node |-> node.items[i]]
        BY <1>2, <1>4, NodesAssumption DEF Children
    <2>2. node.items[i] \in Nodes /\ i \in 1..Len(node.items) /\ Len(node.items) \in Nat
        BY <2>1, LenProperties
    <2>3. Len(Digits) \in Nat /\ Digits \in Seq(Segments)
        BY NodesAssumption, LenProperties
    <2>4. Digits[i] \in Segments
        BY <2>1, <2>2, <2>3, ElementOfSeq
    <2>5. <<Digits[i]>> \in Seq(Segments)
        BY <2>4
    <2>6. QED
        BY <2>1, <2>2, <2>5
<1>5. CASE node.kind \notin {"object", "array"}
    <2>1. Children(node) = <<>>
        BY <1>5, ChildrenType
    <2>2. QED
        BY <1>2, <2>1
<1>6. QED
    BY <1>3, <1>4, <1>5

Places(d) == {p \in Seq(AllElements) : IsPlace(d, p)}

\* One more element, and one less.
LEMMA Deeper ==
    ASSUME NEW d \in Nodes, NEW p \in Seq(AllElements), NEW e \in AllElements
    PROVE  /\ NodeAt(d, Append(p, e)) = e.node
           /\ Append(p, e) \in Places(d)
                 <=> p \in Places(d) /\ e \in ToSet(Children(NodeAt(d, p)))
<1> DEFINE q == Append(p, e)
<1>1. /\ Len(p) \in Nat /\ DOMAIN p = 1..Len(p)
      /\ q \in Seq(AllElements) /\ q # <<>> /\ Len(q) = Len(p) + 1
      /\ q[Len(p) + 1] = e /\ \A i \in 1..Len(p) : q[i] = p[i]
    BY AppendProperties, LenProperties
<1>2. DOMAIN q = 1..(Len(p) + 1)
    BY <1>1, LenProperties
<1>3. p = <<>> <=> Len(p) = 0
    BY EmptySeq
<1> HIDE DEF q
<1>4. NodeAt(d, q) = e.node
    BY <1>1 DEF NodeAt, Last
<1>5. NodeAt(d, p) = IF Len(p) + 1 = 1 THEN d ELSE q[Len(p) + 1 - 1].node
    BY <1>1, <1>3 DEF NodeAt, Last
<1> DEFINE Above(r, i) == ToSet(Children(IF i = 1 THEN d ELSE r[i - 1].node))
<1>6. \A i \in 1..Len(p) : Above(q, i) = Above(p, i)
    <2>1. \A i \in 1..Len(p) : i # 1 => q[i - 1] = p[i - 1]
        BY <1>1
    <2>2. QED
        BY <2>1
<1>7. Above(q, Len(p) + 1) = ToSet(Children(NodeAt(d, p)))
    BY <1>5
<1>8. IsPlace(d, q) <=> \A i \in 1..(Len(p) + 1) : q[i] \in Above(q, i)
    BY <1>2 DEF IsPlace
<1>9. IsPlace(d, p) <=> \A i \in 1..Len(p) : p[i] \in Above(p, i)
    BY <1>1 DEF IsPlace
<1> HIDE DEF Above
<1>10. IsPlace(d, q) <=> IsPlace(d, p) /\ e \in ToSet(Children(NodeAt(d, p)))
    BY <1>1, <1>6, <1>7, <1>8, <1>9
<1>11. QED
    BY <1>1, <1>4, <1>10 DEF Places, q

LEMMA NodeType ==
    ASSUME NEW d \in Nodes, NEW p \in Seq(AllElements)
    PROVE  NodeAt(d, p) \in Nodes
<1>1. p # <<>> => Last(p) \in AllElements
    BY LenProperties, EmptySeq DEF Last
<1>2. QED
    BY <1>1, ElementType DEF NodeAt

\* A document has no place deeper than its depth, so Leaves has them all.
LEMMA LeavesAreAll ==
    ASSUME NEW d \in Documents
    PROVE  Leaves(d) = {p \in Places(d) : p # <<>> /\ NodeAt(d, p).kind = "scalar"}
<1>1. ASSUME NEW p \in Places(d)
      PROVE  p \in BoundedSeq(AllElements, MaxDepth)
    <2>1. /\ p \in [1..Len(p) -> AllElements] /\ Len(p) \in Nat /\ DOMAIN p = 1..Len(p)
          /\ IsPlace(d, p)
        BY LenProperties DEF Places
    <2>2. Len(p) <= MaxDepth
        <3>1. SUFFICES ASSUME ~(Len(p) <= MaxDepth)
                       PROVE  FALSE
            OBVIOUS
        <3> DEFINE q == [i \in 1..(MaxDepth + 1) |-> p[i]]
        <3>2. 1..(MaxDepth + 1) \subseteq 1..Len(p)
            BY <2>1, <3>1, DepthAssumption
        <3>3. q \in [1..(MaxDepth + 1) -> AllElements] /\ DOMAIN q = 1..(MaxDepth + 1)
            BY <2>1, <3>2
        <3>4. \A i \in 1..(MaxDepth + 1) : q[i] = p[i] /\ (i # 1 => q[i - 1] = p[i - 1])
            BY <2>1, <3>2, DepthAssumption
        <3> HIDE DEF q
        <3>5. IsPlace(d, q)
            BY <2>1, <3>2, <3>3, <3>4 DEF IsPlace
        <3>6. QED
            BY <3>3, <3>5, DepthAssumption
    <2>3. Len(p) \in 0..MaxDepth
        BY <2>1, <2>2, DepthAssumption
    <2>4. QED
        BY <2>1, <2>3 DEF BoundedSeq, SeqOf
<1>2. BoundedSeq(AllElements, MaxDepth) \subseteq Seq(AllElements)
    BY SeqDef, DepthAssumption DEF BoundedSeq, SeqOf
<1>3. \A p : p # <<>> => NodeAt(d, p) = Last(p).node
    BY DEF NodeAt
<1>4. QED
    BY <1>1, <1>2, <1>3 DEF Leaves, Places

\* One place leads to another if the way to the other passes through it.
Leads(p, q) == Len(p) <= Len(q) /\ \A i \in 1..Len(p) : q[i] = p[i]

LEMMA LeadsDeeper ==
    ASSUME NEW p \in Seq(AllElements), NEW q \in Seq(AllElements), NEW e \in AllElements
    PROVE  /\ Leads(Append(p, e), q) <=> Leads(p, q) /\ Len(p) < Len(q) /\ q[Len(p) + 1] = e
           /\ Leads(q, Append(p, e)) <=> Leads(q, p) \/ q = Append(p, e)
           /\ Leads(p, p)
           /\ Leads(p, q) /\ ~(Len(p) < Len(q)) => p = q
<1> DEFINE r == Append(p, e)
<1>1. /\ Len(p) \in Nat /\ Len(q) \in Nat /\ r \in Seq(AllElements)
      /\ Len(r) = Len(p) + 1 /\ r[Len(p) + 1] = e /\ \A i \in 1..Len(p) : r[i] = p[i]
    BY AppendProperties, LenProperties
<1> HIDE DEF r
<1>2. Leads(r, q) <=> Leads(p, q) /\ Len(p) < Len(q) /\ q[Len(p) + 1] = e
    BY <1>1 DEF Leads
<1>3. Leads(p, p)
    BY <1>1 DEF Leads
<1>4. ASSUME Leads(p, q), ~(Len(p) < Len(q))
      PROVE  p = q
    <2>1. Len(p) = Len(q) /\ \A i \in 1..Len(p) : p[i] = q[i]
        BY <1>1, <1>4 DEF Leads
    <2>2. QED
        BY <2>1, SeqEqual
<1>5. ASSUME Leads(q, r)
      PROVE  Leads(q, p) \/ q = r
    <2>1. CASE Len(q) <= Len(p)
        BY <1>1, <1>5, <2>1 DEF Leads
    <2>2. CASE ~(Len(q) <= Len(p))
        <3>1. Len(q) = Len(r) /\ \A i \in 1..Len(q) : q[i] = r[i]
            BY <1>1, <1>5, <2>2 DEF Leads
        <3>2. QED
            BY <1>1, <3>1, SeqEqual
    <2>3. QED
        BY <2>1, <2>2
<1>6. Leads(q, p) => Leads(q, r)
    BY <1>1 DEF Leads
<1>7. q = r => Leads(q, r)
    BY <1>1 DEF Leads
<1>8. QED
    BY <1>2, <1>3, <1>4, <1>5, <1>6, <1>7 DEF r

\* From a place on the way to another the way goes on through one of its children.
LEMMA WayGoesOn ==
    ASSUME NEW d \in Nodes, NEW p \in Places(d), NEW q \in Places(d), Leads(p, q), Len(p) < Len(q)
    PROVE  q[Len(p) + 1] \in ToSet(Children(NodeAt(d, p)))
<1>1. /\ Len(p) \in Nat /\ Len(q) \in Nat /\ DOMAIN q = 1..Len(q) /\ (p = <<>> <=> Len(p) = 0)
    BY LenProperties, EmptySeq DEF Places
<1>2. Len(p) + 1 \in DOMAIN q
    BY <1>1
<1>3. q[Len(p) + 1] \in ToSet(Children(IF Len(p) + 1 = 1 THEN d ELSE q[Len(p) + 1 - 1].node))
    <2>1. \A i \in DOMAIN q : q[i] \in ToSet(Children(IF i = 1 THEN d ELSE q[i - 1].node))
        BY DEF Places, IsPlace
    <2> DEFINE k == Len(p) + 1
    <2>2. k \in DOMAIN q
        BY <1>2
    <2> HIDE DEF k
    <2>3. q[k] \in ToSet(Children(IF k = 1 THEN d ELSE q[k - 1].node))
        BY <2>1, <2>2, Zenon
    <2>4. QED
        BY <2>3 DEF k
<1>4. Len(p) + 1 - 1 = Len(p) /\ (Len(p) + 1 = 1 <=> p = <<>>) /\ (p # <<>> => q[Len(p)] = p[Len(p)])
    BY <1>1 DEF Leads
<1>5. QED
    BY <1>3, <1>4 DEF NodeAt, Last

\* The names on the way to a place.
Names(p) == [i \in DOMAIN p |-> p[i].name]

LEMMA NamesType ==
    ASSUME NEW p \in Seq(AllElements)
    PROVE  Names(p) \in Seq(Seq(Segments)) /\ Key(p) = FlattenSeq(Names(p)) /\ Key(p) \in Seq(Segments)
<1>1. Len(p) \in Nat /\ DOMAIN p = 1..Len(p) /\ \A i \in 1..Len(p) : p[i] \in AllElements
    BY LenProperties
<1>2. \A i \in 1..Len(p) : p[i].name \in Seq(Segments)
    BY <1>1, ElementType
<1>3. Names(p) \in [1..Len(p) -> Seq(Segments)]
    BY <1>1, <1>2 DEF Names
<1>4. Names(p) \in Seq(Seq(Segments))
    BY <1>1, <1>3, SeqDef
<1>5. QED
    BY <1>4, FlattenType DEF Key, Names

LEMMA NamesDeeper ==
    ASSUME NEW p \in Seq(AllElements), NEW e \in AllElements
    PROVE  Names(Append(p, e)) = Append(Names(p), e.name)
<1> DEFINE q == Append(p, e)
<1>1. /\ Len(p) \in Nat /\ DOMAIN p = 1..Len(p) /\ q \in Seq(AllElements)
      /\ Len(q) = Len(p) + 1 /\ q[Len(p) + 1] = e /\ \A i \in 1..Len(p) : q[i] = p[i]
    BY AppendProperties, LenProperties
<1>2. DOMAIN q = 1..(Len(p) + 1)
    BY <1>1, LenProperties
<1> HIDE DEF q
<1> DEFINE n == Names(p)
           m == Append(n, e.name)
<1>3. /\ n \in Seq(Seq(Segments)) /\ e.name \in Seq(Segments) /\ DOMAIN n = 1..Len(p)
      /\ \A i \in 1..Len(p) : n[i] = p[i].name
    BY <1>1, NamesType, ElementType DEF Names
<1> HIDE DEF n
<1>4. Len(n) = Len(p)
    <2>1. DOMAIN n = 1..Len(n) /\ Len(n) \in Nat
        BY <1>3, LenProperties
    <2>2. QED
        BY <1>1, <1>3, <2>1
<1>5. /\ m \in Seq(Seq(Segments)) /\ Len(m) = Len(p) + 1 /\ m[Len(p) + 1] = e.name
      /\ \A i \in 1..Len(p) : m[i] = p[i].name
    BY <1>3, <1>4, AppendProperties
<1>6. DOMAIN m = 1..(Len(p) + 1)
    BY <1>5, LenProperties
<1> HIDE DEF m
<1>7. m = [i \in 1..(Len(p) + 1) |-> m[i]]
    BY <1>5, <1>6, LenProperties
<1>8. \A i \in 1..(Len(p) + 1) : m[i] = q[i].name
    <2>1. \A i \in 1..Len(p) : m[i] = q[i].name
        BY <1>1, <1>5
    <2>2. m[Len(p) + 1] = q[Len(p) + 1].name
        BY <1>1, <1>5
    <2>3. \A i \in 1..(Len(p) + 1) : i \in 1..Len(p) \/ i = Len(p) + 1
        BY <1>1
    <2>4. QED
        BY <2>1, <2>2, <2>3, Zenon
<1>9. Names(q) = m
    BY <1>2, <1>7, <1>8 DEF Names
<1>10. QED
    BY <1>9 DEF m, n, q

-------------------------------------------------------------------------------
(***************************************************************************)
(* The calls still to make.                                                *)
(***************************************************************************)
CallTypes == [call : {"enter", "visit", "exit"}, at : Seq(AllElements) \ {<<>>}]
Todo == Seq(CallTypes)

\* The place whose names are on the stack before a call, and after it with
\* everything it calls.
Before(c) == IF c.call = "enter" THEN Front(c.at) ELSE c.at
After(c)  == IF c.call = "visit" THEN c.at ELSE Front(c.at)

\* Before the first of the calls t, which leave the stack at end.
Start(t, end) == IF t = <<>> THEN end ELSE Before(t[1])

Chained(t, end) ==
    \A i \in DOMAIN t : After(t[i]) = IF i = Len(t) THEN end ELSE Before(t[i + 1])

\* No place is visited by two calls.
Apart(t) ==
    \A i, j \in DOMAIN t : i # j /\ t[i].call # "exit" /\ t[j].call # "exit"
                              => ~Leads(t[i].at, t[j].at)

\* One of the calls t visits place p.
Pending(t, p) == \E i \in DOMAIN t : t[i].call # "exit" /\ Leads(t[i].at, p)

Visited == {p \in Leaves(input) : ~Pending(todo, p)}

\* The state in the middle of a visit.
Visiting ==
    /\ Readable(input)
    /\ Chained(todo, <<>>)
    /\ context = residue \o Names(Start(todo, <<>>))
    /\ Apart(todo)
    /\ data = Entries(FlattenSeq(residue), Visited)
    /\ \A p, q \in Visited : Key(p) = Key(q) => p = q

\* The inductive invariant.
IInv ==
    /\ TypeOK
    /\ phase = "visiting" => Visiting
    /\ ReturnsTheLeaves
    /\ StackRestored
    /\ ThrowsOnlyOnAmbiguity

\* Of two lists of calls, one after the other.
LEMMA ConcatIndices ==
    ASSUME NEW S, NEW u \in Seq(S), NEW v \in Seq(S)
    PROVE  /\ Len(u) \in Nat /\ Len(v) \in Nat /\ Len(u \o v) = Len(u) + Len(v)
           /\ DOMAIN u = 1..Len(u) /\ DOMAIN v = 1..Len(v)
           /\ DOMAIN (u \o v) = 1..(Len(u) + Len(v))
           /\ \A i \in 1..Len(u) : (u \o v)[i] = u[i]
           /\ \A i \in 1..Len(v) : (u \o v)[Len(u) + i] = v[i]
           /\ \A i \in 1..(Len(u) + Len(v)) :
                 i \in 1..Len(u) \/ \E j \in 1..Len(v) : i = Len(u) + j
<1>1. u \o v \in Seq(S) /\ Len(u) \in Nat /\ Len(v) \in Nat
    BY ConcatProperties, LenProperties
<1>2. /\ Len(u \o v) = Len(u) + Len(v)
      /\ \A i \in 1..(Len(u) + Len(v)) : (u \o v)[i] = IF i <= Len(u) THEN u[i] ELSE v[i - Len(u)]
    BY ConcatProperties
<1>3. /\ DOMAIN u = 1..Len(u) /\ DOMAIN v = 1..Len(v)
      /\ DOMAIN (u \o v) = 1..(Len(u) + Len(v))
    BY <1>1, <1>2, LenProperties
<1>4. \A i \in 1..Len(u) : (u \o v)[i] = u[i]
    BY <1>1, <1>2
<1>5. \A i \in 1..Len(v) : (u \o v)[Len(u) + i] = v[i]
    <2>1. ASSUME NEW i \in 1..Len(v)
          PROVE  (u \o v)[Len(u) + i] = v[i]
        <3> DEFINE k == Len(u) + i
        <3>1. k \in 1..(Len(u) + Len(v)) /\ ~(k <= Len(u)) /\ k - Len(u) = i
            BY <1>1
        <3> HIDE DEF k
        <3>2. (u \o v)[k] = v[i]
            BY <1>2, <3>1
        <3>3. QED
            BY <3>2 DEF k
    <2>2. QED
        BY <2>1
<1>6. ASSUME NEW i \in 1..(Len(u) + Len(v))
      PROVE  i \in 1..Len(u) \/ \E j \in 1..Len(v) : i = Len(u) + j
    <2>1. CASE i <= Len(u)
        BY <1>1, <2>1
    <2>2. CASE ~(i <= Len(u))
        <3>1. i - Len(u) \in 1..Len(v) /\ i = Len(u) + (i - Len(u))
            BY <1>1, <2>2
        <3>2. QED
            BY <3>1
    <2>3. QED
        BY <2>1, <2>2
<1>7. QED
    BY <1>1, <1>2, <1>3, <1>4, <1>5, <1>6

LEMMA PendingConcat ==
    ASSUME NEW u \in Todo, NEW v \in Todo, NEW p
    PROVE  Pending(u \o v, p) <=> Pending(u, p) \/ Pending(v, p)
<1> DEFINE w == u \o v
           Pends(c) == c.call # "exit" /\ Leads(c.at, p)
<1>1. /\ Len(u) \in Nat /\ Len(v) \in Nat
      /\ DOMAIN u = 1..Len(u) /\ DOMAIN v = 1..Len(v) /\ DOMAIN w = 1..(Len(u) + Len(v))
      /\ \A i \in 1..Len(u) : w[i] = u[i]
      /\ \A i \in 1..Len(v) : w[Len(u) + i] = v[i]
      /\ \A i \in 1..(Len(u) + Len(v)) :
            i \in 1..Len(u) \/ \E j \in 1..Len(v) : i = Len(u) + j
    BY ConcatIndices DEF Todo
<1>2. \A t : Pending(t, p) <=> \E i \in DOMAIN t : Pends(t[i])
    BY DEF Pending
<1> HIDE DEF w, Pends
<1>3. ASSUME NEW i \in DOMAIN w, Pends(w[i])
      PROVE  (\E j \in DOMAIN u : Pends(u[j])) \/ (\E j \in DOMAIN v : Pends(v[j]))
    <2>1. CASE i \in 1..Len(u)
        BY <1>1, <1>3, <2>1
    <2>2. CASE \E j \in 1..Len(v) : i = Len(u) + j
        BY <1>1, <1>3, <2>2
    <2>3. QED
        BY <1>1, <2>1, <2>2
<1>4. ASSUME NEW j \in DOMAIN u, Pends(u[j])
      PROVE  \E i \in DOMAIN w : Pends(w[i])
    <2>1. j \in DOMAIN w /\ w[j] = u[j]
        BY <1>1
    <2>2. QED
        BY <1>4, <2>1
<1>5. ASSUME NEW j \in DOMAIN v, Pends(v[j])
      PROVE  \E i \in DOMAIN w : Pends(w[i])
    <2>1. Len(u) + j \in DOMAIN w /\ w[Len(u) + j] = v[j]
        BY <1>1
    <2>2. QED
        BY <1>5, <2>1
<1>6. Pending(w, p) <=> Pending(u, p) \/ Pending(v, p)
    BY <1>2, <1>3, <1>4, <1>5, Zenon
<1>7. QED
    BY <1>6 DEF w

Across(u, v) ==
    \A i \in DOMAIN u : \A j \in DOMAIN v :
        u[i].call # "exit" /\ v[j].call # "exit"
            => ~Leads(u[i].at, v[j].at) /\ ~Leads(v[j].at, u[i].at)

LEMMA ApartConcat ==
    ASSUME NEW u \in Todo, NEW v \in Todo
    PROVE  Apart(u \o v) <=> Apart(u) /\ Apart(v) /\ Across(u, v)
<1> DEFINE w == u \o v
           Meet(c, d) == c.call # "exit" /\ d.call # "exit" /\ Leads(c.at, d.at)
<1>1. /\ Len(u) \in Nat /\ Len(v) \in Nat
      /\ DOMAIN u = 1..Len(u) /\ DOMAIN v = 1..Len(v) /\ DOMAIN w = 1..(Len(u) + Len(v))
      /\ \A i \in 1..Len(u) : w[i] = u[i]
      /\ \A i \in 1..Len(v) : w[Len(u) + i] = v[i]
      /\ \A i \in 1..(Len(u) + Len(v)) :
            i \in 1..Len(u) \/ \E j \in 1..Len(v) : i = Len(u) + j
    BY ConcatIndices DEF Todo
<1>2. /\ \A t : Apart(t) <=> \A i, j \in DOMAIN t : i # j => ~Meet(t[i], t[j])
      /\ Across(u, v) <=> \A i \in DOMAIN u : \A j \in DOMAIN v :
                             ~Meet(u[i], v[j]) /\ ~Meet(v[j], u[i])
    BY DEF Apart, Across
<1> HIDE DEF w, Meet
<1>3. ASSUME \A i, j \in DOMAIN w : i # j => ~Meet(w[i], w[j])
      PROVE  /\ \A i, j \in DOMAIN u : i # j => ~Meet(u[i], u[j])
             /\ \A i, j \in DOMAIN v : i # j => ~Meet(v[i], v[j])
             /\ \A i \in DOMAIN u : \A j \in DOMAIN v : ~Meet(u[i], v[j]) /\ ~Meet(v[j], u[i])
    <2>1. \A i \in DOMAIN u : i \in DOMAIN w /\ w[i] = u[i]
        BY <1>1
    <2>2. \A i \in DOMAIN v : Len(u) + i \in DOMAIN w /\ w[Len(u) + i] = v[i]
        BY <1>1
    <2>3. /\ \A i, j \in DOMAIN v : i # j => Len(u) + i # Len(u) + j
          /\ \A i \in DOMAIN u : \A j \in DOMAIN v : i # Len(u) + j
        BY <1>1
    <2>4. \A i, j \in DOMAIN u : i # j => ~Meet(u[i], u[j])
        BY <1>3, <2>1, Zenon
    <2>5. \A i, j \in DOMAIN v : i # j => ~Meet(v[i], v[j])
        BY <1>3, <2>2, <2>3, Zenon
    <2>6. \A i \in DOMAIN u : \A j \in DOMAIN v : ~Meet(u[i], v[j]) /\ ~Meet(v[j], u[i])
        BY <1>3, <2>1, <2>2, <2>3, Zenon
    <2>7. QED
        BY <2>4, <2>5, <2>6
<1>4. ASSUME \A i, j \in DOMAIN u : i # j => ~Meet(u[i], u[j]),
             \A i, j \in DOMAIN v : i # j => ~Meet(v[i], v[j]),
             \A i \in DOMAIN u : \A j \in DOMAIN v : ~Meet(u[i], v[j]) /\ ~Meet(v[j], u[i]),
             NEW i \in DOMAIN w, NEW j \in DOMAIN w, i # j
      PROVE  ~Meet(w[i], w[j])
    <2>1. \A k \in DOMAIN w : \/ k \in DOMAIN u /\ w[k] = u[k]
                              \/ \E l \in DOMAIN v : k = Len(u) + l /\ w[k] = v[l]
        <3>1. ASSUME NEW k \in DOMAIN w
              PROVE  \/ k \in DOMAIN u /\ w[k] = u[k]
                     \/ \E l \in DOMAIN v : k = Len(u) + l /\ w[k] = v[l]
            <4>1. CASE k \in 1..Len(u)
                BY <1>1, <4>1
            <4>2. CASE \E l \in 1..Len(v) : k = Len(u) + l
                BY <1>1, <4>2
            <4>3. QED
                BY <1>1, <4>1, <4>2
        <3>2. QED
            BY <3>1
    <2>2. CASE i \in DOMAIN u /\ w[i] = u[i]
        <3>1. CASE j \in DOMAIN u /\ w[j] = u[j]
            BY <1>4, <2>2, <3>1
        <3>2. CASE \E l \in DOMAIN v : j = Len(u) + l /\ w[j] = v[l]
            BY <1>4, <2>2, <3>2
        <3>3. QED
            BY <2>1, <3>1, <3>2
    <2>3. CASE \E l \in DOMAIN v : i = Len(u) + l /\ w[i] = v[l]
        <3>1. CASE j \in DOMAIN u /\ w[j] = u[j]
            BY <1>4, <2>3, <3>1
        <3>2. CASE \E l \in DOMAIN v : j = Len(u) + l /\ w[j] = v[l]
            BY <1>4, <2>3, <3>2
        <3>3. QED
            BY <2>1, <3>1, <3>2
    <2>4. QED
        BY <2>1, <2>2, <2>3
<1>5. Apart(w) <=> Apart(u) /\ Apart(v) /\ Across(u, v)
    <2>1. CASE Apart(w)
        BY <1>2, <1>3, <2>1, Zenon
    <2>2. CASE Apart(u) /\ Apart(v) /\ Across(u, v)
        <3>1. \A i, j \in DOMAIN w : i # j => ~Meet(w[i], w[j])
            BY <1>2, <1>4, <2>2, Zenon
        <3>2. QED
            BY <1>2, <2>2, <3>1, Zenon
    <2>3. QED
        BY <2>1, <2>2
<1>6. QED
    BY <1>5 DEF w

LEMMA ChainedConcat ==
    ASSUME NEW u \in Todo, NEW v \in Todo, NEW end
    PROVE  /\ Start(u \o v, end) = Start(u, Start(v, end))
           /\ Chained(u \o v, end) <=> Chained(u, Start(v, end)) /\ Chained(v, end)
<1> DEFINE w == u \o v
           mid == Start(v, end)
           Next_(t, i, e) == IF i = Len(t) THEN e ELSE Before(t[i + 1])
<1>1. /\ Len(u) \in Nat /\ Len(v) \in Nat /\ Len(w) = Len(u) + Len(v)
      /\ DOMAIN u = 1..Len(u) /\ DOMAIN v = 1..Len(v) /\ DOMAIN w = 1..(Len(u) + Len(v))
      /\ \A i \in 1..Len(u) : w[i] = u[i]
      /\ \A i \in 1..Len(v) : w[Len(u) + i] = v[i]
      /\ \A i \in 1..(Len(u) + Len(v)) :
            i \in 1..Len(u) \/ \E j \in 1..Len(v) : i = Len(u) + j
    BY ConcatIndices DEF Todo
<1>0. Len(u) \in Nat /\ Len(v) \in Nat /\ Len(w) = Len(u) + Len(v)
    BY <1>1
<1>2. (u = <<>> <=> Len(u) = 0) /\ (v = <<>> <=> Len(v) = 0) /\ (w = <<>> <=> Len(w) = 0)
    <2>1. w \in Todo
        BY ConcatProperties DEF Todo
    <2>2. QED
        BY <2>1, EmptySeq DEF Todo
<1>3. mid = IF Len(v) = 0 THEN end ELSE Before(v[1])
    BY <1>2 DEF Start
<1> HIDE DEF w, mid
<1>4. Start(w, end) = Start(u, mid)
    <2>1. CASE Len(u) = 0
        <3>1. Len(v) # 0 => w[1] = v[1]
            <4>1. Len(v) # 0 => 1 \in 1..Len(v) /\ Len(u) + 1 = 1
                BY <1>1, <2>1
            <4>2. QED
                BY <1>1, <4>1
        <3>2. QED
            BY <1>1, <1>2, <1>3, <2>1, <3>1 DEF Start
    <2>2. CASE Len(u) # 0
        <3>1. w[1] = u[1] /\ w # <<>> /\ u # <<>>
            BY <1>1, <1>2, <2>2
        <3>2. QED
            BY <3>1 DEF Start
    <2>3. QED
        BY <2>1, <2>2
<1>5. ASSUME NEW i \in 1..Len(u)
      PROVE  w[i] = u[i] /\ Next_(w, i, end) = Next_(u, i, mid)
    <2>1. CASE i = Len(u)
        <3>1. CASE Len(v) = 0
            BY <1>1, <1>3, <2>1, <3>1
        <3>2. CASE Len(v) # 0
            <4>1. 1 \in 1..Len(v) /\ i # Len(w) /\ i + 1 = Len(u) + 1
                BY <1>0, <2>1, <3>2
            <4>2. w[i + 1] = v[1]
                BY <1>1, <4>1
            <4>3. QED
                BY <1>1, <1>3, <2>1, <3>2, <4>1, <4>2
        <3>3. QED
            BY <3>1, <3>2
    <2>2. CASE i # Len(u)
        <3>1. i + 1 \in 1..Len(u) /\ i # Len(w)
            BY <1>0, <2>2
        <3>2. QED
            BY <1>1, <2>2, <3>1
    <2>3. QED
        BY <2>1, <2>2
<1>6. ASSUME NEW j \in 1..Len(v)
      PROVE  w[Len(u) + j] = v[j] /\ Next_(w, Len(u) + j, end) = Next_(v, j, end)
    <2>1. CASE j = Len(v)
        BY <1>1, <2>1
    <2>2. CASE j # Len(v)
        <3>1. j + 1 \in 1..Len(v) /\ Len(u) + j # Len(w) /\ (Len(u) + j) + 1 = Len(u) + (j + 1)
            BY <1>0, <2>2
        <3>2. w[Len(u) + (j + 1)] = v[j + 1]
            BY <1>1, <3>1
        <3>3. QED
            BY <1>1, <2>2, <3>1, <3>2
    <2>3. QED
        BY <2>1, <2>2
<1>7. \A t, e : Chained(t, e) <=> \A i \in DOMAIN t : After(t[i]) = Next_(t, i, e)
    BY DEF Chained
<1> HIDE DEF Next_
<1>8. ASSUME Chained(w, end)
      PROVE  Chained(u, mid) /\ Chained(v, end)
    <2>1. \A i \in 1..Len(u) : i \in DOMAIN w
        BY <1>1
    <2>2. \A j \in 1..Len(v) : Len(u) + j \in DOMAIN w
        BY <1>1
    <2>3. \A i \in DOMAIN u : After(u[i]) = Next_(u, i, mid)
        BY <1>1, <1>5, <1>7, <1>8, <2>1
    <2>4. \A j \in DOMAIN v : After(v[j]) = Next_(v, j, end)
        BY <1>1, <1>6, <1>7, <1>8, <2>2
    <2>5. QED
        BY <1>7, <2>3, <2>4
<1>9. ASSUME Chained(u, mid), Chained(v, end)
      PROVE  Chained(w, end)
    <2>1. ASSUME NEW i \in DOMAIN w
          PROVE  After(w[i]) = Next_(w, i, end)
        <3>1. CASE i \in 1..Len(u)
            BY <1>1, <1>5, <1>7, <1>9, <3>1
        <3>2. CASE \E j \in 1..Len(v) : i = Len(u) + j
            BY <1>1, <1>6, <1>7, <1>9, <3>2
        <3>3. QED
            BY <1>1, <3>1, <3>2
    <2>2. QED
        BY <1>7, <2>1
<1>10. QED
    BY <1>4, <1>8, <1>9 DEF w, mid

LEMMA FrontAppend ==
    ASSUME NEW S, NEW s \in Seq(S), NEW x \in S
    PROVE  Front(Append(s, x)) = s /\ Last(Append(s, x)) = x
<1> DEFINE t == Append(s, x)
           f == SubSeq(t, 1, Len(s))
<1>1. /\ Len(s) \in Nat /\ t \in Seq(S) /\ Len(t) = Len(s) + 1
      /\ t[Len(s) + 1] = x /\ \A i \in 1..Len(s) : t[i] = s[i] /\ s[i] \in S
    BY AppendProperties, LenProperties
<1> HIDE DEF t
<1>2. Last(t) = x
    BY <1>1 DEF Last
<1>3. Front(t) = f
    <2>1. Len(t) - 1 = Len(s)
        BY <1>1
    <2>2. QED
        BY <2>1 DEF Front
<1>4. f \in Seq(S) /\ Len(f) = Len(s) /\ \A i \in 1..Len(s) : f[i] = t[i]
    <2>1. 1 \in Int /\ Len(s) \in Int /\ \A i \in 1..Len(s) : t[i] \in S
        BY <1>1
    <2>2. /\ f \in Seq(S)
          /\ Len(f) = IF 1 <= Len(s) THEN Len(s) - 1 + 1 ELSE 0
          /\ \A i \in 1..(Len(s) - 1 + 1) : f[i] = t[1 + i - 1]
        BY <2>1, SubSeqProperties
    <2>3. Len(s) - 1 + 1 = Len(s) /\ \A i \in 1..Len(s) : 1 + i - 1 = i
        BY <1>1
    <2>4. Len(f) = Len(s)
        BY <1>1, <2>2
    <2>5. \A i \in 1..Len(s) : f[i] = t[i]
        BY <2>2, <2>3
    <2>6. QED
        BY <2>2, <2>4, <2>5
<1>5. f = s
    <2>1. \A i \in 1..Len(s) : f[i] = s[i]
        BY <1>1, <1>4
    <2> HIDE DEF f
    <2>2. QED
        BY <1>4, <2>1, SeqEqual
<1>6. QED
    BY <1>2, <1>3, <1>5 DEF t

LEMMA FrontLast ==
    ASSUME NEW S, NEW s \in Seq(S), s # <<>>
    PROVE  Front(s) \in Seq(S) /\ Last(s) \in S /\ s = Append(Front(s), Last(s))
<1>1. PICK t \in Seq(S), x \in S : s = Append(t, x)
    BY SequenceEmptyOrAppend
<1>2. Front(s) = t /\ Last(s) = x
    BY <1>1, FrontAppend
<1>3. QED
    BY <1>1, <1>2

LEMMA FirstAndRest ==
    ASSUME NEW S, NEW s \in Seq(S), s # <<>>
    PROVE  /\ Head(s) \in S /\ Tail(s) \in Seq(S) /\ <<Head(s)>> \in Seq(S)
           /\ s = <<Head(s)>> \o Tail(s)
           /\ \A i \in DOMAIN Tail(s) : i + 1 \in DOMAIN s /\ Tail(s)[i] = s[i + 1]
           /\ 1 \in DOMAIN s /\ Head(s) = s[1]
<1>1. /\ Head(s) \in S /\ Tail(s) \in Seq(S) /\ Len(Tail(s)) = Len(s) - 1
      /\ \A i \in 1..Len(Tail(s)) : Tail(s)[i] = s[i + 1]
    BY HeadTailProperties
<1>2. Len(s) \in Nat /\ Len(s) # 0 /\ DOMAIN s = 1..Len(s) /\ DOMAIN Tail(s) = 1..Len(Tail(s))
    BY <1>1, EmptySeq, LenProperties
<1>3. \A i \in DOMAIN Tail(s) : i + 1 \in DOMAIN s
    BY <1>1, <1>2
<1>4. Head(s) = s[1] /\ 1 \in DOMAIN s
    BY <1>2
<1>5. s = <<Head(s)>> \o Tail(s)
    <2>1. SubSeq(s, 1, Len(s)) = <<s[1]>> \o SubSeq(s, 2, Len(s))
        <3>1. 1 \in 1..Len(s) /\ Len(s) \in 1..Len(s) /\ 1 + 1 = 2
            BY <1>2
        <3>2. QED
            BY <3>1, SubSeqRecursiveFirst
    <2>2. SubSeq(s, 1, Len(s)) = s /\ SubSeq(s, 2, Len(s)) = Tail(s)
        BY SubSeqFull, TailIsSubSeq
    <2>3. QED
        BY <1>4, <2>1, <2>2
<1>6. QED
    BY <1>1, <1>2, <1>3, <1>4, <1>5

-------------------------------------------------------------------------------
(***************************************************************************)
(* What VisitEach puts in the place of the visit of a value.                  *)
(***************************************************************************)
LEMMA EachType ==
    ASSUME NEW node \in Nodes, NEW p \in Seq(AllElements)
    PROVE  /\ VisitEach(node, p) \in Todo
           /\ DOMAIN VisitEach(node, p) = DOMAIN Children(node)
           /\ \A i \in DOMAIN Children(node) :
                 /\ VisitEach(node, p)[i].call = "enter"
                 /\ VisitEach(node, p)[i].at = Append(p, Children(node)[i])
                 /\ Children(node)[i] \in AllElements
                 /\ Children(node)[i].index = i
<1> DEFINE c == Children(node)
           u == VisitEach(node, p)
<1>1. /\ c \in Seq(AllElements) /\ DOMAIN c = 1..Len(c) /\ Len(c) \in Nat
      /\ \A i \in 1..Len(c) : c[i] \in AllElements /\ c[i].index = i
    BY ChildrenType, LenProperties
<1>2. u = [i \in DOMAIN c |-> Call("enter", Append(p, c[i]))]
    BY DEF VisitEach
<1> HIDE DEF c, u
<1>3. \A i \in 1..Len(c) : u[i] = [call |-> "enter", at |-> Append(p, c[i])]
    BY <1>1, <1>2 DEF Call
<1>4. \A i \in 1..Len(c) : Append(p, c[i]) \in Seq(AllElements) \ {<<>>}
    BY <1>1, AppendProperties
<1>5. \A i \in 1..Len(c) : Call("enter", Append(p, c[i])) \in CallTypes
    BY <1>4 DEF Call, CallTypes
<1>6. u \in [1..Len(c) -> CallTypes]
    <2> DEFINE g(i) == Call("enter", Append(p, c[i]))
    <2>1. u = [i \in 1..Len(c) |-> g(i)]
        BY <1>1, <1>2
    <2>2. \A i \in 1..Len(c) : g(i) \in CallTypes
        BY <1>5
    <2> HIDE DEF g
    <2>3. QED
        BY <2>1, <2>2
<1>7. u \in Todo
    BY <1>1, <1>6, SeqDef, Zenon DEF Todo
<1>8. DOMAIN u = DOMAIN c
    BY <1>2
<1>9. QED
    BY <1>1, <1>3, <1>7, <1>8 DEF c, u

\* The calls begin and end with the value's names on the stack.
LEMMA EachChained ==
    ASSUME NEW node \in Nodes, NEW p \in Seq(AllElements)
    PROVE  Start(VisitEach(node, p), p) = p /\ Chained(VisitEach(node, p), p)
<1> DEFINE u == VisitEach(node, p)
<1>1. \A i \in DOMAIN u : Before(u[i]) = p /\ After(u[i]) = p
    <2>1. ASSUME NEW i \in DOMAIN u
          PROVE  Before(u[i]) = p /\ After(u[i]) = p
        <3>1. /\ u[i].call = "enter" /\ u[i].at = Append(p, Children(node)[i])
              /\ Children(node)[i] \in AllElements
            BY <2>1, EachType
        <3>2. Front(u[i].at) = p
            BY <3>1, FrontAppend
        <3>3. QED
            BY <3>1, <3>2 DEF Before, After
    <2>2. QED
        BY <2>1
<1>2. u \in Todo /\ DOMAIN u = 1..Len(u) /\ Len(u) \in Nat /\ (u = <<>> <=> Len(u) = 0)
    <2>1. u \in Todo
        BY EachType
    <2> HIDE DEF u
    <2>2. QED
        BY <2>1, LenProperties, EmptySeq DEF Todo
<1> HIDE DEF u
<1>3. Start(u, p) = p
    <2>1. CASE u = <<>>
        BY <2>1 DEF Start
    <2>2. CASE u # <<>>
        <3>1. 1 \in DOMAIN u
            BY <1>2, <2>2
        <3>2. QED
            BY <1>1, <2>2, <3>1 DEF Start
    <2>3. QED
        BY <2>1, <2>2
<1>4. Chained(u, p)
    <2>1. ASSUME NEW i \in DOMAIN u
          PROVE  After(u[i]) = IF i = Len(u) THEN p ELSE Before(u[i + 1])
        <3>1. i # Len(u) => i + 1 \in DOMAIN u
            BY <1>2
        <3>2. QED
            BY <1>1, <3>1
    <2>2. QED
        BY <2>1 DEF Chained
<1>5. QED
    BY <1>3, <1>4 DEF u

\* They are about different elements.
LEMMA EachApart ==
    ASSUME NEW node \in Nodes, NEW p \in Seq(AllElements)
    PROVE  Apart(VisitEach(node, p))
<1> DEFINE u == VisitEach(node, p)
           c == Children(node)
<1>1. ASSUME NEW i \in DOMAIN u, NEW j \in DOMAIN u, Leads(u[i].at, u[j].at)
      PROVE  i = j
    <2>1. /\ u[i].at = Append(p, c[i]) /\ c[i] \in AllElements /\ c[i].index = i
          /\ u[j].at = Append(p, c[j]) /\ c[j] \in AllElements /\ c[j].index = j
        BY <1>1, EachType
    <2> HIDE DEF u, c
    <2>2. Append(p, c[j]) \in Seq(AllElements) /\ Append(p, c[j])[Len(p) + 1] = c[j]
        BY <2>1, AppendProperties
    <2>3. Append(p, c[j])[Len(p) + 1] = c[i]
        <3> DEFINE q == Append(p, c[j])
                   e == c[i]
        <3>1. Leads(Append(p, e), q) /\ e \in AllElements /\ q \in Seq(AllElements)
            BY <1>1, <2>1, <2>2
        <3> HIDE DEF q, e
        <3>2. q[Len(p) + 1] = e
            BY <3>1, LeadsDeeper
        <3>3. QED
            BY <3>2 DEF q, e
    <2>4. QED
        BY <2>1, <2>2, <2>3
<1>2. QED
    BY <1>1 DEF Apart

\* They are about what is below the value, and about all of it.
LEMMA EachPending ==
    ASSUME NEW d \in Nodes, NEW p \in Places(d), NodeAt(d, p).kind # "scalar",
           NEW b \in Places(d), NodeAt(d, b).kind = "scalar"
    PROVE  Pending(VisitEach(NodeAt(d, p), p), b) <=> Leads(p, b)
<1> DEFINE node == NodeAt(d, p)
           u == VisitEach(node, p)
           c == Children(node)
<1>1. node \in Nodes /\ p \in Seq(AllElements) /\ b \in Seq(AllElements) /\ p # b
    BY NodeType DEF Places
<1>2. DOMAIN u = DOMAIN c /\ \A i \in DOMAIN c : /\ u[i].call = "enter"
                                                 /\ u[i].at = Append(p, c[i])
                                                 /\ c[i] \in AllElements
    BY <1>1, EachType
<1>3. ASSUME Pending(u, b)
      PROVE  Leads(p, b)
    <2>1. PICK i \in DOMAIN u : Leads(u[i].at, b)
        BY <1>3 DEF Pending
    <2>2. Leads(Append(p, c[i]), b) /\ c[i] \in AllElements
        BY <1>2, <2>1
    <2> HIDE DEF c, u, node
    <2>3. QED
        BY <1>1, <2>2, LeadsDeeper
<1>4. ASSUME Leads(p, b)
      PROVE  Pending(u, b)
    <2>1. Len(p) < Len(b)
        <3>1. Len(p) \in Nat /\ Len(b) \in Nat
            BY <1>1, LenProperties
        <3>2. ASSUME ~(Len(p) < Len(b))
              PROVE  p = b
            <4>1. Len(p) = Len(b) /\ \A i \in 1..Len(p) : p[i] = b[i]
                BY <1>4, <3>1, <3>2 DEF Leads
            <4>2. QED
                BY <1>1, <4>1, SeqEqual
        <3>3. QED
            BY <1>1, <3>2
    <2>2. b[Len(p) + 1] \in ToSet(c)
        BY <1>4, <2>1, WayGoesOn
    <2>3. PICK i \in DOMAIN c : b[Len(p) + 1] = c[i]
        BY <2>2 DEF ToSet
    <2>4. c[i] \in AllElements /\ i \in DOMAIN u /\ u[i].call = "enter" /\ u[i].at = Append(p, c[i])
        BY <1>2
    <2> HIDE DEF c, u, node
    <2>5. Leads(Append(p, c[i]), b)
        BY <1>1, <1>4, <2>1, <2>3, <2>4, LeadsDeeper
    <2>6. u[i].call # "exit" /\ Leads(u[i].at, b)
        BY <2>4, <2>5
    <2>7. QED
        BY <2>4, <2>6 DEF Pending
<1>5. QED
    BY <1>3, <1>4

LEMMA EachAcross ==
    ASSUME NEW node \in Nodes, NEW p \in Seq(AllElements), NEW v \in Todo,
           \A j \in DOMAIN v : v[j].call # "exit" => ~Leads(p, v[j].at) /\ ~Leads(v[j].at, p)
    PROVE  Across(VisitEach(node, p), v)
<1> DEFINE u == VisitEach(node, p)
           c == Children(node)
<1>1. ASSUME NEW i \in DOMAIN u, NEW j \in DOMAIN v, v[j].call # "exit"
      PROVE  ~Leads(u[i].at, v[j].at) /\ ~Leads(v[j].at, u[i].at)
    <2>1. u[i].at = Append(p, c[i]) /\ c[i] \in AllElements
        BY <1>1, EachType
    <2>2. v[j].at \in Seq(AllElements)
        <3>1. v \in Seq(CallTypes) /\ j \in 1..Len(v)
            BY <1>1, LenProperties DEF Todo
        <3>2. v[j] \in CallTypes
            BY <3>1, ElementOfSeq
        <3>3. QED
            BY <3>2 DEF CallTypes
    <2>3. ~Leads(p, v[j].at) /\ ~Leads(v[j].at, p)
        BY <1>1
    <2> DEFINE e == c[i]
               q == v[j].at
    <2>4. e \in AllElements /\ q \in Seq(AllElements) /\ ~Leads(p, q) /\ ~Leads(q, p)
        BY <2>1, <2>2, <2>3
    <2> HIDE DEF u, c, e, q
    <2>5. ~Leads(Append(p, e), q)
        BY <2>4, LeadsDeeper
    <2>6. Leads(q, Append(p, e)) => q = Append(p, e)
        BY <2>4, LeadsDeeper
    <2>7. q = Append(p, e) => Leads(p, q)
        <3>1. Leads(p, p) => Leads(p, Append(p, e))
            BY <2>4, LeadsDeeper, AppendProperties
        <3>2. Leads(p, p)
            BY <2>4, LeadsDeeper
        <3>3. QED
            BY <3>1, <3>2
    <2>8. ~Leads(Append(p, e), q) /\ ~Leads(q, Append(p, e))
        BY <2>4, <2>5, <2>6, <2>7
    <2>9. QED
        BY <2>1, <2>8 DEF e, q
<1>2. QED
    BY <1>1 DEF Across

LEMMA EachPlaces ==
    ASSUME NEW d \in Nodes, NEW p \in Places(d)
    PROVE  \A i \in DOMAIN VisitEach(NodeAt(d, p), p) : IsPlace(d, VisitEach(NodeAt(d, p), p)[i].at)
<1> DEFINE node == NodeAt(d, p)
           u == VisitEach(node, p)
           c == Children(node)
<1>1. node \in Nodes /\ p \in Seq(AllElements)
    BY NodeType DEF Places
<1>2. ASSUME NEW i \in DOMAIN u
      PROVE  IsPlace(d, u[i].at)
    <2>1. i \in DOMAIN c /\ u[i].at = Append(p, c[i]) /\ c[i] \in AllElements
        BY <1>1, <1>2, EachType
    <2>2. c[i] \in ToSet(Children(NodeAt(d, p)))
        BY <2>1 DEF ToSet
    <2>3. Append(p, c[i]) \in Places(d)
        BY <1>1, <2>1, <2>2, Deeper
    <2>4. QED
        BY <2>1, <2>3 DEF Places
<1>3. QED
    BY <1>2

-------------------------------------------------------------------------------
(***************************************************************************)
(* What the first call does to the calls still to make.                      *)
(***************************************************************************)
First == Head(todo)
Rest  == Tail(todo)

LEMMA TodoSplit ==
    ASSUME todo \in Todo, todo # <<>>
    PROVE  /\ First \in CallTypes /\ <<First>> \in Todo /\ Rest \in Todo
           /\ todo = <<First>> \o Rest
           /\ \A i \in DOMAIN Rest : i + 1 \in DOMAIN todo /\ Rest[i] = todo[i + 1]
           /\ 1 \in DOMAIN todo /\ First = todo[1]
    BY FirstAndRest DEF Todo, First, Rest

\* Calls that leave the stack as the first call does can take its place.
LEMMA ChainGoesOn ==
    ASSUME todo \in Todo, todo # <<>>, Chained(todo, <<>>),
           NEW u \in Todo, Chained(u, After(First))
    PROVE  /\ u \o Rest \in Todo /\ Chained(u \o Rest, <<>>)
           /\ Start(u \o Rest, <<>>) = Start(u, After(First))
           /\ Start(todo, <<>>) = Before(First)
<1>1. /\ <<First>> \in Todo /\ Rest \in Todo /\ todo = <<First>> \o Rest
      /\ First = todo[1]
    BY TodoSplit
<1> DEFINE mid == Start(Rest, <<>>)
           one == <<First>>
<1>2. Chained(one, mid) /\ Chained(Rest, <<>>)
    <2> HIDE DEF mid, one
    <2>1. one \in Todo /\ Rest \in Todo /\ Chained(one \o Rest, <<>>)
        BY <1>1 DEF one
    <2>2. QED
        BY <2>1, ChainedConcat DEF mid
<1>3. DOMAIN one = 1..1 /\ Len(one) = 1 /\ one[1] = First
    OBVIOUS
<1>4. After(First) = mid
    <2> HIDE DEF mid, one
    <2>1. 1 \in DOMAIN one
        BY <1>3
    <2>2. After(one[1]) = IF 1 = Len(one) THEN mid ELSE Before(one[1 + 1])
        BY <1>2, <2>1 DEF Chained
    <2>3. QED
        BY <1>3, <2>2
<1>5. Start(u \o Rest, <<>>) = Start(u, mid) /\ Chained(u \o Rest, <<>>)
    <2>1. Chained(u, mid)
        BY <1>4
    <2> HIDE DEF mid, one
    <2>2. QED
        BY <1>1, <1>2, <2>1, ChainedConcat DEF mid
<1>6. u \o Rest \in Todo
    BY <1>1, ConcatProperties DEF Todo
<1>7. Start(todo, <<>>) = Before(First)
    BY <1>1 DEF Start
<1>8. QED
    BY <1>4, <1>5, <1>6, <1>7

LEMMA FirstIsApart ==
    ASSUME todo \in Todo, todo # <<>>, Apart(todo)
    PROVE  /\ Apart(Rest)
           /\ First.call # "exit" =>
                 \A j \in DOMAIN Rest : Rest[j].call # "exit" =>
                     ~Leads(First.at, Rest[j].at) /\ ~Leads(Rest[j].at, First.at)
<1> DEFINE one == <<First>>
<1>1. one \in Todo /\ Rest \in Todo /\ todo = one \o Rest
    BY TodoSplit
<1>2. 1 \in DOMAIN one /\ one[1] = First
    OBVIOUS
<1> HIDE DEF one
<1>3. Apart(Rest) /\ Across(one, Rest)
    BY <1>1, ApartConcat
<1>4. QED
    BY <1>2, <1>3 DEF Across

LEMMA PendingFirst ==
    ASSUME todo \in Todo, todo # <<>>, NEW b
    PROVE  Pending(todo, b) <=> (First.call # "exit" /\ Leads(First.at, b)) \/ Pending(Rest, b)
<1> DEFINE one == <<First>>
<1>1. one \in Todo /\ Rest \in Todo /\ todo = one \o Rest
    BY TodoSplit
<1>2. Pending(one, b) <=> First.call # "exit" /\ Leads(First.at, b)
    <2>1. DOMAIN one = {1} /\ one[1] = First
        OBVIOUS
    <2> HIDE DEF one
    <2>2. QED
        BY <2>1 DEF Pending
<1> HIDE DEF one
<1>3. Pending(todo, b) <=> Pending(one, b) \/ Pending(Rest, b)
    BY <1>1, PendingConcat
<1>4. QED
    BY <1>2, <1>3

\* No call pops or visits more than is there.
LEMMA NothingPending == \A p : ~Pending(<<>>, p)
    BY DEF Pending

LEMMA NamesOfNone == Names(<<>>) = <<>>
    BY DEF Names

\* A scalar leads nowhere.
LEMMA ScalarsEnd ==
    ASSUME NEW d \in Nodes, NEW p \in Places(d), NodeAt(d, p).kind = "scalar",
           NEW b \in Places(d), Leads(p, b)
    PROVE  p = b
<1>1. p \in Seq(AllElements) /\ b \in Seq(AllElements)
    BY DEF Places
<1>2. Children(NodeAt(d, p)) = <<>>
    <2>1. NodeAt(d, p) \in Nodes
        BY <1>1, NodeType
    <2>2. QED
        BY <2>1, ChildrenType
<1>3. ~(Len(p) < Len(b))
    <2>1. SUFFICES ASSUME Len(p) < Len(b)
                   PROVE  FALSE
        OBVIOUS
    <2>2. b[Len(p) + 1] \in ToSet(Children(NodeAt(d, p)))
        BY <2>1, WayGoesOn
    <2>3. QED
        BY <1>2, <2>2 DEF ToSet
<1>4. Len(p) \in Nat /\ Len(b) \in Nat
    BY <1>1, LenProperties
<1>5. Len(p) = Len(b) /\ \A i \in 1..Len(p) : p[i] = b[i]
    BY <1>3, <1>4 DEF Leads
<1>6. QED
    BY <1>1, <1>5, SeqEqual

-------------------------------------------------------------------------------
LEMMA InputType ==
    ASSUME IInv, phase = "visiting"
    PROVE  /\ input \in Documents /\ input \in Nodes /\ input # Malformed
           /\ todo \in Todo /\ context \in Seq(Seq(Segments)) /\ residue \in Seq(Seq(Segments))
           /\ Visiting
           /\ todo # <<>> => /\ First \in CallTypes /\ Rest \in Todo
                             /\ First.at \in Places(input) /\ First.at # <<>>
                             /\ Before(First) \in Seq(AllElements)
                             /\ After(First) \in Seq(AllElements)
<1>1. /\ Visiting /\ input \in Documents \cup {Malformed}
      /\ todo \in Todo /\ context \in Seq(Seq(Segments)) /\ residue \in Seq(Seq(Segments))
      /\ \A i \in DOMAIN todo : IsPlace(input, todo[i].at)
    BY DEF IInv, TypeOK, Todo, CallTypes
<1>2. input # Malformed
    BY <1>1 DEF Visiting, Readable
<1>3. input \in Documents /\ input \in Nodes
    BY <1>1, <1>2, NodesAssumption
<1>4. ASSUME todo # <<>>
      PROVE  /\ First \in CallTypes /\ Rest \in Todo
             /\ First.at \in Places(input) /\ First.at # <<>>
             /\ Before(First) \in Seq(AllElements)
             /\ After(First) \in Seq(AllElements)
    <2>1. First \in CallTypes /\ Rest \in Todo /\ First = todo[1] /\ 1 \in DOMAIN todo
        BY <1>1, <1>4, TodoSplit
    <2>2. First.at \in Seq(AllElements) /\ First.at # <<>>
        BY <2>1 DEF CallTypes
    <2>3. Front(First.at) \in Seq(AllElements)
        BY <2>2, FrontLast
    <2>4. IsPlace(input, First.at)
        BY <1>1, <2>1
    <2>5. QED
        BY <2>1, <2>2, <2>3, <2>4 DEF Places, Before, After
<1>5. QED
    BY <1>1, <1>2, <1>3, <1>4

LEMMA TheLeaves ==
    ASSUME IInv, phase = "visiting"
    PROVE  Leaves(input) = {p \in Places(input) : p # <<>> /\ NodeAt(input, p).kind = "scalar"}
    BY InputType, LeavesAreAll

\* The calls after a step are about places of the document.
LEMMA RestPlaces ==
    ASSUME IInv, phase = "visiting", todo # <<>>, NEW u \in Todo,
           \A i \in DOMAIN u : IsPlace(input, u[i].at)
    PROVE  /\ u \o Rest \in Todo
           /\ \A i \in DOMAIN (u \o Rest) : IsPlace(input, (u \o Rest)[i].at)
           /\ \A i \in DOMAIN Rest : IsPlace(input, Rest[i].at)
<1> DEFINE w == u \o Rest
<1>1. Rest \in Todo /\ \A i \in DOMAIN Rest : i + 1 \in DOMAIN todo /\ Rest[i] = todo[i + 1]
    BY InputType, TodoSplit
<1>2. \A i \in DOMAIN Rest : IsPlace(input, Rest[i].at)
    <2>1. \A i \in DOMAIN todo : IsPlace(input, todo[i].at)
        BY DEF IInv, TypeOK
    <2>2. QED
        BY <1>1, <2>1
<1>3. w \in Todo
    BY <1>1, ConcatProperties DEF Todo
<1>4. /\ DOMAIN u = 1..Len(u) /\ DOMAIN Rest = 1..Len(Rest) /\ DOMAIN w = 1..(Len(u) + Len(Rest))
      /\ \A i \in 1..Len(u) : w[i] = u[i]
      /\ \A i \in 1..Len(Rest) : w[Len(u) + i] = Rest[i]
      /\ \A i \in 1..(Len(u) + Len(Rest)) :
            i \in 1..Len(u) \/ \E j \in 1..Len(Rest) : i = Len(u) + j
    BY <1>1, ConcatIndices DEF Todo
<1> HIDE DEF w
<1>5. ASSUME NEW i \in DOMAIN w
      PROVE  IsPlace(input, w[i].at)
    <2>1. CASE i \in 1..Len(u)
        BY <1>4, <2>1
    <2>2. CASE \E j \in 1..Len(Rest) : i = Len(u) + j
        BY <1>2, <1>4, <2>2
    <2>3. QED
        BY <1>4, <2>1, <2>2
<1>6. QED
    BY <1>2, <1>3, <1>5 DEF w

\* As long as no scalar gets or loses its call, Visited does not change.
LEMMA SameVisited ==
    ASSUME UNCHANGED input, \A b \in Leaves(input) : Pending(todo', b) <=> Pending(todo, b)
    PROVE  Visited' = Visited
<1>1. Leaves(input)' = Leaves(input)
    BY DEF Leaves
<1>2. QED
    BY <1>1 DEF Visited

\* Nothing of the dictionary changes with the stack or with calls alone.
LEMMA SameEntries ==
    ASSUME Visiting, UNCHANGED <<data, input, residue>>, Visited' = Visited,
           Chained(todo', <<>>), Apart(todo'),
           context' = residue \o Names(Start(todo', <<>>))
    PROVE  Visiting'
<1>1. Readable(input)'
    BY DEF Visiting, Readable
<1>2. (data = Entries(FlattenSeq(residue), Visited))'
    BY DEF Visiting
<1>3. (\A p, q \in Visited : Key(p) = Key(q) => p = q)'
    BY DEF Visiting
<1>4. QED
    BY <1>1, <1>2, <1>3 DEF Visiting

-------------------------------------------------------------------------------
(***************************************************************************)
(* One step of the visit at a time.                                         *)
(***************************************************************************)
LEMMA EnterVisits ==
    ASSUME IInv, EnterContext
    PROVE  /\ Visiting' /\ todo' \in Todo /\ context' \in Seq(Seq(Segments))
           /\ \A i \in DOMAIN todo' : IsPlace(input, todo'[i].at)
<1> DEFINE p == First.at
           u == <<Call("visit", p), Call("exit", p)>>
<1>1. /\ phase = "visiting" /\ todo # <<>> /\ First.call = "enter"
      /\ context' = Append(context, Last(p).name) /\ todo' = u \o Rest
      /\ UNCHANGED <<data, phase, input, residue, parses>>
    BY DEF EnterContext, Calls, First, Rest
<1>2. /\ input \in Nodes /\ todo \in Todo /\ context \in Seq(Seq(Segments))
      /\ residue \in Seq(Seq(Segments)) /\ Visiting
      /\ Rest \in Todo /\ p \in Places(input) /\ p # <<>>
    BY <1>1, InputType
<1>3. p \in Seq(AllElements) /\ IsPlace(input, p)
    BY <1>2 DEF Places
<1>4. Front(p) \in Seq(AllElements) /\ Last(p) \in AllElements /\ p = Append(Front(p), Last(p))
    BY <1>2, <1>3, FrontLast
<1>5. Before(First) = Front(p) /\ After(First) = Front(p)
    BY <1>1 DEF Before, After
<1>6. /\ u \in Todo /\ Len(u) = 2 /\ DOMAIN u = {1, 2}
      /\ u[1].call = "visit" /\ u[1].at = p /\ u[2].call = "exit" /\ u[2].at = p
    <2>1. Call("visit", p) \in CallTypes /\ Call("exit", p) \in CallTypes
        BY <1>2, <1>3 DEF CallTypes, Call
    <2>2. u \in Todo /\ Len(u) = 2
        BY <2>1 DEF Todo
    <2>3. DOMAIN u = 1..2
        BY <2>2, LenProperties DEF Todo
    <2>4. DOMAIN u = {1, 2}
        BY <2>3
    <2>5. u[1] = Call("visit", p) /\ u[2] = Call("exit", p)
        OBVIOUS
    <2>6. QED
        BY <2>2, <2>4, <2>5 DEF Call
<1> HIDE DEF u, p
<1>7. Start(u, Front(p)) = p /\ Chained(u, Front(p))
    <2>1. u # <<>>
        BY <1>6, EmptySeq
    <2>2. Before(u[1]) = p /\ After(u[1]) = p /\ Before(u[2]) = p /\ After(u[2]) = Front(p)
        BY <1>6 DEF Before, After
    <2>3. Start(u, Front(p)) = p
        BY <2>1, <2>2 DEF Start
    <2>4. ASSUME NEW i \in DOMAIN u
          PROVE  After(u[i]) = IF i = Len(u) THEN Front(p) ELSE Before(u[i + 1])
        <3>1. CASE i = 1
            BY <1>6, <2>2, <3>1
        <3>2. CASE i = 2
            BY <1>6, <2>2, <3>2
        <3>3. QED
            BY <1>6, <2>4, <3>1, <3>2
    <2>5. Chained(u, Front(p))
        BY <2>4 DEF Chained
    <2>6. QED
        BY <2>3, <2>5
<1>8. Chained(todo', <<>>) /\ Start(todo', <<>>) = p /\ Start(todo, <<>>) = Front(p)
    <2>1. Chained(todo, <<>>)
        BY <1>2 DEF Visiting
    <2>2. Chained(u, After(First)) /\ Start(u, After(First)) = p
        BY <1>5, <1>7
    <2>3. QED
        BY <1>1, <1>2, <1>5, <1>6, <2>1, <2>2, ChainGoesOn
<1>9. context' = residue \o Names(p) /\ context' \in Seq(Seq(Segments))
    <2>1. Names(Front(p)) \in Seq(Seq(Segments)) /\ Last(p).name \in Seq(Segments)
        BY <1>4, NamesType, ElementType
    <2>2. context = residue \o Names(Front(p))
        BY <1>2, <1>8 DEF Visiting
    <2>3. Names(p) = Append(Names(Front(p)), Last(p).name)
        BY <1>4, NamesDeeper
    <2>4. residue \o Append(Names(Front(p)), Last(p).name) = Append(context, Last(p).name)
        <3> DEFINE n == Names(Front(p))
                   e == Last(p).name
                   Stacks == Seq(Segments)
        <3>1. residue \in Seq(Stacks) /\ n \in Seq(Stacks) /\ e \in Stacks
            BY <1>2, <2>1
        <3> HIDE DEF n, e, Stacks
        <3>2. residue \o Append(n, e) = Append(residue \o n, e)
            BY <3>1, ConcatOfAppend
        <3>3. QED
            BY <2>2, <3>2 DEF n, e
    <2>5. Append(context, Last(p).name) \in Seq(Seq(Segments))
        BY <1>2, <2>1, AppendProperties
    <2>6. QED
        BY <1>1, <2>3, <2>4, <2>5
<1>10. Apart(todo')
    <2>1. /\ Apart(Rest)
          /\ \A j \in DOMAIN Rest : Rest[j].call # "exit" =>
                ~Leads(p, Rest[j].at) /\ ~Leads(Rest[j].at, p)
        BY <1>1, <1>2, FirstIsApart DEF Visiting, p
    <2>2. Apart(u)
        BY <1>6 DEF Apart
    <2>3. Across(u, Rest)
        BY <1>6, <2>1 DEF Across
    <2>4. QED
        BY <1>1, <1>2, <1>6, <2>1, <2>2, <2>3, ApartConcat
<1>11. Visited' = Visited
    <2>1. ASSUME NEW b \in Leaves(input)
          PROVE  Pending(todo', b) <=> Pending(todo, b)
        <3>1. Pending(u, b) <=> Leads(p, b)
            BY <1>6 DEF Pending
        <3>2. Pending(todo', b) <=> Pending(u, b) \/ Pending(Rest, b)
            BY <1>1, <1>2, <1>6, PendingConcat
        <3>3. Pending(todo, b) <=> Leads(p, b) \/ Pending(Rest, b)
            BY <1>1, <1>2, PendingFirst DEF p
        <3>4. QED
            BY <3>1, <3>2, <3>3
    <2>2. QED
        BY <1>1, <2>1, SameVisited
<1>12. Visiting'
    BY <1>1, <1>2, <1>8, <1>9, <1>10, <1>11, SameEntries
<1>13. todo' \in Todo /\ \A i \in DOMAIN todo' : IsPlace(input, todo'[i].at)
    <2>1. \A i \in DOMAIN u : IsPlace(input, u[i].at)
        BY <1>3, <1>6
    <2>2. QED
        BY <1>1, <1>6, <2>1, RestPlaces
<1>14. QED
    BY <1>9, <1>12, <1>13

LEMMA ContainerVisits ==
    ASSUME IInv, VisitContainer
    PROVE  /\ Visiting' /\ todo' \in Todo
           /\ \A i \in DOMAIN todo' : IsPlace(input, todo'[i].at)
<1> DEFINE p == First.at
           u == VisitEach(Value, p)
<1>1. /\ phase = "visiting" /\ todo # <<>> /\ First.call = "visit"
      /\ Value = NodeAt(input, p) /\ Value.kind # "scalar" /\ todo' = u \o Rest
      /\ UNCHANGED <<data, context, phase, input, residue, parses>>
    BY DEF VisitContainer, Calls, First, Rest, Value
<1>2. /\ input \in Nodes /\ todo \in Todo /\ Visiting
      /\ Rest \in Todo /\ p \in Places(input) /\ p # <<>>
    BY <1>1, InputType
<1>3. p \in Seq(AllElements) /\ Value \in Nodes
    BY <1>1, <1>2, NodeType DEF Places
<1>4. u \in Todo
    BY <1>3, EachType
<1>5. Before(First) = p /\ After(First) = p
    BY <1>1 DEF Before, After
<1>6. Start(u, p) = p /\ Chained(u, p) /\ Apart(u)
    BY <1>3, EachChained, EachApart
<1>7. Chained(todo', <<>>) /\ Start(todo', <<>>) = p /\ Start(todo, <<>>) = p
    <2>1. Chained(todo, <<>>)
        BY <1>2 DEF Visiting
    <2> HIDE DEF u, p
    <2>2. Chained(u, After(First)) /\ Start(u, After(First)) = p
        BY <1>5, <1>6
    <2>3. QED
        BY <1>1, <1>2, <1>4, <1>5, <2>1, <2>2, ChainGoesOn
<1>8. context' = residue \o Names(Start(todo', <<>>))
    <2>1. context = residue \o Names(Start(todo, <<>>)) /\ context' = context
        BY <1>1, <1>2 DEF Visiting
    <2>2. QED
        BY <1>7, <2>1
<1>9. Apart(todo')
    <2>1. /\ Apart(Rest)
          /\ \A j \in DOMAIN Rest : Rest[j].call # "exit" =>
                ~Leads(p, Rest[j].at) /\ ~Leads(Rest[j].at, p)
        BY <1>1, <1>2, FirstIsApart DEF Visiting
    <2>2. Across(u, Rest)
        BY <1>2, <1>3, <2>1, EachAcross
    <2> HIDE DEF u
    <2>3. QED
        BY <1>1, <1>2, <1>4, <1>6, <2>1, <2>2, ApartConcat
<1>10. Visited' = Visited
    <2>1. ASSUME NEW b \in Leaves(input)
          PROVE  Pending(todo', b) <=> Pending(todo, b)
        <3>1. b \in Places(input) /\ NodeAt(input, b).kind = "scalar"
            BY <1>1, <2>1, TheLeaves
        <3>2. NodeAt(input, p).kind # "scalar" /\ u = VisitEach(NodeAt(input, p), p)
            BY <1>1
        <3>3. Pending(u, b) <=> Leads(p, b)
            BY <1>2, <3>1, <3>2, EachPending
        <3> HIDE DEF u
        <3>4. Pending(todo', b) <=> Pending(u, b) \/ Pending(Rest, b)
            BY <1>1, <1>2, <1>4, PendingConcat
        <3>5. Pending(todo, b) <=> Leads(p, b) \/ Pending(Rest, b)
            BY <1>1, <1>2, PendingFirst
        <3>6. QED
            BY <3>3, <3>4, <3>5
    <2>2. QED
        BY <1>1, <2>1, SameVisited
<1>11. Visiting'
    BY <1>1, <1>2, <1>7, <1>8, <1>9, <1>10, SameEntries
<1>12. todo' \in Todo /\ \A i \in DOMAIN todo' : IsPlace(input, todo'[i].at)
    <2>1. \A i \in DOMAIN u : IsPlace(input, u[i].at)
        BY <1>1, <1>2, EachPlaces
    <2> HIDE DEF u
    <2>2. QED
        BY <1>1, <1>4, <2>1, RestPlaces
<1>13. QED
    BY <1>11, <1>12

\* Without its first call, the chain begins where that call ends.
LEMMA RestGoesOn ==
    ASSUME todo \in Todo, todo # <<>>, Chained(todo, <<>>)
    PROVE  /\ Chained(Rest, <<>>) /\ Start(Rest, <<>>) = After(First)
           /\ Start(todo, <<>>) = Before(First)
<1>1. <<>> \in Todo /\ Rest \in Todo /\ Chained(<<>>, After(First))
    BY TodoSplit DEF Todo, Chained
<1>2. /\ Chained(<<>> \o Rest, <<>>) /\ Start(<<>> \o Rest, <<>>) = Start(<<>>, After(First))
      /\ Start(todo, <<>>) = Before(First)
    BY <1>1, ChainGoesOn
<1>3. <<>> \o Rest = Rest
    BY <1>1, ConcatEmptySeq DEF Todo
<1>4. Start(<<>>, After(First)) = After(First)
    BY DEF Start
<1>5. QED
    BY <1>2, <1>3, <1>4

LEMMA ExitVisits ==
    ASSUME IInv, ExitContext
    PROVE  /\ Visiting' /\ todo' \in Todo /\ context' \in Seq(Seq(Segments))
           /\ \A i \in DOMAIN todo' : IsPlace(input, todo'[i].at)
<1> DEFINE p == First.at
<1>1. /\ phase = "visiting" /\ todo # <<>> /\ First.call = "exit"
      /\ context' = Front(context) /\ todo' = Rest
      /\ UNCHANGED <<data, phase, input, residue, parses>>
    BY DEF ExitContext, Calls, First, Rest
<1>2. /\ todo \in Todo /\ residue \in Seq(Seq(Segments)) /\ Visiting
      /\ Rest \in Todo /\ p \in Places(input) /\ p # <<>>
    BY <1>1, InputType
<1>3. Front(p) \in Seq(AllElements) /\ Last(p) \in AllElements /\ p = Append(Front(p), Last(p))
    BY <1>2, FrontLast DEF Places
<1>4. Before(First) = p /\ After(First) = Front(p)
    BY <1>1 DEF Before, After
<1> HIDE DEF p
<1>5. Chained(Rest, <<>>) /\ Start(Rest, <<>>) = Front(p) /\ Start(todo, <<>>) = p
    <2>1. Chained(todo, <<>>)
        BY <1>2 DEF Visiting
    <2>2. QED
        BY <1>1, <1>2, <1>4, <2>1, RestGoesOn
<1>6. context' = residue \o Names(Front(p)) /\ context' \in Seq(Seq(Segments))
    <2> DEFINE f == residue \o Names(Front(p))
               n == Last(p).name
    <2>1. Names(Front(p)) \in Seq(Seq(Segments)) /\ n \in Seq(Segments)
        BY <1>3, NamesType, ElementType
    <2>2. f \in Seq(Seq(Segments))
        BY <1>2, <2>1, ConcatProperties
    <2>3. Names(p) = Append(Names(Front(p)), n)
        BY <1>3, NamesDeeper
    <2>4. context = residue \o Names(p)
        BY <1>2, <1>5 DEF Visiting
    <2> HIDE DEF n
    <2>5. residue \o Append(Names(Front(p)), n) = Append(f, n)
        <3> DEFINE ns == Names(Front(p))
                   Stacks == Seq(Segments)
        <3>1. residue \in Seq(Stacks) /\ ns \in Seq(Stacks) /\ n \in Stacks
            BY <1>2, <2>1
        <3> HIDE DEF ns, Stacks
        <3>2. residue \o Append(ns, n) = Append(residue \o ns, n)
            BY <3>1, ConcatOfAppend
        <3>3. QED
            BY <3>2 DEF ns
    <2>6. context = Append(f, n)
        BY <2>3, <2>4, <2>5
    <2> HIDE DEF f
    <2>7. Front(context) = f
        BY <2>1, <2>2, <2>6, FrontAppend
    <2>8. QED
        BY <1>1, <2>2, <2>7 DEF f
<1>7. Apart(Rest)
    BY <1>1, <1>2, FirstIsApart DEF Visiting
<1>8. Visited' = Visited
    <2>1. ASSUME NEW b \in Leaves(input)
          PROVE  Pending(todo', b) <=> Pending(todo, b)
        BY <1>1, <1>2, PendingFirst
    <2>2. QED
        BY <1>1, <2>1, SameVisited
<1>9. Visiting'
    BY <1>1, <1>2, <1>5, <1>6, <1>7, <1>8, SameEntries
<1>10. todo' \in Todo /\ \A i \in DOMAIN todo' : IsPlace(input, todo'[i].at)
    <2>1. <<>> \in Todo /\ \A i \in DOMAIN <<>> : IsPlace(input, <<>>[i].at)
        BY DEF Todo
    <2>2. \A i \in DOMAIN Rest : IsPlace(input, Rest[i].at)
        BY <1>1, <2>1, RestPlaces
    <2>3. QED
        BY <1>1, <1>2, <2>2
<1>11. QED
    BY <1>6, <1>9, <1>10

\* A scalar's visit: the stack holds its path, it is a leaf, and no other call
\* visits it.
LEMMA AtScalar ==
    ASSUME IInv, Calls("visit"), Value.kind = "scalar"
    PROVE  /\ First.at \in Leaves(input) /\ First.at \notin Visited
           /\ NodeAt(input, First.at) = Value /\ Last(First.at).node = Value
           /\ currentPath = FlattenSeq(residue) \o Key(First.at)
           /\ FlattenSeq(residue) \in Seq(Segments) /\ Key(First.at) \in Seq(Segments)
           /\ \A b \in Leaves(input) :
                 /\ Pending(todo, b) <=> b = First.at \/ Pending(Rest, b)
                 /\ b = First.at => ~Pending(Rest, b)
<1> DEFINE p == First.at
<1>1. phase = "visiting" /\ todo # <<>> /\ First.call = "visit" /\ Value = NodeAt(input, p)
    BY DEF Calls, First, Value
<1>2. /\ input \in Documents /\ input \in Nodes /\ todo \in Todo /\ Visiting
      /\ residue \in Seq(Seq(Segments)) /\ Rest \in Todo /\ p \in Places(input) /\ p # <<>>
    BY <1>1, InputType
<1>3. p \in Seq(AllElements)
    BY <1>2 DEF Places
<1>4. /\ p \in Leaves(input)
      /\ \A b \in Leaves(input) : b \in Places(input) /\ NodeAt(input, b).kind = "scalar"
    BY <1>1, <1>2, TheLeaves
<1>5. Last(p).node = Value
    BY <1>1, <1>2 DEF NodeAt
<1>6. context = residue \o Names(p)
    <2>1. Chained(todo, <<>>) /\ context = residue \o Names(Start(todo, <<>>))
        BY <1>2 DEF Visiting
    <2>2. Start(todo, <<>>) = p
        BY <1>1, <1>2, <2>1, RestGoesOn DEF Before
    <2>3. QED
        BY <2>1, <2>2
<1>7. /\ currentPath = FlattenSeq(residue) \o Key(p)
      /\ FlattenSeq(residue) \in Seq(Segments) /\ Key(p) \in Seq(Segments)
    <2>1. /\ Names(p) \in Seq(Seq(Segments)) /\ Key(p) = FlattenSeq(Names(p))
          /\ Key(p) \in Seq(Segments)
        BY <1>3, NamesType
    <2>2. FlattenSeq(residue) \in Seq(Segments)
        BY <1>2, FlattenType
    <2> HIDE DEF p
    <2>3. FlattenSeq(residue \o Names(p)) = FlattenSeq(residue) \o FlattenSeq(Names(p))
        BY <1>2, <2>1, FlattenConcat
    <2>4. QED
        BY <1>6, <2>1, <2>2, <2>3 DEF currentPath
<1>8. ASSUME NEW b \in Leaves(input)
      PROVE  /\ Pending(todo, b) <=> b = p \/ Pending(Rest, b)
             /\ b = p => ~Pending(Rest, b)
    <2>1. Leads(p, b) <=> b = p
        <3>1. Leads(p, b) => p = b
            BY <1>1, <1>2, <1>4, ScalarsEnd
        <3>2. p = b => Leads(p, b)
            BY <1>3, LenProperties DEF Leads
        <3>3. QED
            BY <3>1, <3>2
    <2>2. Pending(todo, b) <=> Leads(p, b) \/ Pending(Rest, b)
        BY <1>1, <1>2, PendingFirst
    <2>3. ASSUME b = p
          PROVE  ~Pending(Rest, b)
        <3>1. \A j \in DOMAIN Rest : Rest[j].call # "exit" => ~Leads(Rest[j].at, p)
            BY <1>1, <1>2, FirstIsApart DEF Visiting
        <3>2. QED
            BY <2>3, <3>1 DEF Pending
    <2>4. QED
        BY <2>1, <2>2, <2>3
<1>9. p \notin Visited
    BY <1>4, <1>8 DEF Visited
<1>10. QED
    BY <1>1, <1>4, <1>5, <1>7, <1>8, <1>9

LEMMA ScalarVisits ==
    ASSUME IInv, VisitScalar
    PROVE  /\ Visiting' /\ todo' \in Todo /\ \A e \in data' : e[1] \in Seq(Segments)
           /\ \A i \in DOMAIN todo' : IsPlace(input, todo'[i].at)
<1> DEFINE p == First.at
           path == FlattenSeq(residue)
           entry == <<currentPath, Value.value>>
<1>1. /\ Calls("visit") /\ Value.kind = "scalar" /\ ~ContainsKey(currentPath)
      /\ data' = data \cup {entry} /\ todo' = Rest
      /\ UNCHANGED <<context, phase, input, residue, parses>>
    BY DEF VisitScalar, Rest
<1>2. phase = "visiting" /\ todo # <<>> /\ First.call = "visit"
    BY <1>1 DEF Calls, First
<1>3. todo \in Todo /\ Rest \in Todo /\ Visiting
    BY <1>2, InputType
<1>4. /\ p \in Leaves(input) /\ p \notin Visited
      /\ currentPath = path \o Key(p) /\ Last(p).node = Value
      /\ path \in Seq(Segments) /\ Key(p) \in Seq(Segments)
      /\ \A b \in Leaves(input) :
            /\ Pending(todo, b) <=> b = p \/ Pending(Rest, b)
            /\ b = p => ~Pending(Rest, b)
    BY <1>1, AtScalar
<1>5. Chained(todo', <<>>) /\ context' = residue \o Names(Start(todo', <<>>))
    <2>1. Chained(todo, <<>>) /\ context = residue \o Names(Start(todo, <<>>))
        BY <1>3 DEF Visiting
    <2>2. Start(todo', <<>>) = Start(todo, <<>>) /\ Chained(todo', <<>>)
        BY <1>1, <1>2, <1>3, <2>1, RestGoesOn DEF Before, After
    <2>3. QED
        BY <1>1, <2>1, <2>2
<1>6. Apart(todo')
    BY <1>1, <1>2, <1>3, FirstIsApart DEF Visiting
<1>7. Visited' = Visited \cup {p}
    <2>1. Leaves(input)' = Leaves(input)
        BY <1>1 DEF Leaves
    <2>2. Visited' = {b \in Leaves(input) : ~Pending(Rest, b)}
        BY <1>1, <2>1 DEF Visited
    <2> HIDE DEF p
    <2>3. QED
        BY <1>4, <2>2 DEF Visited
<1>8. data = Entries(path, Visited) /\ \A q, r \in Visited : Key(q) = Key(r) => q = r
    BY <1>3 DEF Visiting
<1>9. (data = Entries(FlattenSeq(residue), Visited))'
    <2>1. Entries(path, Visited \cup {p}) = Entries(path, Visited) \cup {entry}
        <3>1. entry = <<path \o Key(p), Last(p).node.value>>
            BY <1>4
        <3> HIDE DEF entry, p, path
        <3>2. QED
            BY <3>1 DEF Entries
    <2>2. data' = Entries(path, Visited')
        BY <1>1, <1>7, <1>8, <2>1
    <2>3. Entries(path, Visited') = Entries(FlattenSeq(residue), Visited)'
        BY <1>1 DEF Entries
    <2>4. QED
        BY <2>2, <2>3
<1>10. ASSUME NEW q \in Visited
       PROVE  Key(q) # Key(p)
    <2>1. <<path \o Key(q), Last(q).node.value>> \in data
        BY <1>8 DEF Entries
    <2>2. path \o Key(q) # currentPath
        BY <1>1, <2>1 DEF ContainsKey
    <2>3. QED
        BY <1>4, <2>2
<1>11. (\A q, r \in Visited : Key(q) = Key(r) => q = r)'
    <2>1. \A q, r \in Visited \cup {p} : Key(q) = Key(r) => q = r
        <3> HIDE DEF p
        <3>1. QED
            BY <1>8, <1>10
    <2>2. \A q, r \in Visited' : Key(q) = Key(r) => q = r
        BY <1>7, <2>1
    <2>3. QED
        BY <2>2 DEF Key
<1>12. Visiting'
    <2>1. Readable(input)'
        BY <1>1, <1>3 DEF Visiting, Readable
    <2>2. (Chained(todo, <<>>) /\ context = residue \o Names(Start(todo, <<>>)) /\ Apart(todo))'
        BY <1>1, <1>5, <1>6
    <2> HIDE DEF p, path, entry
    <2>3. QED
        BY <1>9, <1>11, <2>1, <2>2 DEF Visiting
<1>13. \A e \in data' : e[1] \in Seq(Segments)
    <2>1. \A e \in data : e[1] \in Seq(Segments)
        BY DEF IInv, TypeOK
    <2>2. currentPath \in Seq(Segments)
        BY <1>4, ConcatProperties
    <2>3. entry[1] \in Seq(Segments)
        BY <2>2
    <2> HIDE DEF entry
    <2>4. QED
        BY <1>1, <2>1, <2>3
<1>14. \A i \in DOMAIN todo' : IsPlace(input, todo'[i].at)
    <2>1. <<>> \in Todo /\ \A i \in DOMAIN <<>> : IsPlace(input, <<>>[i].at)
        BY DEF Todo
    <2>2. \A i \in DOMAIN Rest : IsPlace(input, Rest[i].at)
        BY <1>2, <2>1, RestPlaces
    <2>3. QED
        BY <1>1, <2>2
<1>15. QED
    BY <1>1, <1>3, <1>12, <1>13, <1>14

\* The key of an entry is that of a leaf visited before: two leaves have it.
LEMMA DuplicateIsAmbiguous ==
    ASSUME IInv, ThrowDuplicate
    PROVE  Ambiguous(input)
<1> DEFINE p == First.at
           path == FlattenSeq(residue)
<1>1. Calls("visit") /\ Value.kind = "scalar" /\ ContainsKey(currentPath)
    BY DEF ThrowDuplicate
<1>2. phase = "visiting"
    BY <1>1 DEF Calls
<1>3. /\ p \in Leaves(input) /\ p \notin Visited
      /\ currentPath = path \o Key(p)
      /\ path \in Seq(Segments) /\ Key(p) \in Seq(Segments)
    BY <1>1, AtScalar
<1>4. Visiting
    BY <1>2, InputType
<1>5. PICK q \in Visited : path \o Key(q) = currentPath
    <2>1. data = Entries(path, Visited)
        BY <1>4 DEF Visiting
    <2>2. PICK e \in data : e[1] = currentPath
        BY <1>1 DEF ContainsKey
    <2>3. PICK q \in Visited : e = <<path \o Key(q), Last(q).node.value>>
        BY <2>1, <2>2 DEF Entries
    <2>4. path \o Key(q) = currentPath
        BY <2>2, <2>3
    <2>5. QED
        BY <2>4
<1>6. q \in Leaves(input) /\ q # p
    BY <1>3, <1>5 DEF Visited
<1>7. Key(q) \in Seq(Segments)
    <2>1. q \in Seq(AllElements)
        BY <1>2, <1>6, TheLeaves DEF Places
    <2>2. QED
        BY <2>1, NamesType
<1>8. Key(q) = Key(p)
    <2> HIDE DEF path, p
    <2>1. path \o Key(q) = path \o Key(p)
        BY <1>3, <1>5
    <2>2. \A s, t, v \in Seq(Segments) : s \o t = s \o v => t = v
        BY ConcatSimplifications, Zenon
    <2>3. QED
        BY <1>3, <1>7, <2>1, <2>2
<1>9. QED
    BY <1>3, <1>6, <1>8 DEF Ambiguous

\* At the start the calls are those for the members of the root, and no leaf has
\* been visited.
LEMMA ParseVisits ==
    ASSUME IInv, NEW d \in Documents \cup {Malformed}, Parse(d)
    PROVE  /\ phase' = "visiting" => Visiting'
           /\ todo' \in Todo /\ \A i \in DOMAIN todo' : IsPlace(d, todo'[i].at)
<1> DEFINE u == VisitEach(d, <<>>)
<1>1. /\ data' = {} /\ input' = d /\ residue' = context /\ context' = context
      /\ IF Readable(d) THEN phase' = "visiting" /\ todo' = u
                        ELSE phase' = "threw" /\ todo' = <<>>
    BY DEF Parse, Readable
<1>2. CASE ~Readable(d)
    <2>1. todo' = <<>> /\ phase' = "threw"
        BY <1>1, <1>2
    <2>2. QED
        BY <2>1 DEF Todo
<1>3. CASE Readable(d)
    <2>1. d \in Documents /\ d \in Nodes /\ d.kind = "object" /\ todo' = u
        BY <1>1, <1>3, NodesAssumption DEF Readable
    <2>2. <<>> \in Seq(AllElements) /\ <<>> \in Places(d) /\ NodeAt(d, <<>>) = d
        BY DEF Places, IsPlace, NodeAt
    <2>3. u \in Todo /\ Start(u, <<>>) = <<>> /\ Chained(u, <<>>) /\ Apart(u)
        BY <2>1, <2>2, EachType, EachChained, EachApart
    <2>4. \A i \in DOMAIN u : IsPlace(d, u[i].at)
        BY <2>1, <2>2, EachPlaces
    <2>5. ASSUME NEW b \in Leaves(d)
          PROVE  Pending(u, b)
        <3>1. b \in Places(d) /\ NodeAt(d, b).kind = "scalar"
            BY <2>1, LeavesAreAll
        <3>2. Leads(<<>>, b)
            BY <3>1, LenProperties DEF Leads, Places
        <3>3. NodeAt(d, <<>>).kind # "scalar" /\ u = VisitEach(NodeAt(d, <<>>), <<>>)
            BY <2>1, <2>2
        <3>4. QED
            BY <2>1, <2>2, <3>1, <3>2, <3>3, EachPending
    <2> HIDE DEF u
    <2>6. Visited' = {}
        <3>1. Visited' = {b \in Leaves(d) : ~Pending(u, b)}
            BY <1>1, <2>1 DEF Visited, Leaves
        <3>2. QED
            BY <2>5, <3>1
    <2>7. (data = Entries(FlattenSeq(residue), Visited))'
        <3>1. Entries(FlattenSeq(residue'), Visited') = {}
            BY <2>6 DEF Entries
        <3>2. QED
            BY <1>1, <3>1 DEF Entries
    <2>8. (\A p, q \in Visited : Key(p) = Key(q) => p = q)'
        BY <2>6
    <2>9. (context = residue \o Names(Start(todo, <<>>)))'
        <3>1. context \in Seq(Seq(Segments))
            BY DEF IInv, TypeOK
        <3>2. context \o <<>> = context
            BY <3>1, ConcatEmptySeq
        <3>3. Names(Start(todo', <<>>)) = <<>>
            BY <2>1, <2>3, NamesOfNone
        <3>4. context' = residue' \o Names(Start(todo', <<>>))
            BY <1>1, <3>2, <3>3
        <3>5. QED
            BY <3>4
    <2>10. (Readable(input) /\ Chained(todo, <<>>) /\ Apart(todo))'
        <3>1. Readable(input)'
            BY <1>1, <1>3 DEF Readable
        <3>2. QED
            BY <2>1, <2>3, <3>1
    <2>11. Visiting'
        BY <2>7, <2>8, <2>9, <2>10 DEF Visiting
    <2>12. QED
        BY <2>1, <2>3, <2>4, <2>11
<1>4. QED
    BY <1>2, <1>3

\* With no call left, every leaf has been visited and the stack is that of the start.
LEMMA AtReturn ==
    ASSUME IInv, phase = "visiting", todo = <<>>
    PROVE  /\ Visited = Leaves(input)
           /\ data = Entries(FlattenSeq(residue), Leaves(input))
           /\ context = residue
           /\ Readable(input) /\ ~Ambiguous(input)
<1>1. Visiting /\ residue \in Seq(Seq(Segments))
    BY InputType
<1>2. Visited = Leaves(input)
    BY NothingPending DEF Visited
<1>3. context = residue
    <2>1. Start(todo, <<>>) = <<>>
        BY DEF Start
    <2>2. context = residue \o <<>>
        BY <1>1, <2>1, NamesOfNone DEF Visiting
    <2>3. QED
        BY <1>1, <2>2, ConcatEmptySeq
<1>4. data = Entries(FlattenSeq(residue), Leaves(input)) /\ Readable(input)
    BY <1>1, <1>2 DEF Visiting
<1>5. \A p, q \in Leaves(input) : Key(p) = Key(q) => p = q
    BY <1>1, <1>2 DEF Visiting
<1>6. ~Ambiguous(input)
    BY <1>5 DEF Ambiguous
<1>7. QED
    BY <1>2, <1>3, <1>4, <1>6

-------------------------------------------------------------------------------
LEMMA InitIsIInv == Init => IInv
<1> SUFFICES ASSUME Init
             PROVE  IInv
    OBVIOUS
<1>1. /\ data = {} /\ context = <<>> /\ todo = <<>> /\ phase = "idle"
      /\ input = Malformed /\ residue = <<>> /\ parses = 0
    BY DEF Init
<1>2. TypeOK
    BY <1>1, MaxParsesAssumption DEF TypeOK
<1>3. QED
    BY <1>1, <1>2 DEF IInv, ReturnsTheLeaves, StackRestored, ThrowsOnlyOnAmbiguity

\* What the invariant says outside a visit, where only Return and a throw change it.
LEMMA VisitGoesOn ==
    ASSUME TypeOK', Visiting', phase' = "visiting"
    PROVE  IInv'
    BY DEF IInv, ReturnsTheLeaves, StackRestored, ThrowsOnlyOnAmbiguity

\* The types of a step of the visit.
LEMMA StepTypes ==
    ASSUME IInv, UNCHANGED <<phase, input, residue, parses>>, phase = "visiting",
           \A e \in data' : e[1] \in Seq(Segments), context' \in Seq(Seq(Segments)),
           todo' \in Todo, \A i \in DOMAIN todo' : IsPlace(input, todo'[i].at)
    PROVE  TypeOK'
<1>1. /\ input \in Documents \cup {Malformed} /\ parses \in 0..MaxParses
      /\ residue \in Seq(Seq(Segments))
    BY DEF IInv, TypeOK
<1>2. (\A i \in DOMAIN todo : IsPlace(input, todo[i].at))'
    BY DEF IsPlace
<1>3. todo' \in Seq([call : {"enter", "visit", "exit"}, at : Seq(AllElements) \ {<<>>}])
    BY DEF Todo, CallTypes
<1>4. QED
    BY <1>1, <1>2, <1>3 DEF TypeOK

LEMMA StepKeepsIInv == IInv /\ [Next]_vars => IInv'
<1> SUFFICES ASSUME IInv, [Next]_vars
             PROVE  IInv'
    OBVIOUS
<1>1. /\ \A e \in data : e[1] \in Seq(Segments)
      /\ context \in Seq(Seq(Segments)) /\ residue \in Seq(Seq(Segments))
      /\ input \in Documents \cup {Malformed} /\ parses \in 0..MaxParses
    BY DEF IInv, TypeOK
<1>2. ASSUME NEW d \in Documents \cup {Malformed}, Parse(d)
      PROVE  IInv'
    <2>1. /\ phase' = "visiting" => Visiting'
          /\ todo' \in Todo /\ \A i \in DOMAIN todo' : IsPlace(d, todo'[i].at)
        BY <1>2, ParseVisits
    <2>2. /\ parses < MaxParses /\ parses' = parses + 1
          /\ data' = {} /\ input' = d /\ residue' = context /\ context' = context
          /\ IF Readable(d) THEN phase' = "visiting"
                            ELSE phase' = "threw" /\ todo' = <<>>
        BY <1>2 DEF Parse, Readable
    <2>3. TypeOK'
        <3>1. parses' \in 0..MaxParses
            BY <1>1, <2>2, MaxParsesAssumption
        <3>2. (\A i \in DOMAIN todo : IsPlace(input, todo[i].at))'
            BY <2>1, <2>2 DEF IsPlace
        <3>3. todo' \in Seq([call : {"enter", "visit", "exit"}, at : Seq(AllElements) \ {<<>>}])
            BY <2>1 DEF Todo, CallTypes
        <3>4. phase' \in {"visiting", "threw"} /\ (phase' # "visiting" => todo' = <<>>)
            BY <2>2
        <3>5. /\ input' \in Documents \cup {Malformed} /\ \A e \in data' : e[1] \in Seq(Segments)
              /\ context' \in Seq(Seq(Segments)) /\ residue' \in Seq(Seq(Segments))
            BY <1>1, <2>2
        <3>6. QED
            BY <3>1, <3>2, <3>3, <3>4, <3>5 DEF TypeOK
    <2>4. CASE Readable(d)
        BY <2>1, <2>2, <2>3, <2>4, VisitGoesOn
    <2>5. CASE ~Readable(d)
        <3>1. phase' = "threw" /\ ~Readable(input)'
            BY <2>2, <2>5 DEF Readable
        <3>2. QED
            BY <2>3, <3>1 DEF IInv, ReturnsTheLeaves, StackRestored, ThrowsOnlyOnAmbiguity
    <2>6. QED
        BY <2>4, <2>5
<1>3. CASE EnterContext
    <2>1. phase = "visiting" /\ UNCHANGED <<data, phase, input, residue, parses>>
        BY <1>3 DEF EnterContext, Calls
    <2>2. /\ Visiting' /\ todo' \in Todo /\ context' \in Seq(Seq(Segments))
          /\ \A i \in DOMAIN todo' : IsPlace(input, todo'[i].at)
        BY <1>3, EnterVisits
    <2>3. TypeOK'
        BY <1>1, <2>1, <2>2, StepTypes
    <2>4. QED
        BY <2>1, <2>2, <2>3, VisitGoesOn
<1>4. CASE VisitContainer
    <2>1. phase = "visiting" /\ UNCHANGED <<data, context, phase, input, residue, parses>>
        BY <1>4 DEF VisitContainer, Calls
    <2>2. /\ Visiting' /\ todo' \in Todo
          /\ \A i \in DOMAIN todo' : IsPlace(input, todo'[i].at)
        BY <1>4, ContainerVisits
    <2>3. TypeOK'
        BY <1>1, <2>1, <2>2, StepTypes
    <2>4. QED
        BY <2>1, <2>2, <2>3, VisitGoesOn
<1>5. CASE VisitScalar
    <2>1. phase = "visiting" /\ UNCHANGED <<context, phase, input, residue, parses>>
        BY <1>5 DEF VisitScalar, Calls
    <2>2. /\ Visiting' /\ todo' \in Todo /\ \A e \in data' : e[1] \in Seq(Segments)
          /\ \A i \in DOMAIN todo' : IsPlace(input, todo'[i].at)
        BY <1>5, ScalarVisits
    <2>3. TypeOK'
        BY <1>1, <2>1, <2>2, StepTypes
    <2>4. QED
        BY <2>1, <2>2, <2>3, VisitGoesOn
<1>6. CASE ThrowDuplicate
    <2>1. /\ phase' = "threw" /\ todo' = <<>>
          /\ UNCHANGED <<data, context, input, residue, parses>>
        BY <1>6 DEF ThrowDuplicate
    <2>2. Ambiguous(input)'
        <3>1. Ambiguous(input)
            BY <1>6, DuplicateIsAmbiguous
        <3>2. QED
            BY <2>1, <3>1 DEF Ambiguous, Leaves
    <2>3. TypeOK'
        <3>1. <<>> \in Seq([call : {"enter", "visit", "exit"}, at : Seq(AllElements) \ {<<>>}])
            OBVIOUS
        <3>2. QED
            BY <1>1, <2>1, <3>1 DEF TypeOK
    <2>4. QED
        BY <2>1, <2>2, <2>3 DEF IInv, ReturnsTheLeaves, StackRestored, ThrowsOnlyOnAmbiguity
<1>7. CASE ExitContext
    <2>1. phase = "visiting" /\ UNCHANGED <<data, phase, input, residue, parses>>
        BY <1>7 DEF ExitContext, Calls
    <2>2. /\ Visiting' /\ todo' \in Todo /\ context' \in Seq(Seq(Segments))
          /\ \A i \in DOMAIN todo' : IsPlace(input, todo'[i].at)
        BY <1>7, ExitVisits
    <2>3. TypeOK'
        BY <1>1, <2>1, <2>2, StepTypes
    <2>4. QED
        BY <2>1, <2>2, <2>3, VisitGoesOn
<1>8. CASE Return
    <2>1. /\ phase = "visiting" /\ todo = <<>> /\ phase' = "returned"
          /\ UNCHANGED <<data, context, todo, input, residue, parses>>
        BY <1>8 DEF Return
    <2>2. /\ data = Entries(FlattenSeq(residue), Leaves(input)) /\ context = residue
          /\ Readable(input) /\ ~Ambiguous(input)
        BY <2>1, AtReturn
    <2>3. /\ (data = Entries(FlattenSeq(residue), Leaves(input)))'
          /\ (context = residue)' /\ Readable(input)' /\ ~Ambiguous(input)'
        BY <2>1, <2>2 DEF Entries, Leaves, Readable, Ambiguous
    <2>4. TypeOK'
        <3>1. TypeOK
            BY DEF IInv
        <3>2. QED
            BY <2>1, <3>1 DEF TypeOK
    <2>5. QED
        BY <2>1, <2>3, <2>4 DEF IInv, ReturnsTheLeaves, StackRestored, ThrowsOnlyOnAmbiguity
<1>9. CASE UNCHANGED vars
    <2>1. UNCHANGED <<data, context, todo, phase, input, residue, parses>>
        BY <1>9 DEF vars
    <2>2. TypeOK'
        <3>1. TypeOK
            BY DEF IInv
        <3>2. QED
            BY <2>1, <3>1 DEF TypeOK
    <2>3. (phase = "visiting" => Visiting)'
        <3>1. Leaves(input)' = Leaves(input)
            BY <2>1 DEF Leaves
        <3>2. Visited' = Visited
            BY <2>1, <3>1 DEF Visited
        <3>3. ASSUME phase = "visiting"
              PROVE  Visiting'
            <4>1. Visiting
                BY <3>3 DEF IInv
            <4>2. /\ Chained(todo', <<>>) /\ Apart(todo')
                  /\ context' = residue \o Names(Start(todo', <<>>))
                BY <2>1, <4>1 DEF Visiting
            <4>3. QED
                BY <2>1, <3>2, <4>1, <4>2, SameEntries
        <3>4. QED
            BY <2>1, <3>3
    <2>4. (ReturnsTheLeaves /\ StackRestored /\ ThrowsOnlyOnAmbiguity)'
        <3>1. ReturnsTheLeaves /\ StackRestored /\ ThrowsOnlyOnAmbiguity
            BY DEF IInv
        <3>2. QED
            BY <2>1, <3>1 DEF ReturnsTheLeaves, StackRestored, ThrowsOnlyOnAmbiguity,
                              Entries, Leaves, Readable, Ambiguous
    <2>5. QED
        BY <2>2, <2>3, <2>4 DEF IInv
<1>10. QED
    BY <1>2, <1>3, <1>4, <1>5, <1>6, <1>7, <1>8, <1>9 DEF Next

-------------------------------------------------------------------------------
LEMMA Invariance == Spec => []IInv
<1>1. Init => IInv
    BY InitIsIInv
<1>2. IInv /\ [Next]_vars => IInv'
    BY StepKeepsIInv
<1>3. QED
    BY <1>1, <1>2, PTL DEF Spec

\* The calls still to make are always about places of the document the parser
\* reads, and what the dictionary and the stack hold are paths.
THEOREM TypeCorrect == Spec => []TypeOK
<1>1. IInv => TypeOK
    BY DEF IInv
<1>2. QED
    BY <1>1, Invariance, PTL

\* Parse returns the scalars of its document, all of them and no other entry,
\* each under the names that lead to it, below what was on the stack.
THEOREM ReturnsEveryLeaf == Spec => []ReturnsTheLeaves
<1>1. IInv => ReturnsTheLeaves
    BY DEF IInv
<1>2. QED
    BY <1>1, Invariance, PTL

\* A visit that is not cut short pops every name it pushed.
THEOREM StackIsRestored == Spec => []StackRestored
<1>1. IInv => StackRestored
    BY DEF IInv
<1>2. QED
    BY <1>1, Invariance, PTL

\* A key is found in the dictionary only if two scalars of the document have it,
\* and if two have it the second finds it.
THEOREM ThrowsOnAmbiguity == Spec => []ThrowsOnlyOnAmbiguity
<1>1. IInv => ThrowsOnlyOnAmbiguity
    BY DEF IInv
<1>2. QED
    BY <1>1, Invariance, PTL

\* The promise of IConfigurationParser holds as long as no document names a key
\* twice: only the exception for a duplicate leaves anything on the stack.
THEOREM UnambiguousAreParsedAlone ==
    ASSUME \A d \in Documents : ~Ambiguous(d)
    PROVE  Spec => []ParsesTheStream
<1> DEFINE Clean == residue = <<>> /\ (phase # "visiting" => context = <<>>)
<1>1. Init => Clean
    BY DEF Init
<1>2. ASSUME IInv, Clean, [Next]_vars
      PROVE  Clean'
    <2>1. ASSUME NEW d \in Documents \cup {Malformed}, Parse(d)
          PROVE  Clean'
        BY <1>2, <2>1 DEF Parse
    <2>2. CASE EnterContext \/ VisitContainer \/ VisitScalar \/ ExitContext
        BY <1>2, <2>2 DEF EnterContext, VisitContainer, VisitScalar, ExitContext, Calls
    <2>3. CASE ThrowDuplicate
        <3>1. Ambiguous(input) /\ phase = "visiting"
            BY <1>2, <2>3, DuplicateIsAmbiguous DEF ThrowDuplicate, Calls
        <3>2. input \in Documents
            BY <1>2, <3>1, InputType
        <3>3. QED
            BY <3>1, <3>2
    <2>4. CASE Return
        <3>1. phase = "visiting" /\ todo = <<>> /\ UNCHANGED <<context, residue>>
            BY <2>4 DEF Return
        <3>2. context = residue
            BY <1>2, <3>1, AtReturn
        <3>3. QED
            BY <1>2, <3>1, <3>2
    <2>5. CASE UNCHANGED vars
        BY <1>2, <2>5 DEF vars
    <2>6. QED
        BY <1>2, <2>1, <2>2, <2>3, <2>4, <2>5 DEF Next
<1>3. IInv /\ Clean => ParsesTheStream
    <2>1. FlattenSeq(<<>>) = <<>>
        BY EmptySeq DEF FlattenSeq
    <2>2. QED
        BY <2>1 DEF IInv, ReturnsTheLeaves, ParsesTheStream
<1>4. QED
    BY <1>1, <1>2, <1>3, Invariance, PTL DEF Spec
===============================================================================
