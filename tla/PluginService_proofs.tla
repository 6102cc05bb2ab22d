-------------------------- MODULE PluginService_proofs --------------------------
(***************************************************************************)
(* The chains and the plugin service, for any middlewares, levels, lists and   *)
(* number of calls of next.                                                  *)
(***************************************************************************)
EXTENDS PluginService, FiniteSetTheorems, SequenceTheorems, TLAPS

\* Picking from a list gives a list of its elements, in the order of the picks.
LEMMA PickedList ==
    ASSUME NEW T, NEW list \in Seq(T), NEW K \in SUBSET (DOMAIN list),
           NEW p \in [1..Cardinality(K) -> K]
    PROVE  /\ Cardinality(K) \in Nat
           /\ Picked(list, p) \in Seq(T)
           /\ Len(Picked(list, p)) = Cardinality(K)
           /\ \A n \in 1..Cardinality(K) : Picked(list, p)[n] = list[p[n]]
<1>1. DOMAIN list = 1..Len(list) /\ Len(list) \in Nat /\ \A n \in DOMAIN list : list[n] \in T
    BY LenProperties
<1>2. Cardinality(K) \in Nat
    <2>1. IsFiniteSet(1..Len(list))
        BY <1>1, FS_Interval
    <2>2. IsFiniteSet(K)
        BY <1>1, <2>1, FS_Subset
    <2>3. QED
        BY <2>2, FS_CardinalityType
<1>3. Picked(list, p) = [n \in 1..Cardinality(K) |-> list[p[n]]]
    BY DEF Picked
<1>4. [n \in 1..Cardinality(K) |-> list[p[n]]] \in [1..Cardinality(K) -> T]
    <2>1. ASSUME NEW n \in 1..Cardinality(K)
          PROVE  list[p[n]] \in T
        <3>1. p[n] \in K
            OBVIOUS
        <3>2. QED
            BY <1>1, <3>1
    <2>2. QED
        BY <2>1
<1>5. Picked(list, p) \in Seq(T)
    <2> DEFINE f == [n \in 1..Cardinality(K) |-> list[p[n]]]
    <2>1. f \in [1..Cardinality(K) -> T]
        BY <1>4
    <2> HIDE DEF f
    <2>2. f \in Seq(T)
        BY <1>2, <2>1, SeqDef
    <2>3. QED
        BY <1>3, <2>2 DEF f
<1>6. DOMAIN Picked(list, p) = 1..Len(Picked(list, p)) /\ Len(Picked(list, p)) \in Nat
    BY <1>5, LenProperties
<1>7. Len(Picked(list, p)) = Cardinality(K)
    <2>1. 1..Len(Picked(list, p)) = 1..Cardinality(K)
        BY <1>3, <1>6
    <2>2. QED
        BY <1>2, <1>6, <2>1
<1>8. QED
    BY <1>2, <1>3, <1>5, <1>7

\* Only the asynchronous chain of plugins arranges its list, by ascending levels.
LEMMA ArrangedList ==
    ASSUME NEW k \in Kinds, NEW list \in Seq(Middlewares), NEW s \in Arranged(k, list)
    PROVE  /\ s \in Seq(Middlewares)
           /\ k = "async" => \A i, j \in 1..Len(s) : i < j => Level[s[i]] <= Level[s[j]]
           /\ list = <<>> => s = <<>>
<1>1. CASE k # "async"
    BY <1>1 DEF Arranged
<1>2. CASE k = "async"
    <2> DEFINE K == {i \in DOMAIN list : list[i] \in IsPlugin}
    <2>1. PICK p \in Picks(K, Precede(list)) : s = Picked(list, p)
        BY <1>2 DEF Arranged
    <2>2. /\ p \in [1..Cardinality(K) -> K]
          /\ \A m, n \in 1..Cardinality(K) : m < n => <<p[m], p[n]>> \in Precede(list)
        BY <2>1 DEF Picks
    <2>3. /\ s \in Seq(Middlewares)
          /\ Len(s) = Cardinality(K) /\ Cardinality(K) \in Nat
          /\ \A n \in 1..Cardinality(K) : s[n] = list[p[n]]
        <3> HIDE DEF K
        <3>1. K \in SUBSET (DOMAIN list)
            BY DEF K
        <3>2. QED
            BY <2>1, <2>2, <3>1, PickedList
    <2>4. ASSUME NEW i \in 1..Len(s), NEW j \in 1..Len(s), i < j
          PROVE  Level[s[i]] <= Level[s[j]]
        <3>1. <<p[i], p[j]>> \in Precede(list)
            BY <2>2, <2>3, <2>4
        <3>2. list[p[i]] \in Middlewares /\ list[p[j]] \in Middlewares
            BY <2>2, <2>3, LenProperties
        <3>3. Level[list[p[i]]] \in Nat /\ Level[list[p[j]]] \in Nat
            BY <3>2, MiddlewaresAssumption
        <3>4. Level[list[p[i]]] <= Level[list[p[j]]]
            BY <3>1, <3>3 DEF Precede
        <3>5. s[i] = list[p[i]] /\ s[j] = list[p[j]]
            BY <2>3
        <3>6. QED
            BY <3>4, <3>5
    <2>5. ASSUME list = <<>>
          PROVE  s = <<>>
        <3>1. K = {}
            BY <2>5
        <3>2. Cardinality(K) = 0
            BY <3>1, FS_EmptySet
        <3>3. QED
            BY <2>3, <3>2
    <2>6. QED
        BY <2>3, <2>4, <2>5
<1>3. QED
    BY <1>1, <1>2
-------------------------------------------------------------------------------
(***************************************************************************)
(* The chains.                                                               *)
(***************************************************************************)
Frames == [who : Middlewares, next : {"chain", "final"}, calls : 0..MaxCalls]

\* Only the middleware on top of the stack may not have called its next, and what
\* it would call, if nobody has called again, has something left to run.
CallsFit ==
    /\ func = "final" => index = Len(ordered)
    /\ outcome # "none" => frames = <<>> /\ calling = "none"
    /\ calling = "final" => index = Len(ordered) /\ frames # <<>>
    /\ calling = "chain" /\ ~repeated => index < Len(ordered) \/ ordered = <<>>
    /\ \A i \in 1..Len(frames) :
          /\ frames[i].next = "final" => index = Len(ordered)
          /\ ~repeated /\ frames[i].calls = 0 /\ frames[i].next = "chain" => index < Len(ordered)
          /\ i < Len(frames) \/ calling # "none" => frames[i].calls > 0

\* While nothing has gone wrong, the final function is still to come as long as
\* the middleware on top has not called its next, and has been called afterwards.
Undisturbed == ~cut /\ ~repeated /\ failed = {} /\ ordered # <<>>
FinalIsDue ==
    Undisturbed =>
        IF calling # "none" \/ (frames # <<>> /\ Top.calls = 0)
        THEN finals = 0
        ELSE finals = 1 /\ index = Len(ordered)

ListFits ==
    kind = "async" => \A i, j \in 1..Len(ordered) : i < j => Level[ordered[i]] <= Level[ordered[j]]

CInv ==
    /\ ChainTypeOK
    /\ CallsFit
    /\ FinalIsDue
    /\ ListFits
    /\ InOrder
    /\ FinalComesLast
    /\ OverrunExplained

\* The stack without its top.
LEMMA BelowProperties ==
    ASSUME ChainTypeOK, frames # <<>>
    PROVE  /\ Below \in Seq(Frames) /\ Len(Below) = Len(frames) - 1
           /\ \A i \in 1..Len(Below) : Below[i] = frames[i]
           /\ Len(frames) \in 1..Len(frames) /\ Top \in Frames
<1>1. frames \in Seq(Frames)
    BY DEF ChainTypeOK, Frames
<1>2. Len(frames) \in Nat \ {0} /\ \A i \in 1..Len(frames) : frames[i] \in Frames
    BY <1>1, LenProperties, EmptySeq
<1>3. /\ SubSeq(frames, 1, Len(frames) - 1) \in Seq(Frames)
      /\ Len(SubSeq(frames, 1, Len(frames) - 1)) = Len(frames) - 1
      /\ \A i \in 1..Len(frames) - 1 : SubSeq(frames, 1, Len(frames) - 1)[i] = frames[i]
    <2> DEFINE m == 1
               n == Len(frames) - 1
    <2>1. m \in Int /\ n \in Int /\ n - m + 1 = Len(frames) - 1
        BY <1>2
    <2>2. \A i \in m..n : frames[i] \in Frames
        BY <1>2
    <2>3. /\ SubSeq(frames, m, n) \in Seq(Frames)
          /\ Len(SubSeq(frames, m, n)) = IF m <= n THEN n - m + 1 ELSE 0
          /\ \A i \in 1..n - m + 1 : SubSeq(frames, m, n)[i] = frames[m + i - 1]
        <3> HIDE DEF m, n
        <3>1. QED
            BY <2>1, <2>2, SubSeqProperties
    <2>4. n \in Nat /\ n - m + 1 = n /\ (IF m <= n THEN n - m + 1 ELSE 0) = n
        BY <1>2
    <2>5. \A i \in 1..n : SubSeq(frames, m, n)[i] = frames[i]
        <3>1. ASSUME NEW i \in 1..n
              PROVE  m + i - 1 = i
            OBVIOUS
        <3> HIDE DEF m, n
        <3>2. QED
            BY <2>3, <2>4, <3>1
    <2>6. Len(SubSeq(frames, m, n)) = n
        <3> HIDE DEF m, n
        <3>1. QED
            BY <2>3, <2>4
    <2>7. QED
        BY <2>3, <2>5, <2>6
<1>4. Below \in Seq(Frames) /\ Len(Below) = Len(frames) - 1 /\ \A i \in 1..Len(Below) : Below[i] = frames[i]
    BY <1>3 DEF Below
<1>5. QED
    BY <1>2, <1>3, <1>4 DEF Top

\* The constructor of a chain has executed nothing yet.
LEMMA InitCInv == Init => CInv
<1> SUFFICES ASSUME Init
             PROVE  CInv
    OBVIOUS
<1>1. ChainTypeOK
    <2>1. <<>> \in Seq(Middlewares) /\ <<>> \in Seq(Frames) /\ Len(<<>>) = 0
        OBVIOUS
    <2>2. {cut, repeated} \subseteq BOOLEAN
        BY DEF Init
    <2>3. QED
        BY <2>1, <2>2 DEF Init, ChainTypeOK, Kinds, Frames
<1>2. QED
    BY <1>1 DEF Init, CInv, CallsFit, FinalIsDue, Undisturbed, ListFits, InOrder,
        FinalComesLast, OverrunExplained

\* A new execution starts at the first of the arranged list.
LEMMA ExecuteStep ==
    ASSUME CInv, NEW k \in Kinds, NEW list \in Seq(Middlewares), Execute(k, list)
    PROVE  CInv'
<1>1. /\ ordered' \in Seq(Middlewares)
      /\ ListFits'
      /\ list = <<>> => ordered' = <<>>
    BY ArrangedList DEF Execute, ListFits
<1>2. Len(ordered') \in Nat /\ (Len(ordered') = 0 => ordered' = <<>>)
    BY <1>1, LenProperties, EmptySeq
<1>3. ChainTypeOK'
    <2>1. <<>> \in Seq(Middlewares) /\ <<>> \in Seq(Frames)
        OBVIOUS
    <2>2. {cut', repeated'} \subseteq BOOLEAN
        BY DEF Execute
    <2>3. outcome' \in {"none", "returned", "threw"} /\ calling' \in {"none", "chain", "final"}
        BY DEF Execute
    <2>4. QED
        BY <1>1, <1>2, <2>1, <2>2, <2>3 DEF Execute, ChainTypeOK, Frames
<1>4. CallsFit'
    BY <1>1, <1>2 DEF Execute, CallsFit
<1>5. FinalIsDue'
    BY <1>1, <1>2 DEF Execute, FinalIsDue, Undisturbed
<1>6. InOrder' /\ FinalComesLast' /\ OverrunExplained'
    BY <1>1, <1>2 DEF Execute, InOrder, FinalComesLast, OverrunExplained
<1>7. QED
    BY <1>1, <1>3, <1>4, <1>5, <1>6 DEF CInv
-------------------------------------------------------------------------------
USE DEF CallsFit, FinalIsDue, Undisturbed, ListFits, InOrder, FinalComesLast, OverrunExplained

\* A middleware is put on top of the stack.
LEMMA RunStep == CInv /\ Run => CInv'
<1> SUFFICES ASSUME CInv, Run
             PROVE  CInv'
    OBVIOUS
<1> DEFINE m == ordered[index + 1]
           frame == [who |-> m, next |-> NextAfter(index + 1), calls |-> 0]
<1>1. /\ index \in Nat /\ Len(ordered) \in Nat /\ index + 1 \in 1..Len(ordered)
      /\ Len(frames) \in Nat /\ Len(ran) \in Nat /\ frames \in Seq(Frames)
    BY LenProperties DEF CInv, ChainTypeOK, Run, Frames
<1>2. m \in Middlewares /\ frame \in Frames
    BY <1>1, MaxCallsAssumption, LenProperties DEF CInv, ChainTypeOK, NextAfter, Frames
<1>3. /\ frames' = Append(frames, frame) /\ frames' \in Seq(Frames)
      /\ Len(frames') = Len(frames) + 1
      /\ \A i \in 1..Len(frames) : frames'[i] = frames[i]
      /\ frames'[Len(frames) + 1] = frame
    <2> HIDE DEF frame
    <2>1. frames' = Append(frames, frame)
        BY DEF Run, frame
    <2>2. QED
        BY <1>1, <1>2, <2>1, AppendProperties
<1>4. /\ ran' \in Seq(Middlewares) /\ Len(ran') = Len(ran) + 1
      /\ \A i \in 1..Len(ran) : ran'[i] = ran[i]
      /\ ran'[Len(ran) + 1] = m
    <2> HIDE DEF m
    <2>1. ran' = Append(ran, m) /\ ran \in Seq(Middlewares)
        BY DEF Run, m, CInv, ChainTypeOK
    <2>2. QED
        BY <1>2, <2>1, AppendProperties
<1>5. ChainTypeOK'
    BY <1>1, <1>3, <1>4 DEF Run, NextAfter, CInv, ChainTypeOK, Frames
<1>6. CallsFit'
    BY <1>1, <1>3 DEF Run, NextAfter, CInv, ChainTypeOK
<1>7. FinalIsDue'
    <2>1. Top' = frames'[Len(frames) + 1] /\ Top'.calls = 0 /\ frames' # <<>>
        BY <1>1, <1>3 DEF Top
    <2>2. ASSUME Undisturbed
          PROVE  finals = 0
        BY <2>2 DEF Run, CInv
    <2>3. Undisturbed' => Undisturbed
        BY DEF Run
    <2>4. finals' = finals
        BY DEF Run
    <2>5. QED
        <3> HIDE DEF Undisturbed, frame, m
        <3>1. QED
            BY <2>1, <2>2, <2>3, <2>4
<1>8. InOrder'
    BY <1>1, <1>4 DEF Run, CInv
<1>9. ListFits' /\ FinalComesLast' /\ OverrunExplained'
    BY <1>1 DEF Run, CInv
<1>10. QED
    BY <1>5, <1>6, <1>7, <1>8, <1>9 DEF CInv

\* The function throws, or the final one has run.
LEMMA FunctionStepPreserves == CInv /\ Function => CInv'
<1> SUFFICES ASSUME CInv, Function
             PROVE  CInv'
    OBVIOUS
<1>0. index \in 0..Len(ordered) /\ Len(ordered) \in Nat /\ Len(frames) \in Nat
    BY LenProperties DEF CInv, ChainTypeOK, Frames
<1>1. CASE Overrun
    <2>1. ChainTypeOK'
        BY <1>1 DEF Overrun, ThrowToCaller, CInv, ChainTypeOK
    <2>2. QED
        BY <1>0, <1>1, <2>1 DEF Overrun, ThrowToCaller, CInv, ChainTypeOK
<1>2. CASE Mismatch
    <2>1. ChainTypeOK'
        BY <1>0, <1>2 DEF Mismatch, NextAfter, ThrowToCaller, CInv, ChainTypeOK
    <2>2. CallsFit'
        BY <1>0, <1>2 DEF Mismatch, NextAfter, ThrowToCaller, CInv, ChainTypeOK
    <2>3. FinalIsDue' /\ ListFits' /\ OverrunExplained'
        BY <1>0, <1>2 DEF Mismatch, ThrowToCaller, CInv
    <2>4. InOrder' /\ FinalComesLast'
        BY <1>0, <1>2, LenProperties DEF Mismatch, ThrowToCaller, CInv, ChainTypeOK
    <2>5. QED
        BY <2>1, <2>2, <2>3, <2>4 DEF CInv
<1>3. CASE Finally
    <2>1. ChainTypeOK'
        BY <1>3 DEF Finally, CInv, ChainTypeOK
    <2>2. Top.calls > 0 /\ Top'.calls > 0 /\ frames # <<>>
        BY <1>0, <1>3, BelowProperties DEF Finally, Top, CInv
    <2>3. QED
        BY <1>0, <1>3, <2>1, <2>2 DEF Finally, CInv, ChainTypeOK
<1>4. QED
    BY <1>1, <1>2, <1>3, RunStep DEF Function

\* A middleware calls its next: if again, that is recorded, and otherwise the
\* function has something left to run.
LEMMA CallNextStep == CInv /\ CallNext => CInv'
<1> SUFFICES ASSUME CInv, CallNext
             PROVE  CInv'
    OBVIOUS
<1> DEFINE called == [Top EXCEPT !.calls = @ + 1]
<1>1. /\ Below \in Seq(Frames) /\ Len(Below) = Len(frames) - 1 /\ Top \in Frames
      /\ \A i \in 1..Len(Below) : Below[i] = frames[i]
      /\ frames # <<>> /\ Len(frames) \in Nat \ {0}
    BY BelowProperties, LenProperties, EmptySeq DEF CInv, CallNext
<1>2. /\ called \in Frames /\ called.next = Top.next /\ called.calls > 0
    <2>1. Top.calls + 1 \in 0..MaxCalls /\ Top.calls + 1 > 0
        BY <1>1, MaxCallsAssumption DEF CallNext, Frames
    <2>2. /\ called = [who |-> Top.who, next |-> Top.next, calls |-> Top.calls + 1]
          /\ Top.who \in Middlewares /\ Top.next \in {"chain", "final"}
        BY <1>1 DEF Frames
    <2>3. QED
        BY <2>1, <2>2 DEF Frames
<1>3. /\ frames' \in Seq(Frames) /\ frames' # <<>>
      /\ Len(frames') = Len(frames)
      /\ \A i \in 1..Len(frames) - 1 : frames'[i] = frames[i]
      /\ frames'[Len(frames)] = called
    <2> HIDE DEF called
    <2>1. frames' = Append(Below, called)
        BY DEF CallNext, called
    <2>2. /\ Append(Below, called) \in Seq(Frames) /\ Append(Below, called) # <<>>
          /\ Len(Append(Below, called)) = Len(Below) + 1
          /\ \A i \in 1..Len(Below) : Append(Below, called)[i] = Below[i]
          /\ Append(Below, called)[Len(Below) + 1] = called
        BY <1>1, <1>2, AppendProperties
    <2>3. Len(Below) + 1 = Len(frames)
        BY <1>1
    <2>4. QED
        BY <1>1, <2>1, <2>2, <2>3
<1>4. Top = frames[Len(frames)] /\ index \in 0..Len(ordered) /\ Len(ordered) \in Nat
    BY LenProperties DEF Top, CInv, ChainTypeOK
<1>5. ChainTypeOK'
    <2>1. repeated' \in BOOLEAN
        BY DEF CallNext
    <2>2. calling' \in {"none", "chain", "final"}
        BY <1>1 DEF CallNext, Frames
    <2>3. frames' \in Seq([who : Middlewares, next : {"chain", "final"}, calls : 0..MaxCalls])
        BY <1>3 DEF Frames
    <2>4. UNCHANGED <<kind, ordered, index, func, outcome, ran, finals, cut, failed>>
        BY DEF CallNext
    <2>5. QED
        BY <2>1, <2>2, <2>3, <2>4 DEF CInv, ChainTypeOK
<1>6. /\ Top.calls \in Nat /\ Top.next \in {"chain", "final"} /\ Top.next # "none"
      /\ called.calls \in Nat
    BY <1>1, <1>2 DEF Frames
<1>7. ~repeated' => ~repeated /\ Top.calls = 0
    <2>1. repeated' = (repeated \/ Top.calls > 0)
        BY DEF CallNext
    <2>2. ~(Top.calls > 0) => Top.calls = 0
        BY <1>6
    <2>3. QED
        BY <2>1, <2>2
<1>8. CallsFit'
    <2>1. Len(frames) \in 1..Len(frames) /\ Len(frames') = Len(frames)
        BY <1>1, <1>3
    <2>2. func' = "final" => index' = Len(ordered')
        BY DEF CallNext, CInv
    <2>3. outcome' # "none" => frames' = <<>> /\ calling' = "none"
        BY <1>1 DEF CallNext, CInv
    <2>4. calling' = "final" => index' = Len(ordered') /\ frames' # <<>>
        BY <1>3, <1>4, <1>6, <2>1 DEF CallNext, CInv
    <2>5. calling' = "chain" /\ ~repeated' => index' < Len(ordered') \/ ordered' = <<>>
        BY <1>4, <1>6, <1>7, <2>1 DEF CallNext, CInv
    <2>6. ASSUME NEW i \in 1..Len(frames')
          PROVE  /\ frames'[i].next = "final" => index' = Len(ordered')
                 /\ ~repeated' /\ frames'[i].calls = 0 /\ frames'[i].next = "chain" => index' < Len(ordered')
                 /\ i < Len(frames') \/ calling' # "none" => frames'[i].calls > 0
        <3> HIDE DEF called
        <3>0. ordered' = ordered /\ index' = index
            BY DEF CallNext
        <3>1. CASE i = Len(frames)
            <4>1. frames'[i] = called
                BY <1>3, <3>1
            <4>2. called.next = "final" => index = Len(ordered)
                BY <1>2, <1>4, <2>1 DEF CInv
            <4>3. called.calls # 0 /\ called.calls > 0
                BY <1>2, <1>6
            <4>4. QED
                BY <3>0, <4>1, <4>2, <4>3
        <3>2. CASE i # Len(frames)
            <4>1. i \in 1..Len(frames) /\ i < Len(frames) /\ frames'[i] = frames[i]
                BY <1>1, <1>3, <2>1, <3>2
            <4>2. frames[i].next = "final" => index = Len(ordered)
                BY <4>1 DEF CInv
            <4>3. frames[i].calls > 0
                BY <4>1 DEF CInv
            <4>4. frames[i].calls # 0
                BY <1>1, <4>1, <4>3
            <4>5. QED
                BY <3>0, <4>1, <4>2, <4>3, <4>4
        <3>3. QED
            BY <3>1, <3>2
    <2>7. QED
        BY <2>2, <2>3, <2>4, <2>5, <2>6
<1>9. FinalIsDue'
    <2>1. ASSUME Undisturbed'
          PROVE  finals = 0
        <3>1. Undisturbed
            BY <1>7, <2>1 DEF CallNext
        <3>2. Top.calls = 0
            BY <1>7, <2>1
        <3>3. QED
            BY <1>1, <3>1, <3>2 DEF CInv
    <2>2. calling' # "none" /\ finals' = finals
        BY <1>6 DEF CallNext
    <2>3. QED
        <3> HIDE DEF Undisturbed
        <3>1. QED
            BY <2>1, <2>2
<1>10. InOrder' /\ ListFits' /\ FinalComesLast' /\ OverrunExplained'
    <2>1. UNCHANGED <<kind, ordered, index, ran, finals, failed>>
        BY DEF CallNext
    <2>2. InOrder' /\ ListFits'
        BY <2>1 DEF CInv
    <2>3. FinalComesLast'
        <3>1. calling' = "final" => index = Len(ordered)
            BY <1>1, <1>4, <1>6 DEF CallNext, CInv
        <3>2. QED
            BY <2>1, <3>1 DEF CInv
    <2>4. OverrunExplained'
        BY <1>7, <2>1 DEF CInv
    <2>5. QED
        BY <2>2, <2>3, <2>4
<1>11. QED
    BY <1>5, <1>8, <1>9, <1>10 DEF CInv

\* A middleware returns or throws to the one below, which has called its next.
LEMMA LeaveStep ==
    ASSUME CInv, NEW how \in {"returned", "threw"}, Leave(how)
    PROVE  CInv'
<1>1. /\ Below \in Seq(Frames) /\ Len(Below) = Len(frames) - 1 /\ Top \in Frames
      /\ \A i \in 1..Len(Below) : Below[i] = frames[i]
      /\ frames # <<>> /\ Len(frames) \in Nat \ {0}
    BY BelowProperties, LenProperties, EmptySeq DEF CInv, Leave
<1>2. frames' = Below /\ index \in 0..Len(ordered) /\ Len(ordered) \in Nat
    BY LenProperties DEF Leave, CInv, ChainTypeOK
<1>3. ChainTypeOK'
    <2>1. cut' \in BOOLEAN /\ outcome' \in {"none", "returned", "threw"}
        BY DEF Leave, CInv, ChainTypeOK
    <2>2. frames' \in Seq([who : Middlewares, next : {"chain", "final"}, calls : 0..MaxCalls])
        BY <1>1, <1>2 DEF Frames
    <2>3. UNCHANGED <<kind, ordered, index, func, calling, ran, finals, repeated, failed>>
        BY DEF Leave
    <2>4. QED
        BY <2>1, <2>2, <2>3 DEF CInv, ChainTypeOK
<1>4. Below # <<>> => Len(Below) > 0 /\ Len(Below) < Len(frames) /\ Len(Below) \in 1..Len(frames)
    BY <1>1, EmptySeq, LenProperties
<1>5. CallsFit'
    <2>1. UNCHANGED <<ordered, index, func, calling, repeated>> /\ calling = "none"
        BY DEF Leave
    <2>2. outcome' # "none" => frames' = <<>>
        BY <1>1, <1>2 DEF Leave, CInv, CallsFit
    <2>3. \A i \in 1..Len(frames') :
              i \in 1..Len(frames) /\ i < Len(frames) /\ frames'[i] = frames[i]
        BY <1>1, <1>2
    <2>4. QED
        BY <2>1, <2>2, <2>3 DEF CInv, CallsFit
<1>6. FinalIsDue'
    <2>1. frames' # <<>> => Top'.calls > 0 /\ Top'.calls # 0
        BY <1>1, <1>2, <1>4 DEF Top, CInv
    <2>2. Top.calls \in Nat
        BY <1>1 DEF Frames
    <2>3. QED
        BY <1>1, <2>1, <2>2 DEF Leave, CInv
<1>7. InOrder' /\ ListFits' /\ FinalComesLast' /\ OverrunExplained'
    BY DEF Leave, CInv
<1>8. QED
    BY <1>3, <1>5, <1>6, <1>7 DEF CInv
-------------------------------------------------------------------------------
(***************************************************************************)
(* The service.                                                              *)
(***************************************************************************)
\* While the services are configured, every registered plugin is still to be
\* reached, has been, or is disabled.
SInv ==
    /\ phase \in {"load", "configure", "ready", "threw"}
    /\ middlewares \in [Events -> Seq(IsPlugin)]
    /\ found \subseteq IsPlugin /\ apart \subseteq IsPlugin /\ enabled \subseteq IsPlugin
    /\ pending \subseteq IsPlugin /\ configured \subseteq IsPlugin
    /\ skipped \subseteq IsPlugin /\ late \subseteq IsPlugin
    /\ incomplete \in BOOLEAN
    /\ phase = "configure" => Registered \subseteq pending \cup configured \cup skipped
    /\ UnconfiguredExplained

\* A plugin is added to the list of its own event alone.
LEMMA AddedPlugin ==
    ASSUME middlewares \in [Events -> Seq(IsPlugin)], apart \subseteq IsPlugin,
           NEW m \in IsPlugin, AddMiddlewarePlugin(m)
    PROVE  /\ middlewares' \in [Events -> Seq(IsPlugin)] /\ apart' \subseteq IsPlugin
           /\ Registered' \subseteq Registered \cup {m}
<1>1. CASE EventCode[m] = NoEvent
    BY <1>1 DEF AddMiddlewarePlugin, Registered
<1>2. CASE EventCode[m] # NoEvent
    <2> DEFINE code == EventCode[m]
               list == middlewares[code]
    <2>1. code \in Events /\ list \in Seq(IsPlugin)
        BY <1>2, PluginsAssumption
    <2>2. /\ Append(list, m) \in Seq(IsPlugin)
          /\ Len(Append(list, m)) = Len(list) + 1
          /\ \A i \in 1..Len(list) : Append(list, m)[i] = list[i]
          /\ Append(list, m)[Len(list) + 1] = m
        BY <2>1, AppendProperties
    <2>3. middlewares' = [middlewares EXCEPT ![code] = Append(list, m)] /\ apart' = apart
        BY <1>2 DEF AddMiddlewarePlugin
    <2>4. middlewares' \in [Events -> Seq(IsPlugin)]
        BY <2>1, <2>2, <2>3
    <2>5. ASSUME NEW e \in Events, NEW i \in DOMAIN (middlewares'[e])
          PROVE  middlewares'[e][i] \in Registered \cup {m}
        <3>1. CASE e # code
            <4>1. middlewares'[e] = middlewares[e]
                BY <2>1, <2>3, <3>1
            <4>2. QED
                BY <2>5, <4>1 DEF Registered
        <3>2. CASE e = code
            <4>1. middlewares'[e] = Append(list, m)
                BY <2>1, <2>3, <3>2
            <4>2. DOMAIN list = 1..Len(list) /\ Len(list) \in Nat
                BY <2>1, LenProperties
            <4>3. i \in 1..Len(list) + 1
                <5>1. DOMAIN Append(list, m) = 1..Len(Append(list, m))
                    BY <2>2, LenProperties
                <5>2. QED
                    BY <2>2, <2>5, <4>1, <5>1
            <4>4. CASE i = Len(list) + 1
                BY <2>2, <4>1, <4>4
            <4>5. CASE i # Len(list) + 1
                <5>1. i \in 1..Len(list)
                    BY <4>2, <4>3, <4>5
                <5>2. middlewares'[e][i] = list[i]
                    BY <2>2, <4>1, <5>1
                <5>3. list[i] \in Registered
                    BY <2>1, <4>2, <5>1 DEF Registered
                <5>4. QED
                    BY <5>2, <5>3
            <4>6. QED
                BY <4>4, <4>5
        <3>3. QED
            BY <3>1, <3>2
    <2>6. Registered' \subseteq Registered \cup {m}
        <3> HIDE DEF code, list
        <3>1. Registered' = UNION {{middlewares'[e][i] : i \in DOMAIN (middlewares'[e])} : e \in Events}
            BY DEF Registered
        <3>2. QED
            BY <2>5, <3>1
    <2>7. QED
        BY <2>3, <2>4, <2>6
<1>3. QED
    BY <1>1, <1>2

\* A chain of the service is a list of middlewares.
LEMMA ChainsOfMiddlewares ==
    ASSUME SInv, NEW e \in Events, NEW list \in MiddlewareChain(e)
    PROVE  list \in Seq(Middlewares)
<1> DEFINE all == middlewares[e]
           K == {i \in DOMAIN all : all[i] \in enabled}
<1>1. all \in Seq(Middlewares)
    <2>1. all \in Seq(IsPlugin) /\ IsPlugin \subseteq Middlewares
        BY MiddlewaresAssumption DEF SInv
    <2>2. all \in [1..Len(all) -> Middlewares] /\ Len(all) \in Nat
        BY <2>1, LenProperties
    <2>3. QED
        BY <2>2, SeqDef
<1>2. PICK p \in [1..Cardinality(K) -> K] : list = Picked(all, p)
    BY DEF MiddlewareChain, Picks
<1>3. K \in SUBSET (DOMAIN all)
    OBVIOUS
<1> HIDE DEF K, all
<1>4. QED
    BY <1>1, <1>2, <1>3, PickedList

Inv == CInv /\ SInv

\* The constructor starts with nothing registered.
LEMMA InitInv == ServiceInit => Inv
<1> SUFFICES ASSUME ServiceInit
             PROVE  Inv
    OBVIOUS
<1>1. CInv
    BY InitCInv DEF ServiceInit
<1>2. <<>> \in Seq(IsPlugin)
    OBVIOUS
<1>3. SInv
    BY <1>2, PluginsAssumption DEF ServiceInit, SInv, UnconfiguredExplained
<1>4. QED
    BY <1>1, <1>3 DEF Inv

\* Each step of the constructor keeps account of the plugins it has registered.
LEMMA ConstructStep == Inv /\ Construct => Inv'
<1> SUFFICES ASSUME Inv, Construct
             PROVE  Inv'
    OBVIOUS
<1>1. UNCHANGED chain
    BY DEF Construct, LoadPlugin, ConfigureServices, FailLoad, Loaded, Configured
<1>2. CInv'
    BY <1>1 DEF Inv, CInv, ChainTypeOK, chain, Top
<1>3. ASSUME NEW m \in IsPlugin, LoadPlugin(m)
      PROVE  SInv'
    BY <1>3, AddedPlugin DEF LoadPlugin, Inv, SInv, UnconfiguredExplained
<1>4. ASSUME NEW m \in IsPlugin, ConfigureServices(m)
      PROVE  SInv'
    BY <1>4 DEF ConfigureServices, Inv, SInv, UnconfiguredExplained, Registered
<1>5. ASSUME FailLoad
      PROVE  SInv'
    BY <1>5 DEF FailLoad, Inv, SInv, UnconfiguredExplained, Registered
<1>6. ASSUME Loaded
      PROVE  SInv'
    <2>1. Registered \subseteq IsPlugin
        <3>1. ASSUME NEW e \in Events, NEW i \in DOMAIN middlewares[e]
              PROVE  middlewares[e][i] \in IsPlugin
            BY LenProperties DEF Inv, SInv
        <3>2. QED
            BY <3>1 DEF Registered
    <2>2. Registered' = Registered
        BY <1>6 DEF Loaded, Registered
    <2>3. QED
        BY <1>6, <2>1, <2>2 DEF Loaded, Inv, SInv, UnconfiguredExplained
<1>7. ASSUME Configured
      PROVE  SInv'
    BY <1>7 DEF Configured, Inv, SInv, UnconfiguredExplained, Registered
<1>8. QED
    BY <1>2, <1>3, <1>4, <1>5, <1>6, <1>7 DEF Construct, Inv

\* What the application adds later is late; it executes chains of middlewares.
LEMMA ApplicationStep == Inv /\ Application => Inv'
<1> SUFFICES ASSUME Inv, Application
             PROVE  Inv'
    OBVIOUS
<1>1. ASSUME NEW m \in IsPlugin, AddLate(m)
      PROVE  Inv'
    <2>1. CInv'
        BY <1>1 DEF AddLate, Inv, CInv, ChainTypeOK, chain, Top
    <2>2. SInv'
        BY <1>1, AddedPlugin DEF AddLate, Inv, SInv, UnconfiguredExplained
    <2>3. QED
        BY <2>1, <2>2 DEF Inv
<1>2. ASSUME NEW m \in IsPlugin, SetEnable(m)
      PROVE  Inv'
    <2>1. CInv'
        BY <1>2 DEF SetEnable, Inv, CInv, ChainTypeOK, chain, Top
    <2>2. SInv'
        BY <1>2 DEF SetEnable, Inv, SInv, UnconfiguredExplained, Registered
    <2>3. QED
        BY <2>1, <2>2 DEF Inv
<1>3. ASSUME NEW k \in {"sync", "async"}, NEW e \in Events, ExecuteChain(k, e)
      PROVE  Inv'
    <2>1. PICK list \in MiddlewareChain(e) : Execute(k, list)
        BY <1>3 DEF ExecuteChain
    <2>2. list \in Seq(Middlewares) /\ k \in Kinds
        BY ChainsOfMiddlewares DEF Inv, Kinds
    <2>3. CInv'
        BY <2>1, <2>2, ExecuteStep DEF Inv
    <2>4. SInv'
        BY <1>3 DEF ExecuteChain, service, Inv, SInv, UnconfiguredExplained, Registered
    <2>5. QED
        BY <2>3, <2>4 DEF Inv
<1>4. ASSUME NEW k \in Kinds, NEW list \in OwnLists, ExecuteOwn(k, list)
      PROVE  Inv'
    <2>1. CInv'
        <3>1. list \in Seq(Middlewares)
            BY PluginsAssumption
        <3>2. QED
            BY <1>4, <3>1, ExecuteStep DEF ExecuteOwn, Inv
    <2>2. SInv'
        BY <1>4 DEF ExecuteOwn, service, Inv, SInv, UnconfiguredExplained, Registered
    <2>3. QED
        BY <2>1, <2>2 DEF Inv
<1>5. QED
    BY <1>1, <1>2, <1>3, <1>4 DEF Application

\* The invariant of the chains and the service.
LEMMA Invariance == ServiceSpec => []Inv
<1>1. Inv /\ [ServiceNext]_vars => Inv'
    <2> SUFFICES ASSUME Inv, [ServiceNext]_vars
                 PROVE  Inv'
        OBVIOUS
    <2>1. ASSUME UNCHANGED service
          PROVE  SInv'
        BY <2>1 DEF service, Inv, SInv, UnconfiguredExplained, Registered
    <2>2. CASE FunctionStep
        BY <2>1, <2>2, FunctionStepPreserves DEF FunctionStep, Inv
    <2>3. CASE MiddlewareStep
        BY <2>1, <2>3, CallNextStep, LeaveStep DEF MiddlewareStep, Middleware, Inv
    <2>4. CASE UNCHANGED vars
        <3>1. CInv'
            BY <2>4 DEF vars, chain, Inv, CInv, ChainTypeOK, Top
        <3>2. QED
            BY <2>1, <2>4, <3>1 DEF vars, Inv
    <2>5. QED
        BY <2>2, <2>3, <2>4, ConstructStep, ApplicationStep DEF ServiceNext
<1>2. QED
    BY InitInv, <1>1, PTL DEF ServiceSpec
-------------------------------------------------------------------------------
\* Every variable of the service and its chains keeps its type.
THEOREM TypeCorrect == ServiceSpec => []TypeOK
<1>1. Inv => TypeOK
    BY DEF Inv, CInv, SInv, TypeOK
<1>2. QED
    BY Invariance, <1>1, PTL

\* Middlewares run once each and in the order of the list, whatever they retry.
THEOREM MiddlewaresRunInOrder == ServiceSpec => []InOrder
<1>1. Inv => InOrder
    BY DEF Inv, CInv
<1>2. QED
    BY Invariance, <1>1, PTL

\* Plugins of the asynchronous chain run by ascending level.
THEOREM LevelsAreObserved == ServiceSpec => []LevelsAscend
<1>1. Inv => LevelsAscend
    <2> SUFFICES ASSUME Inv, kind = "async", NEW i \in 1..Len(ran), NEW j \in 1..Len(ran), i < j
                 PROVE  Level[ran[i]] <= Level[ran[j]]
        BY DEF LevelsAscend
    <2>1. Len(ran) = index /\ index \in 0..Len(ordered) /\ Len(ordered) \in Nat
        BY LenProperties DEF Inv, CInv, ChainTypeOK
    <2>2. ran[i] = ordered[i] /\ ran[j] = ordered[j]
        BY <2>1 DEF Inv, CInv
    <2>3. i \in 1..Len(ordered) /\ j \in 1..Len(ordered)
        BY <2>1
    <2>4. QED
        BY <2>2, <2>3 DEF Inv, CInv
<1>2. QED
    BY Invariance, <1>1, PTL

\* The final function is called only when every middleware has run.
THEOREM FinalIsLast == ServiceSpec => []FinalComesLast
<1>1. Inv => FinalComesLast
    BY DEF Inv, CInv
<1>2. QED
    BY Invariance, <1>1, PTL

\* Only a repeated call of next, or a list of no plugins, overruns a chain.
THEOREM OverrunsAreExplained == ServiceSpec => []OverrunExplained
<1>1. Inv => OverrunExplained
    BY DEF Inv, CInv
<1>2. QED
    BY Invariance, <1>1, PTL

\* An execution nobody disturbed has run the whole chain and the final function.
THEOREM ChainsAreComplete == ServiceSpec => []WholeChainRuns
<1>1. Inv => WholeChainRuns
    BY DEF Inv, CInv, WholeChainRuns
<1>2. QED
    BY Invariance, <1>1, PTL

\* A registered plugin without configured services was disabled, late or after a failure.
THEOREM UnconfiguredAreExplained == ServiceSpec => []UnconfiguredExplained
<1>1. Inv => UnconfiguredExplained
    BY DEF Inv, SInv
<1>2. QED
    BY Invariance, <1>1, PTL
===============================================================================
