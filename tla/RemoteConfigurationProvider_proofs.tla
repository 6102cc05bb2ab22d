------------------ MODULE RemoteConfigurationProvider_proofs ------------------
(***************************************************************************)
(* Why a client whose last fetch was undisturbed is current, for any set of  *)
(* documents and of broker threads, any parser, subscriber and budget.       *)
(***************************************************************************)
EXTENDS RemoteConfigurationProvider, TLAPS

Waiting == \E i \in 1..Len(queue) : queue[i] = served

\* No two Loads overlap.
Serial == \A t, u \in Threads : pc[t] # "idle" /\ pc[u] # "idle" => t = u

\* What the Load that is under way has done to the hash and the dictionary.
Progress == \A t \in Threads :
    /\ pc[t] \in {"clear", "visit", "assign"} => Hash = doc[t]
    /\ pc[t] = "visit" => buffer = {}
    /\ pc[t] = "assign" => buffer = Exactly(doc[t])

\* Between fetches the dictionary is that of the stored hash.
HashNamesData == (\A t \in Threads : pc[t] \notin Fetched) => Accurate

\* The document served is what the client holds, what it has fetched, what it is
\* about to fetch, or what a notification will still make it fetch.
ServedIsComing ==
    \/ unpublished \/ Waiting
    \/ \E t \in Threads : pc[t] = "request"
    \/ \E t \in Threads : pc[t] \in Fetched /\ doc[t] = served
    \/ Hash = served /\ \A t \in Threads : pc[t] \notin Fetched

Undisturbed == ~context /\ Serial /\ Progress /\ HashNamesData /\ ServedIsComing
IInv == TypeOK /\ (trusted => Undisturbed)
-------------------------------------------------------------------------------
USE DocsAssumption, ThreadsAssumption, FlagsAssumption, BudgetAssumption

(***************************************************************************)
(* Type correctness: every variable keeps the type the code gives it.        *)
(***************************************************************************)
LEMMA InitTypeOK == Init => TypeOK
<1> SUFFICES ASSUME Init PROVE TypeOK
  OBVIOUS
<1>1. queue \in Seq(Docs \cup {Other})
  BY DEF Init
<1> QED
  BY <1>1 DEF Init, TypeOK, Steps, Fetched

LEMMA SpendType ==
    ASSUME TypeOK, NEW k \in EventKinds, Spend(k)
    PROVE  budget' \in [EventKinds -> Nat]
  BY DEF TypeOK, Spend

LEMMA EnvironmentTypeOK ==
    ASSUME TypeOK,
           \/ \E d \in Docs : Change(d)
           \/ Publish
           \/ \E m \in Docs \cup {Other} : Stray(m)
           \/ Disconnect
           \/ Dispose
    PROVE  TypeOK'
<1>1. ASSUME NEW d \in Docs, Change(d) PROVE TypeOK'
  BY <1>1, SpendType DEF TypeOK, Change, parser, provider, EventKinds
<1>2. CASE Publish
  <2>1. queue' \in Seq(Docs \cup {Other})
    BY <1>2 DEF TypeOK, Publish
  <2> QED
    BY <1>2, <2>1 DEF TypeOK, Publish, parser, provider
<1>3. ASSUME NEW m \in Docs \cup {Other}, Stray(m) PROVE TypeOK'
  <2>1. queue' \in Seq(Docs \cup {Other})
    BY <1>3 DEF TypeOK, Stray
  <2>2. budget' \in [EventKinds -> Nat]
    BY <1>3, SpendType DEF Stray, EventKinds
  <2> QED
    BY <1>3, <2>1, <2>2 DEF TypeOK, Stray, parser, provider
<1>4. CASE Disconnect
  <2>1. queue' \in Seq(Docs \cup {Other})
    BY <1>4 DEF Disconnect
  <2>2. budget' \in [EventKinds -> Nat]
    BY <1>4, SpendType DEF Disconnect, EventKinds
  <2> QED
    BY <1>4, <2>1, <2>2 DEF TypeOK, Disconnect, parser, provider
<1>5. CASE Dispose
  BY <1>5 DEF TypeOK, Dispose, environment, parser
<1> QED
  BY <1>1, <1>2, <1>3, <1>4, <1>5

LEMMA StartTypeOK ==
    ASSUME TypeOK, Reload \/ \E t \in Handlers : HandlerStep(t)
    PROVE  TypeOK'
<1>1. CASE Reload
  BY <1>1, SpendType
     DEF TypeOK, Reload, Begin, Goto, Alone, Steps, Fetched, Threads, environment, parser, EventKinds
<1>2. ASSUME NEW t \in Handlers, SkipMessage(t) PROVE TypeOK'
  BY <1>2 DEF TypeOK, SkipMessage, Alone, parser, provider
<1>3. ASSUME NEW t \in Handlers, AcceptMessage(t) PROVE TypeOK'
  BY <1>3 DEF TypeOK, AcceptMessage, Begin, Goto, Alone, Steps, Fetched, Threads, parser
<1> QED
  BY <1>1, <1>2, <1>3 DEF HandlerStep

\* A piece that is added is a piece; alone in the buffer it is all the buffer holds.
LEMMA PieceType ==
    ASSUME NEW d \in Docs, NEW p \in BOOLEAN, NEW w \in BOOLEAN, buffer \in SUBSET Piece,
           AddPiece([doc |-> d, prefixed |-> p, whole |-> w])
    PROVE  buffer' \in SUBSET Piece
<1>1. [doc |-> d, prefixed |-> p, whole |-> w] \in Piece
  BY Zenon DEF Piece
<1> QED
  BY <1>1 DEF AddPiece, Entries

LEMMA WholePieceAlone ==
    ASSUME NEW d, buffer = {}, AddPiece([doc |-> d, prefixed |-> FALSE, whole |-> TRUE])
    PROVE  buffer' = Exactly(d)
  BY DEF AddPiece, Entries, Exactly

LEMMA LoadTypeOK ==
    ASSUME TypeOK, NEW t \in Threads, LoadStep(t)
    PROVE  TypeOK'
<1> USE DEF TypeOK, Goto, Steps, Fetched, environment, provider, parser
<1>1. CASE Respond(t)
  BY <1>1 DEF Respond, Alone
<1>2. CASE FailRequest(t)
  BY <1>2, SpendType DEF FailRequest, Fail, EventKinds
<1>3. CASE SetHash(t)
  BY <1>3 DEF SetHash
<1>4. CASE ClearData(t)
  BY <1>4 DEF ClearData
<1>5. CASE FinishParse(t)
  <2>1. /\ pc[t] = "visit"
        /\ doc[t] \in Docs
        /\ pc' = [pc EXCEPT ![t] = "assign"]
        /\ UNCHANGED <<environment, provider, doc, trusted, budget>>
    BY <1>5 DEF FinishParse
  <2>2. PICK p \in Prefixes(t), c \in Prefixes(t) :
          /\ AddPiece([doc |-> doc[t], prefixed |-> p, whole |-> TRUE])
          /\ context' = c
    BY <1>5 DEF FinishParse
  <2>3. p \in BOOLEAN /\ c \in BOOLEAN
    BY <2>2 DEF Prefixes
  <2>4. buffer' \in SUBSET Piece /\ context' \in BOOLEAN
    <3>1. buffer \in SUBSET Piece
      OBVIOUS
    <3> HIDE DEF TypeOK
    <3> QED
      BY <2>1, <2>2, <2>3, <3>1, PieceType
  <2> QED
    BY <2>1, <2>4
<1>6. CASE ThrowInParse(t)
  <2>1. doc[t] \in Docs /\ Prefixes(t) \subseteq BOOLEAN
    BY <1>6 DEF ThrowInParse, Prefixes
  <2>2. buffer' \in SUBSET Piece
    <3>1. buffer \in SUBSET Piece
      OBVIOUS
    <3>2. CASE buffer' = buffer
      BY <3>1, <3>2
    <3>3. ASSUME NEW p \in Prefixes(t),
                 AddPiece([doc |-> doc[t], prefixed |-> p, whole |-> FALSE])
          PROVE  buffer' \in SUBSET Piece
      <4>1. doc[t] \in Docs /\ p \in BOOLEAN /\ FALSE \in BOOLEAN
        BY <2>1, <3>3
      <4> HIDE DEF TypeOK
      <4> QED
        BY <3>1, <3>3, <4>1, PieceType
    <3> QED
      BY <1>6, <3>2, <3>3 DEF ThrowInParse
  <2>3. context' \in BOOLEAN
    BY <1>6, Zenon DEF ThrowInParse
  <2> QED
    BY <1>6, <2>2, <2>3 DEF ThrowInParse, Fail
<1>7. CASE Assign(t)
  BY <1>7 DEF Assign
<1>8. CASE Notify(t)
  BY <1>8 DEF Notify
<1> QED
  BY <1>1, <1>2, <1>3, <1>4, <1>5, <1>6, <1>7, <1>8 DEF LoadStep

LEMMA StepTypeOK == TypeOK /\ [Next]_vars => TypeOK'
<1> SUFFICES ASSUME TypeOK, [Next]_vars PROVE TypeOK'
  OBVIOUS
<1>1. ASSUME NEW t \in Threads, LoadStep(t) PROVE TypeOK'
  BY <1>1, LoadTypeOK
<1>2. CASE UNCHANGED vars
  BY <1>2 DEF TypeOK, vars, environment, parser, provider
<1> QED
  BY <1>1, <1>2, EnvironmentTypeOK, StartTypeOK DEF Next

\* The provider keeps the types of its variables, and a thread that is between
\* the answer and the assignment holds a document.
THEOREM TypeCorrect == Spec => []TypeOK
  BY InitTypeOK, StepTypeOK, PTL DEF Spec
-------------------------------------------------------------------------------
(***************************************************************************)
(* Notifications: what a waiting one survives.                               *)
(***************************************************************************)
LEMMA WaitingAppend ==
    ASSUME NEW S, NEW q \in Seq(S), NEW m \in S
    PROVE  /\ \E i \in 1..Len(Append(q, m)) : Append(q, m)[i] = m
           /\ \A v : (\E i \in 1..Len(q) : q[i] = v)
                       => \E i \in 1..Len(Append(q, m)) : Append(q, m)[i] = v
<1>1. /\ Len(Append(q, m)) = Len(q) + 1
      /\ Append(q, m)[Len(q) + 1] = m
      /\ \A i \in 1..Len(q) : Append(q, m)[i] = q[i]
      /\ Len(q) \in Nat
  OBVIOUS
<1> QED
  BY <1>1

LEMMA WaitingTail ==
    ASSUME NEW S, NEW q \in Seq(S), q # <<>>, NEW v,
           \E i \in 1..Len(q) : q[i] = v,
           Head(q) # v
    PROVE  \E i \in 1..Len(Tail(q)) : Tail(q)[i] = v
<1>1. /\ Len(Tail(q)) = Len(q) - 1
      /\ \A i \in 1..Len(q) - 1 : Tail(q)[i] = q[i + 1]
      /\ Len(q) \in Nat
  OBVIOUS
<1>2. PICK i \in 1..Len(q) : q[i] = v
  OBVIOUS
<1>3. i # 1
  BY <1>2
<1>4. i - 1 \in 1..Len(Tail(q)) /\ Tail(q)[i - 1] = v
  BY <1>1, <1>2, <1>3
<1> QED
  BY <1>4

\* The client's hash is never the channel's name, so a handler that is told the
\* channel skips nothing, and one that is told the hash skips only what it has.
LEMMA SkippedIsHeld ==
    ASSUME TypeOK, queue # <<>>, Told(Head(queue)) = Hash, Head(queue) = served
    PROVE  Hash = served
  BY DEF TypeOK, Told
-------------------------------------------------------------------------------
(***************************************************************************)
(* Each step of the service, the broker and the application.                 *)
(***************************************************************************)
LEMMA EnvironmentUndisturbed ==
    ASSUME TypeOK, trusted, Undisturbed,
           \/ \E d \in Docs : Change(d)
           \/ Publish
           \/ \E m \in Docs \cup {Other} : Stray(m)
           \/ Dispose
    PROVE  Undisturbed'
<1> USE DEF Undisturbed, Serial, Progress, HashNamesData, Accurate, ServedIsComing,
            parser, provider, environment
<1>1. ASSUME NEW d \in Docs, Change(d) PROVE Undisturbed'
  BY <1>1 DEF Change
<1>2. CASE Publish
  <2>1. Waiting'
    <3>1. /\ queue \in Seq(Docs \cup {Other}) /\ queue' = Append(queue, served)
          /\ served \in Docs \cup {Other} /\ served' = served
      BY <1>2 DEF Publish, TypeOK
    <3>2. \E i \in 1..Len(queue') : queue'[i] = served
      BY <3>1, WaitingAppend
    <3> QED
      BY <3>1, <3>2 DEF Waiting
  <2> QED
    BY <1>2, <2>1 DEF Publish
<1>3. ASSUME NEW m \in Docs \cup {Other}, Stray(m) PROVE Undisturbed'
  <2>1. Waiting => Waiting'
    <3>1. queue \in Seq(Docs \cup {Other}) /\ queue' = Append(queue, m)
      BY <1>3 DEF Stray, TypeOK
    <3>2. \A v : (\E i \in 1..Len(queue) : queue[i] = v)
                   => \E i \in 1..Len(queue') : queue'[i] = v
      BY <3>1, WaitingAppend
    <3> QED
      BY <1>3, <3>2 DEF Stray, Waiting
  <2> QED
    BY <1>3, <2>1 DEF Stray
<1>4. CASE Dispose
  BY <1>4 DEF Dispose, Waiting
<1> QED
  BY <1>1, <1>2, <1>3, <1>4

LEMMA BeginUndisturbed ==
    ASSUME TypeOK, trusted, Undisturbed, NEW t \in Threads, pc[t] = "idle",
           Begin(t), trusted', UNCHANGED <<parser, Hash, Data, doc>>
    PROVE  Undisturbed'
<1>1. \A u \in Threads : pc[u] = "idle"
  BY DEF Begin, Alone
<1>2. /\ pc'[t] = "request"
      /\ \A u \in Threads \ {t} : pc'[u] = "idle"
  BY <1>1 DEF Begin, Goto, TypeOK
<1>3. Accurate'
  BY <1>1 DEF Undisturbed, HashNamesData, Fetched, Accurate, parser
<1> QED
  BY <1>2, <1>3
     DEF Undisturbed, Serial, Progress, HashNamesData, ServedIsComing, parser

LEMMA SkipUndisturbed ==
    ASSUME TypeOK, trusted, Undisturbed, NEW t \in Handlers, SkipMessage(t), trusted'
    PROVE  Undisturbed'
<1>1. \A u \in Threads : pc[u] = "idle"
  BY DEF SkipMessage, Alone
<1>2. unpublished \/ Waiting \/ Hash = served
  BY <1>1 DEF Undisturbed, ServedIsComing, Fetched
<1>3. Waiting => Waiting' \/ Hash = served
  <2>1. /\ queue \in Seq(Docs \cup {Other}) /\ queue # <<>>
        /\ queue' = Tail(queue) /\ served' = served
        /\ Told(Head(queue)) = Hash
    BY DEF SkipMessage, TypeOK
  <2>2. CASE Head(queue) = served
    BY <2>1, <2>2, SkippedIsHeld
  <2>3. CASE Head(queue) # served
    <3>1. (\E i \in 1..Len(queue) : queue[i] = served)
              => \E i \in 1..Len(Tail(queue)) : Tail(queue)[i] = served
      BY <2>1, <2>3, WaitingTail
    <3> QED
      BY <2>1, <3>1 DEF Waiting
  <2> QED
    BY <2>2, <2>3
<1> QED
  BY <1>1, <1>2, <1>3
     DEF SkipMessage, Undisturbed, Serial, Progress, HashNamesData, Accurate,
         ServedIsComing, Fetched, parser, provider
-------------------------------------------------------------------------------
(***************************************************************************)
(* Each step of a Load that leaves the client trusted.                       *)
(***************************************************************************)
LEMMA LoadUndisturbed ==
    ASSUME TypeOK, NEW t \in Threads, LoadStep(t), trusted',
           trusted => Undisturbed
    PROVE  Undisturbed'
<1> DEFINE Others(s) == \A u \in Threads \ {t} : s[u] = "idle"
<1>1. CASE Respond(t)
  <2>1. Others(pc) /\ ~context
    BY <1>1 DEF Respond, Alone
  <2>2. Others(pc') /\ pc'[t] = "hash" /\ doc'[t] = served
    BY <1>1, <2>1 DEF Respond, Goto, TypeOK
  <2> QED
    BY <1>1, <2>1, <2>2
       DEF Respond, Undisturbed, Serial, Progress, HashNamesData, ServedIsComing,
           Fetched, environment, parser
<1>2. CASE FailRequest(t)
  BY <1>2 DEF FailRequest, Fail
<1>3. CASE SetHash(t)
  <2>1. trusted /\ Undisturbed
    BY <1>3 DEF SetHash
  <2>2. Others(pc) /\ pc[t] = "hash" /\ Hash' = doc[t]
    BY <1>3, <2>1 DEF SetHash, Undisturbed, Serial
  <2>3. Others(pc') /\ pc'[t] = "clear"
    BY <1>3, <2>2 DEF SetHash, Goto, TypeOK
  <2> QED
    BY <1>3, <2>1, <2>2, <2>3
       DEF SetHash, Undisturbed, Serial, Progress, HashNamesData, ServedIsComing,
           Waiting, Fetched, environment, parser
<1>4. CASE ClearData(t)
  <2>1. trusted /\ Undisturbed
    BY <1>4 DEF ClearData
  <2>2. Others(pc) /\ pc[t] = "clear" /\ Hash = doc[t]
    BY <1>4, <2>1 DEF ClearData, Undisturbed, Serial, Progress
  <2>3. Others(pc') /\ pc'[t] = "visit"
    BY <1>4, <2>2 DEF ClearData, Goto, TypeOK
  <2> QED
    BY <1>4, <2>1, <2>2, <2>3
       DEF ClearData, Undisturbed, Serial, Progress, HashNamesData, ServedIsComing,
           Waiting, Fetched, environment, provider
<1>5. CASE FinishParse(t)
  <2>1. trusted /\ Undisturbed
    BY <1>5 DEF FinishParse
  <2>2. Others(pc) /\ pc[t] = "visit" /\ Hash = doc[t] /\ buffer = {} /\ ~context
    BY <1>5, <2>1 DEF FinishParse, Undisturbed, Serial, Progress
  <2>3. Prefixes(t) = {FALSE}
    BY <2>2 DEF Prefixes, Disturbed, TypeOK
  <2>4. buffer' = Exactly(doc[t]) /\ ~context'
    BY <1>5, <2>2, <2>3, WholePieceAlone DEF FinishParse
  <2>5. Others(pc') /\ pc'[t] = "assign"
    BY <1>5, <2>2 DEF FinishParse, Goto, TypeOK
  <2> QED
    BY <1>5, <2>1, <2>2, <2>4, <2>5
       DEF FinishParse, Undisturbed, Serial, Progress, HashNamesData, ServedIsComing,
           Waiting, Fetched, environment, provider
<1>6. CASE ThrowInParse(t)
  BY <1>6 DEF ThrowInParse, Fail
<1>7. CASE Assign(t)
  <2>1. trusted /\ Undisturbed
    BY <1>7 DEF Assign
  <2>2. Others(pc) /\ pc[t] = "assign" /\ Hash = doc[t] /\ buffer = Exactly(doc[t])
    BY <1>7, <2>1 DEF Assign, Undisturbed, Serial, Progress
  <2>3. Others(pc') /\ pc'[t] \in {"notify", "idle"}
    BY <1>7, <2>2 DEF Assign, Goto, TypeOK
  <2>4. Accurate'
    BY <1>7, <2>2 DEF Assign, Accurate, parser
  <2> QED
    BY <1>7, <2>1, <2>2, <2>3, <2>4
       DEF Assign, Undisturbed, Serial, Progress, HashNamesData, ServedIsComing,
           Waiting, Fetched, environment, parser
<1>8. CASE Notify(t)
  <2>1. trusted /\ Undisturbed
    BY <1>8 DEF Notify
  <2>2. Others(pc) /\ pc[t] = "notify"
    BY <1>8, <2>1 DEF Notify, Undisturbed, Serial
  <2>3. Others(pc') /\ pc'[t] = "idle"
    BY <1>8, <2>2 DEF Notify, Goto, TypeOK
  <2> QED
    BY <1>8, <2>1, <2>2, <2>3
       DEF Notify, Undisturbed, Serial, Progress, HashNamesData, Accurate,
           ServedIsComing, Waiting, Fetched, environment, parser, provider
<1> QED
  BY <1>1, <1>2, <1>3, <1>4, <1>5, <1>6, <1>7, <1>8 DEF LoadStep
-------------------------------------------------------------------------------
LEMMA StepIInv == IInv /\ [Next]_vars => IInv'
<1> SUFFICES ASSUME IInv, [Next]_vars, trusted' PROVE Undisturbed'
  BY StepTypeOK DEF IInv
<1> USE DEF IInv
<1>1. ASSUME \/ \E d \in Docs : Change(d)
             \/ Publish
             \/ \E m \in Docs \cup {Other} : Stray(m)
             \/ Dispose
      PROVE  Undisturbed'
  <2>1. trusted
    BY <1>1 DEF Change, Publish, Stray, Dispose
  <2> QED
    BY <1>1, <2>1, EnvironmentUndisturbed
<1>2. CASE Disconnect
  BY <1>2 DEF Disconnect
<1>3. CASE Reload
  BY <1>3, BeginUndisturbed DEF Reload, Begin, Threads
<1>4. ASSUME NEW t \in Handlers, SkipMessage(t) PROVE Undisturbed'
  BY <1>4, SkipUndisturbed DEF SkipMessage
<1>5. ASSUME NEW t \in Handlers, AcceptMessage(t) PROVE Undisturbed'
  BY <1>5, BeginUndisturbed DEF AcceptMessage, Begin, Threads
<1>6. ASSUME NEW t \in Threads, LoadStep(t) PROVE Undisturbed'
  BY <1>6, LoadUndisturbed
<1>7. CASE UNCHANGED vars
  BY <1>7 DEF Undisturbed, Serial, Progress, HashNamesData, Accurate, ServedIsComing,
              Waiting, vars, environment, parser, provider
<1> QED
  BY <1>1, <1>2, <1>3, <1>4, <1>5, <1>6, <1>7 DEF Next, HandlerStep

LEMMA InductiveInvariant == Spec => []IInv
<1>1. Init => IInv
  BY InitTypeOK DEF Init, IInv
<1> QED
  BY <1>1, StepIInv, PTL DEF Spec

\* A client at rest whose last fetch was undisturbed holds exactly what the
\* service serves, whatever documents, threads, parser and subscriber there are.
THEOREM TrustedClientIsCurrent == Spec => []CurrentWhenTrusted
<1>1. IInv => CurrentWhenTrusted
  BY DEF IInv, Undisturbed, HashNamesData, ServedIsComing, CurrentWhenTrusted,
         Current, Settled, Waiting, Fetched
<1> QED
  BY <1>1, InductiveInvariant, PTL

\* OnReload after an undisturbed Load announces the dictionary of the stored hash.
THEOREM NotifiesOfHash == Spec => NotifiedOfHash
<1>1. IInv /\ [Next]_vars => [\A t \in Threads : Notify(t) /\ trusted => Accurate]_vars
  <2> SUFFICES ASSUME IInv, NEW t \in Threads, Notify(t), trusted PROVE Accurate
    OBVIOUS
  <2>1. pc[t] = "notify"
    BY DEF Notify
  <2>2. \A u \in Threads : pc[u] \notin Fetched
    BY <2>1 DEF IInv, Undisturbed, Serial, Fetched
  <2> QED
    BY <2>2 DEF IInv, Undisturbed, HashNamesData
<1> QED
  BY <1>1, InductiveInvariant, PTL DEF Spec, NotifiedOfHash
===============================================================================
