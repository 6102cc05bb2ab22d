----------------------------- MODULE Notifier_proofs -----------------------------
(***************************************************************************)
(* What a notification sends, for any number of them and any order of steps.   *)
(*                                                                         *)
(* The argument: a notification that overlapped no other was alone from its     *)
(* first step to its last, so nobody else wrote into the Instance it was writing *)
(* and reading.  By its end the Instance exists and is nobody's to replace: what  *)
(* comes later adds to its messages, and reads them, knowing this one.         *)
(***************************************************************************)
EXTENDS Notifier, SequenceTheorems, TLAPS

Reading == {"enumerated", "last", "payload data", "send"}
Building == {"stage", "finish", "list"} \cup Reading
Targeted == {"status", "set status", "data", "set data", "message", "add", "insert"} \cup Building
Steps == {"idle", "from", "target", "create from", "create target", "sent", "threw"} \cup Targeted
Objects == [status : Values, data : Values, messages : Seq(Notifications)]
Payloads == [of : Values, stage : Values, finish : Values, list : Seq(Notifications),
             last : Values, data : Values]

\* What a payload holds is a message's, as an Instance that is read has one.
Typed ==
    /\ instance \in Values
    /\ objects \in [Notifications -> Objects]
    /\ pc \in [Notifications -> Steps]
    /\ source \in [Notifications -> Sources]
    /\ from \in [Notifications -> Values] /\ target \in [Notifications -> Values]
    /\ held \in [Notifications -> Values]
    /\ seen \in [Notifications -> Seq(Notifications)]
    /\ payload \in [Notifications -> Payloads]
    /\ sent \in Seq(Payloads)
    /\ overlapped \in SUBSET Notifications /\ ticks \in SUBSET Notifications

Placed(n) ==
    /\ pc[n] \notin {"idle", "from", "create from"} /\ source[n] = "instance" => from[n] \in Notifications
    /\ pc[n] \in Targeted \cup {"sent", "threw"} => target[n] \in Notifications
    /\ pc[n] \in {"add", "insert"} => held[n] \in Notifications
    /\ pc[n] = "insert" /\ seen[n] # <<>> => Messages(n) # <<>>
    /\ pc[n] \in Building => Messages(n) # <<>>

Typing == Typed /\ \A n \in Notifications : Placed(n)

\* A notification that has overlapped no other is the only one running.
Alone == \A n \in Running : n \notin overlapped => Running = {n}

\* How far a message of the caller's has come, when nobody else has interfered.
Undisturbed(n) ==
    /\ pc[n] \notin {"from", "create from", "set status", "set data"}
    /\ pc[n] \in Targeted => target[n] = instance
    /\ pc[n] \in Targeted \ {"status"} => objects[target[n]].status = n
    /\ pc[n] \in Targeted \ {"status", "data"} => objects[target[n]].data = n
    /\ pc[n] \in {"add", "insert"} => held[n] = n
    /\ pc[n] \in {"insert", "enumerated"} => seen[n] = Messages(n)
    /\ pc[n] \in Building /\ n \notin ticks => Last(Messages(n)) = n
    /\ pc[n] \in Building \ {"stage"} => payload[n].stage = n
    /\ pc[n] \in Building \ {"stage", "finish"} => payload[n].finish = n
    /\ pc[n] \in {"payload data", "send"} /\ n \notin ticks => payload[n].last = n
    /\ pc[n] = "send" => payload[n].data = n
    /\ pc[n] = "threw" => n \in ticks

Own(n) == source[n] = "own" /\ n \notin overlapped

\* Everything that comes after the notification n knows its message.
Kept(n) ==
    /\ instance \in Notifications /\ n \in ToSet(objects[instance].messages)
    /\ \A m \in Notifications :
          /\ pc[m] \notin {"create from", "create target"}
          /\ pc[m] \in Targeted => target[m] = instance
          /\ pc[m] \in {"insert", "enumerated"} => n \in ToSet(seen[m])
          /\ pc[m] \in {"last", "payload data", "send"} => n \in ToSet(payload[m].list)

Delivered ==
    /\ \A n \in Notifications : pc[n] \in Building \ {"stage"} => payload[n].of = n
    /\ \A i \in DOMAIN sent : sent[i].of \in Notifications /\ pc[sent[i].of] = "sent"

IInv ==
    /\ Typing /\ Alone /\ Delivered
    /\ \A n \in Notifications : Own(n) => Undisturbed(n)
    /\ \A n \in Notifications : Own(n) /\ n \notin ticks /\ pc[n] = "sent" => Kept(n)
    /\ OwnPayload /\ LaterPayloadsInclude

-------------------------------------------------------------------------------
\* The messages of a HandlerMessage are a sequence, and grow at its end.
LEMMA Sequences ==
    ASSUME NEW s \in Seq(Notifications), NEW x \in Notifications
    PROVE  /\ Append(s, x) \in Seq(Notifications) /\ Append(s, x) # <<>>
           /\ Last(Append(s, x)) = x /\ x \in ToSet(Append(s, x))
           /\ ToSet(s) \subseteq ToSet(Append(s, x))
<1>1. /\ Len(Append(s, x)) = Len(s) + 1 /\ Append(s, x)[Len(s) + 1] = x
      /\ \A i \in 1..Len(s) : Append(s, x)[i] = s[i]
      /\ Append(s, x) \in Seq(Notifications)
    BY AppendProperties
<1>2. Len(s) \in Nat /\ DOMAIN s = 1..Len(s) /\ DOMAIN Append(s, x) = 1..(Len(s) + 1)
    BY <1>1, LenProperties
<1>3. Append(s, x) # <<>>
    BY <1>1, <1>2
<1>4. QED
    BY <1>1, <1>2, <1>3 DEF Last, ToSet

LEMMA LastIsOne ==
    ASSUME NEW s \in Seq(Notifications), s # <<>>
    PROVE  Last(s) \in Notifications
  BY LenProperties, EmptySeq DEF Last

\* A step of one notification is none of another's.
Frame(n) ==
    \A m \in Notifications \ {n} :
        /\ pc'[m] = pc[m] /\ source'[m] = source[m] /\ from'[m] = from[m] /\ target'[m] = target[m]
        /\ held'[m] = held[m] /\ seen'[m] = seen[m] /\ payload'[m] = payload[m]

\* The HandlerMessages that have a message never lose it all.
NoneEmptied ==
    \A o \in Notifications : objects[o].messages # <<>> => objects'[o].messages # <<>>

\* What its own step and no other has to establish.
StepOfOne(n) == Typed' /\ Frame(n) /\ NoneEmptied /\ Placed(n)'

LEMMA StartTypes ==
    ASSUME Typing, NEW n \in Notifications, NEW s \in Sources, Notify(n, s)
    PROVE  StepOfOne(n)
<1>1. Typed'
    BY DEF Typing, Typed, Notify, Goto, Sources, Steps, Running
<1>2. Frame(n) /\ NoneEmptied
    BY DEF Typing, Typed, Notify, Goto, Frame, NoneEmptied
<1>3. Placed(n)'
    BY DEF Typing, Typed, Notify, Goto, Sources, Placed, Targeted, Building, Reading
<1>4. QED
    BY <1>1, <1>2, <1>3 DEF StepOfOne

\* A notification goes on to its next step, and no other moves.
LEMMA GotoTypes ==
    ASSUME Typed, NEW n \in Notifications, NEW step \in Steps, Goto(n, step)
    PROVE  /\ pc' \in [Notifications -> Steps] /\ pc'[n] = step
           /\ \A m \in Notifications \ {n} : pc'[m] = pc[m]
  BY DEF Typed, Goto

LEMMA StepNames ==
    /\ {"from", "target", "create from", "create target", "sent", "threw"} \subseteq Steps
    /\ Targeted \subseteq Steps /\ Building \subseteq Targeted
    /\ {"status", "set status", "data", "set data", "message", "add", "insert"} \subseteq Targeted \ Building
    /\ {"stage", "finish", "list"} \cup Reading \subseteq Building
    /\ {"from", "target", "create from", "create target"} \cap Targeted = {}
  BY DEF Steps, Targeted, Building, Reading

LEMMA InstanceTypes ==
    ASSUME Typing, NEW n \in Notifications, Instance(n) \/ FindNoInstance(n) \/ CreateInstance(n)
    PROVE  StepOfOne(n)
<1>1. /\ Typed /\ Placed(n)
      /\ UNCHANGED <<objects, source, held, seen, payload, sent, overlapped, ticks>>
    <2>1. Typed /\ Placed(n)
        BY DEF Typing
    <2>2. UNCHANGED <<objects, source, held, seen, payload, sent, overlapped, ticks>>
        BY DEF Instance, FindNoInstance, CreateInstance, work, history
    <2>3. QED
        BY <2>1, <2>2
<1>2. ASSUME NEW step \in Steps, Goto(n, step), instance' \in Values,
             from' \in [Notifications -> Values], target' \in [Notifications -> Values],
             \A m \in Notifications \ {n} : from'[m] = from[m] /\ target'[m] = target[m],
             step \in {"from", "target", "create from", "create target", "status"},
             step \notin {"from", "create from"} /\ source[n] = "instance" => from'[n] \in Notifications,
             step = "status" => target'[n] \in Notifications
      PROVE  StepOfOne(n)
    <2>1. /\ pc' \in [Notifications -> Steps] /\ pc'[n] = step
          /\ \A m \in Notifications \ {n} : pc'[m] = pc[m]
        BY <1>1, <1>2, GotoTypes
    <2>2. Typed'
        BY <1>1, <1>2, <2>1 DEF Typed
    <2>3. Frame(n)
        BY <1>1, <1>2, <2>1 DEF Frame
    <2>4. NoneEmptied
        BY <1>1 DEF NoneEmptied
    <2>5. Placed(n)'
        <3>1. step \notin Building \cup {"sent", "threw", "add", "insert"}
            BY <1>2 DEF Building, Reading
        <3>2. step \in Targeted => step = "status"
            BY <1>2, StepNames
        <3>3. QED
            BY <1>1, <1>2, <2>1, <3>1, <3>2 DEF Placed
    <2>6. QED
        BY <2>2, <2>3, <2>4, <2>5 DEF StepOfOne
<1>3. instance \in Values /\ n \in Values /\ (instance # None => instance \in Notifications)
    BY <1>1 DEF Typed, Values
<1>4. from \in [Notifications -> Values] /\ target \in [Notifications -> Values]
    BY <1>1 DEF Typed
<1>5. pc[n] \in {"target", "create target"} /\ source[n] = "instance" => from[n] \in Notifications
    BY <1>1 DEF Placed
<1>6. {"target", "status", "create from", "create target"} \subseteq Steps
    BY StepNames
<1>7. CASE Instance(n)
    <2>1. CASE pc[n] = "from"
        <3>1. Goto(n, "target") /\ from' = [from EXCEPT ![n] = instance] /\ UNCHANGED <<instance, target>>
            BY <1>7, <2>1 DEF Instance
        <3>2. instance \in Notifications
            BY <1>3, <1>7 DEF Instance
        <3>3. QED
            BY <1>2, <1>3, <1>4, <1>6, <3>1, <3>2
    <2>2. CASE pc[n] = "target"
        <3>1. Goto(n, "status") /\ target' = [target EXCEPT ![n] = instance] /\ UNCHANGED <<instance, from>>
            BY <1>7, <2>2 DEF Instance
        <3>2. instance \in Notifications
            BY <1>3, <1>7 DEF Instance
        <3>3. QED
            BY <1>2, <1>3, <1>4, <1>5, <1>6, <2>2, <3>1, <3>2
    <2>3. QED
        BY <1>7, <2>1, <2>2 DEF Instance
<1>8. CASE FindNoInstance(n)
    <2>1. UNCHANGED <<instance, from, target>>
        BY <1>8 DEF FindNoInstance, work
    <2>2. CASE pc[n] = "from"
        <3>1. Goto(n, "create from")
            BY <1>8, <2>2 DEF FindNoInstance
        <3>2. QED
            BY <1>2, <1>3, <1>4, <1>6, <2>1, <3>1
    <2>3. CASE pc[n] = "target"
        <3>1. Goto(n, "create target")
            BY <1>8, <2>3 DEF FindNoInstance
        <3>2. QED
            BY <1>2, <1>3, <1>4, <1>5, <1>6, <2>1, <2>3, <3>1
    <2>4. QED
        BY <1>8, <2>2, <2>3 DEF FindNoInstance
<1>9. CASE CreateInstance(n)
    <2>1. CASE pc[n] = "create from"
        <3>1. Goto(n, "target") /\ from' = [from EXCEPT ![n] = n] /\ instance' = n /\ UNCHANGED target
            BY <1>9, <2>1 DEF CreateInstance
        <3>2. QED
            BY <1>2, <1>3, <1>4, <1>6, <3>1
    <2>2. CASE pc[n] = "create target"
        <3>1. Goto(n, "status") /\ target' = [target EXCEPT ![n] = n] /\ instance' = n /\ UNCHANGED from
            BY <1>9, <2>2 DEF CreateInstance
        <3>2. QED
            BY <1>2, <1>3, <1>4, <1>5, <1>6, <2>2, <3>1
    <2>3. QED
        BY <1>9, <2>1, <2>2 DEF CreateInstance
<1>10. QED
    BY <1>7, <1>8, <1>9

\* What is copied is a HandlerMessage's.
LEMMA FromIsAnObject ==
    ASSUME Typing, NEW n \in Notifications, pc[n] \in Targeted
    PROVE  From(n) \in Objects
<1>1. CASE source[n] = "instance"
    BY <1>1 DEF From, Typing, Typed, Placed, Targeted, Building, Reading
<1>2. CASE source[n] # "instance"
    BY <1>2, EmptySeq DEF From, Objects, Values
<1>3. QED
    BY <1>1, <1>2

\* Writing a field of one HandlerMessage touches the messages of none.
LEMMA FieldWritten ==
    ASSUME NEW n \in Notifications, NEW v \in Values, NEW field \in {"status", "data"},
           Typed, target[n] \in Notifications,
           objects' = [objects EXCEPT ![target[n]][field] = v]
    PROVE  /\ objects' \in [Notifications -> Objects]
           /\ \A o \in Notifications : objects'[o].messages = objects[o].messages
<1>1. objects \in [Notifications -> Objects]
    BY DEF Typed
<1>2. /\ [objects[target[n]] EXCEPT ![field] = v] \in Objects
      /\ [objects[target[n]] EXCEPT ![field] = v].messages = objects[target[n]].messages
    <2>1. objects[target[n]] \in Objects
        BY <1>1
    <2>2. CASE field = "status"
        BY <2>1, <2>2 DEF Objects
    <2>3. CASE field = "data"
        BY <2>1, <2>3 DEF Objects
    <2>4. QED
        BY <2>2, <2>3
<1>3. objects' = [objects EXCEPT ![target[n]] = [objects[target[n]] EXCEPT ![field] = v]]
    OBVIOUS
<1>4. QED
    BY <1>1, <1>2, <1>3

\* What a step that copies, adds, reads or sends has to show of the variables.
LEMMA MessageStep ==
    ASSUME Typing, NEW n \in Notifications, pc[n] \in Targeted,
           NEW step \in Targeted \cup {"sent", "threw"}, Goto(n, step),
           UNCHANGED <<instance, source, from, target, overlapped>>,
           objects' \in [Notifications -> Objects], NoneEmptied,
           held' \in [Notifications -> Values], seen' \in [Notifications -> Seq(Notifications)],
           payload' \in [Notifications -> Payloads], sent' \in Seq(Payloads),
           ticks' \in SUBSET Notifications,
           \A m \in Notifications \ {n} :
               held'[m] = held[m] /\ seen'[m] = seen[m] /\ payload'[m] = payload[m],
           step \in {"add", "insert"} => held'[n] \in Notifications,
           step = "insert" /\ seen'[n] # <<>> => objects'[target[n]].messages # <<>>,
           step \in Building => objects'[target[n]].messages # <<>>
    PROVE  StepOfOne(n)
<1>1. Typed /\ Placed(n) /\ step \in Steps
    BY StepNames DEF Typing
<1>2. /\ pc' \in [Notifications -> Steps] /\ pc'[n] = step
      /\ \A m \in Notifications \ {n} : pc'[m] = pc[m]
    BY <1>1, GotoTypes
<1>3. Typed'
    BY <1>1, <1>2 DEF Typed
<1>4. Frame(n)
    BY <1>2 DEF Frame
<1>5. pc[n] \notin {"idle", "from", "create from"}
    BY DEF Targeted, Building, Reading
<1>6. Placed(n)'
    BY <1>1, <1>2, <1>5 DEF Placed, Messages
<1>7. QED
    BY <1>3, <1>4, <1>6 DEF StepOfOne

\* The types of what such a step starts from.
LEMMA MessageTypes ==
    ASSUME Typing, NEW n \in Notifications, pc[n] \in Targeted
    PROVE  /\ target[n] \in Notifications /\ objects[target[n]] \in Objects
           /\ Messages(n) \in Seq(Notifications)
           /\ From(n) \in Objects
           /\ held[n] \in Values /\ seen[n] \in Seq(Notifications) /\ payload[n] \in Payloads
           /\ None \in Values /\ <<>> \in Seq(Notifications) /\ NoPayload \in Payloads
           /\ pc[n] \in Building => Messages(n) # <<>>
<1>1. Typed /\ Placed(n)
    BY DEF Typing
<1>2. target[n] \in Notifications /\ (pc[n] \in Building => Messages(n) # <<>>)
    BY <1>1 DEF Placed
<1>3. objects[target[n]] \in Objects
    BY <1>1, <1>2 DEF Typed
<1>4. Messages(n) \in Seq(Notifications)
    BY <1>3 DEF Messages, Objects
<1>5. held[n] \in Values /\ seen[n] \in Seq(Notifications) /\ payload[n] \in Payloads
    BY <1>1 DEF Typed
<1>6. None \in Values /\ <<>> \in Seq(Notifications)
    BY EmptySeq DEF Values
<1>7. NoPayload \in Payloads
    BY <1>6 DEF NoPayload, Payloads
<1>8. QED
    BY <1>2, <1>3, <1>4, <1>5, <1>6, <1>7, FromIsAnObject

\* Nothing of what is typed is touched but the fields written.
LEMMA FieldStep ==
    ASSUME Typing, NEW n \in Notifications, pc[n] \in Targeted,
           NEW step \in Targeted \ (Building \cup {"add", "insert"}), Goto(n, step),
           NEW field \in {"status", "data"}, NEW v \in Values,
           objects' = [objects EXCEPT ![target[n]][field] = v],
           held' \in [Notifications -> Values], \A m \in Notifications \ {n} : held'[m] = held[m],
           UNCHANGED <<instance, source, from, target, overlapped, seen, payload, sent, ticks>>
    PROVE  StepOfOne(n)
<1>1. Typed /\ target[n] \in Notifications
    BY MessageTypes DEF Typing
<1>2. /\ objects' \in [Notifications -> Objects]
      /\ \A o \in Notifications : objects'[o].messages = objects[o].messages
    BY <1>1, FieldWritten
<1>3. NoneEmptied
    BY <1>2 DEF NoneEmptied
<1>4. /\ seen' \in [Notifications -> Seq(Notifications)] /\ payload' \in [Notifications -> Payloads]
      /\ sent' \in Seq(Payloads) /\ ticks' \in SUBSET Notifications
    BY <1>1 DEF Typed
<1>5. step \notin {"add", "insert"} /\ step \notin Building /\ step \in Targeted
    OBVIOUS
<1>6. QED
    BY <1>2, <1>3, <1>4, <1>5, MessageStep

LEMMA CopyTypes ==
    ASSUME Typing, NEW n \in Notifications,
           Copy(n, "status", "status", "data") \/ Copy(n, "data", "data", "message")
    PROVE  StepOfOne(n)
<1>1. pc[n] \in Targeted /\ {"data", "message"} \subseteq Targeted \ (Building \cup {"add", "insert"})
    BY StepNames DEF Copy
<1>2. From(n).status \in Values /\ From(n).data \in Values
    BY <1>1, MessageTypes DEF Objects
<1>3. /\ UNCHANGED <<instance, source, from, target, overlapped, seen, payload, sent, ticks, held>>
      /\ held' \in [Notifications -> Values]
    BY DEF Copy, work, history, Typing, Typed
<1>4. CASE Copy(n, "status", "status", "data")
    <2>1. Goto(n, "data") /\ objects' = [objects EXCEPT ![target[n]]["status"] = From(n).status]
        BY <1>4 DEF Copy
    <2>2. QED
        BY <1>1, <1>2, <1>3, <2>1, FieldStep
<1>5. CASE Copy(n, "data", "data", "message")
    <2>1. Goto(n, "message") /\ objects' = [objects EXCEPT ![target[n]]["data"] = From(n).data]
        BY <1>5 DEF Copy
    <2>2. QED
        BY <1>1, <1>2, <1>3, <2>1, FieldStep
<1>6. QED
    BY <1>4, <1>5

LEMMA WriteTypes ==
    ASSUME Typing, NEW n \in Notifications,
           Write(n, "status", "set status", "data") \/ Write(n, "data", "set data", "message")
    PROVE  StepOfOne(n)
<1>1. pc[n] \in Targeted /\ {"data", "message"} \subseteq Targeted \ (Building \cup {"add", "insert"})
    BY StepNames DEF Write
<1>2. held[n] \in Values /\ None \in Values /\ held \in [Notifications -> Values]
    BY <1>1, MessageTypes DEF Typing, Typed
<1>3. /\ UNCHANGED <<instance, source, from, target, overlapped, seen, payload, sent, ticks>>
      /\ held' = [held EXCEPT ![n] = None]
    BY DEF Write, work, history
<1>4. held' \in [Notifications -> Values] /\ \A m \in Notifications \ {n} : held'[m] = held[m]
    BY <1>2, <1>3
<1>5. CASE Write(n, "status", "set status", "data")
    <2>1. Goto(n, "data") /\ objects' = [objects EXCEPT ![target[n]]["status"] = held[n]]
        BY <1>5 DEF Write
    <2>2. QED
        BY <1>1, <1>2, <1>3, <1>4, <2>1, FieldStep
<1>6. CASE Write(n, "data", "set data", "message")
    <2>1. Goto(n, "message") /\ objects' = [objects EXCEPT ![target[n]]["data"] = held[n]]
        BY <1>6 DEF Write
    <2>2. QED
        BY <1>1, <1>2, <1>3, <1>4, <2>1, FieldStep
<1>7. QED
    BY <1>5, <1>6

\* What is held and seen may change, the HandlerMessages and payloads do not.
LEMMA HoldStep ==
    ASSUME Typing, NEW n \in Notifications, pc[n] \in Targeted,
           NEW step \in Targeted \cup {"sent", "threw"}, Goto(n, step),
           UNCHANGED <<instance, source, from, target, overlapped, objects, payload, sent>>,
           ticks' \in SUBSET Notifications,
           NEW v \in Values, held' = held \/ held' = [held EXCEPT ![n] = v],
           NEW ms \in {<<>>, Messages(n)}, seen' = seen \/ seen' = [seen EXCEPT ![n] = ms],
           step \in {"add", "insert"} => held'[n] \in Notifications,
           step = "insert" => seen'[n] = Messages(n),
           step \in Building => Messages(n) # <<>>
    PROVE  StepOfOne(n)
<1>1. Typed /\ ms \in Seq(Notifications)
    BY MessageTypes DEF Typing
<1>2. /\ held' \in [Notifications -> Values]
      /\ \A m \in Notifications \ {n} : held'[m] = held[m]
    <2>1. held \in [Notifications -> Values]
        BY <1>1 DEF Typed
    <2>2. QED
        BY <2>1
<1>3. /\ seen' \in [Notifications -> Seq(Notifications)]
      /\ \A m \in Notifications \ {n} : seen'[m] = seen[m]
    <2>1. seen \in [Notifications -> Seq(Notifications)]
        BY <1>1 DEF Typed
    <2>2. QED
        BY <1>1, <2>1
<1>4. /\ objects' \in [Notifications -> Objects] /\ payload' \in [Notifications -> Payloads]
      /\ sent' \in Seq(Payloads) /\ NoneEmptied
    BY <1>1 DEF Typed, NoneEmptied
<1>5. /\ step = "insert" /\ seen'[n] # <<>> => objects'[target[n]].messages # <<>>
      /\ step \in Building => objects'[target[n]].messages # <<>>
    BY DEF Messages
<1>6. QED
    BY <1>2, <1>3, <1>4, <1>5, MessageStep

LEMMA ReadTypes ==
    ASSUME Typing, NEW n \in Notifications,
           Read(n, "status", "status", "set status") \/ Read(n, "data", "data", "set data")
    PROVE  StepOfOne(n)
<1>1. pc[n] \in Targeted /\ {"set status", "set data"} \subseteq Targeted \ Building
    BY StepNames DEF Read
<1>2. From(n).status \in Values /\ From(n).data \in Values
    BY <1>1, MessageTypes DEF Objects
<1>3. UNCHANGED <<instance, source, from, target, overlapped, objects, payload, sent, seen>> /\ ticks' = ticks
    BY DEF Read, work, history
<1>4. ticks' \in SUBSET Notifications
    BY <1>3 DEF Typing, Typed
<1>5. PICK step \in {"set status", "set data"}, v \in Values : Goto(n, step) /\ held' = [held EXCEPT ![n] = v]
    BY <1>2 DEF Read
<1>6. step \in Targeted /\ step \notin Building
    BY <1>1
<1>7. QED
    BY <1>1, <1>3, <1>4, <1>5, <1>6, HoldStep

LEMMA AddTypes ==
    ASSUME Typing, NEW n \in Notifications,
           ReadMessage(n) \/ NoMessage(n) \/ SameTick(n) \/ ContainsNoKey(n)
    PROVE  StepOfOne(n)
<1>1. /\ pc[n] \in Targeted /\ {"add", "insert"} \subseteq Targeted \ Building
      /\ "stage" \in Building /\ "stage" \in Targeted /\ "threw" \notin Building
    <2>1. pc[n] \in {"message", "add"}
        BY DEF ReadMessage, NoMessage, SameTick, ContainsNoKey
    <2>2. "threw" \notin Building
        BY DEF Building, Reading
    <2>3. QED
        BY <2>1, <2>2, StepNames
<1>2. Messages(n) \in Seq(Notifications) /\ None \in Values /\ From(n) \in Objects /\ Typed /\ Placed(n)
    BY <1>1, MessageTypes DEF Typing
<1>3. held \in [Notifications -> Values] /\ seen \in [Notifications -> Seq(Notifications)] /\ ticks \subseteq Notifications
    BY <1>2 DEF Typed
<1>4. UNCHANGED <<instance, source, from, target, overlapped, objects, payload, sent>>
    BY DEF ReadMessage, NoMessage, SameTick, ContainsNoKey, work, history
<1>5. CASE ReadMessage(n)
    <2>1. Last(From(n).messages) \in Notifications
        <3>1. From(n).messages \in Seq(Notifications)
            BY <1>2 DEF Objects
        <3>2. QED
            BY <1>5, <3>1, LastIsOne DEF ReadMessage
    <2>2. /\ Goto(n, "add") /\ held' = [held EXCEPT ![n] = Last(From(n).messages)]
          /\ UNCHANGED <<seen, ticks>>
        BY <1>5 DEF ReadMessage, history
    <2>3. held'[n] \in Notifications /\ Last(From(n).messages) \in Values
        BY <1>3, <2>1, <2>2 DEF Values
    <2>4. QED
        BY <1>1, <1>3, <1>4, <2>2, <2>3, HoldStep
<1>6. CASE NoMessage(n)
    <2>1. Goto(n, "threw") /\ UNCHANGED <<held, seen, ticks>>
        BY <1>6 DEF NoMessage, history
    <2>2. QED
        BY <1>1, <1>2, <1>3, <1>4, <2>1, HoldStep
<1>7. CASE SameTick(n)
    <2>1. /\ Goto(n, "stage") \/ Goto(n, "threw")
          /\ held' = [held EXCEPT ![n] = None] /\ ticks' = ticks \cup {n} /\ UNCHANGED seen
          /\ Messages(n) # <<>>
        BY <1>7 DEF SameTick
    <2>2. ticks' \in SUBSET Notifications
        BY <1>3, <2>1
    <2>3. ASSUME NEW step \in {"stage", "threw"}, Goto(n, step)
          PROVE  StepOfOne(n)
        <3>1. step \in Targeted \cup {"sent", "threw"} /\ step \notin {"add", "insert"}
            BY <1>1
        <3>2. QED
            BY <1>1, <1>2, <1>4, <2>1, <2>2, <2>3, <3>1, HoldStep
    <2>4. QED
        BY <2>1, <2>3
<1>8. CASE ContainsNoKey(n)
    <2>1. /\ pc[n] = "add" /\ Goto(n, "insert") /\ seen' = [seen EXCEPT ![n] = Messages(n)]
          /\ UNCHANGED <<held, ticks>>
        BY <1>8 DEF ContainsNoKey, history
    <2>2. held'[n] \in Notifications
        BY <1>2, <2>1 DEF Placed
    <2>3. seen'[n] = Messages(n)
        BY <1>3, <2>1
    <2>4. QED
        BY <1>1, <1>2, <1>3, <1>4, <2>1, <2>2, <2>3, HoldStep
<1>9. QED
    BY <1>5, <1>6, <1>7, <1>8

\* A lost insertion leaves the one it has met, or itself.
LEMMA InsertTypes ==
    ASSUME Typing, NEW n \in Notifications, Insert(n)
    PROVE  StepOfOne(n)
<1>1. pc[n] = "insert" /\ pc[n] \in Targeted /\ "stage" \in Targeted
    BY StepNames DEF Insert
<1>2. Typed /\ Placed(n) /\ target[n] \in Notifications /\ Messages(n) \in Seq(Notifications)
      /\ seen[n] \in Seq(Notifications) /\ None \in Values /\ <<>> \in Seq(Notifications)
    BY <1>1, MessageTypes DEF Typing
<1>3. held[n] \in Notifications /\ (seen[n] # <<>> => Messages(n) # <<>>)
    BY <1>1, <1>2 DEF Placed
<1>4. PICK kept \in {Append(Messages(n), held[n])}
                    \cup (IF Messages(n) = seen[n] THEN {} ELSE {Messages(n), Append(seen[n], held[n])}) :
          objects' = [objects EXCEPT ![target[n]].messages = kept]
    BY DEF Insert
<1>5. kept \in Seq(Notifications) /\ kept # <<>>
    BY <1>2, <1>3, <1>4, Sequences
<1>6. objects' \in [Notifications -> Objects] /\ objects'[target[n]].messages = kept
      /\ \A o \in Notifications \ {target[n]} : objects'[o] = objects[o]
    BY <1>2, <1>4, <1>5 DEF Typed, Objects
<1>7. NoneEmptied
    BY <1>5, <1>6 DEF NoneEmptied
<1>8. /\ Goto(n, "stage")
      /\ held' = [held EXCEPT ![n] = None] /\ seen' = [seen EXCEPT ![n] = <<>>]
      /\ UNCHANGED <<instance, source, from, target, overlapped, payload, sent, ticks>>
    BY DEF Insert, work, history
<1>9. /\ held' \in [Notifications -> Values] /\ seen' \in [Notifications -> Seq(Notifications)]
      /\ \A m \in Notifications \ {n} : held'[m] = held[m] /\ seen'[m] = seen[m]
    BY <1>2, <1>8 DEF Typed
<1>10. payload' \in [Notifications -> Payloads] /\ sent' \in Seq(Payloads) /\ ticks' \in SUBSET Notifications
    BY <1>2, <1>8 DEF Typed
<1>11. QED
    BY <1>1, <1>5, <1>6, <1>7, <1>8, <1>9, <1>10, MessageStep

\* A step of the notification that is neither a copy nor an insertion: what it makes,
\* sends and has seen may change.
LEMMA PayloadStep ==
    ASSUME Typing, NEW n \in Notifications, pc[n] \in Building,
           NEW step \in Building \cup {"sent", "threw"}, Goto(n, step),
           UNCHANGED <<instance, source, from, target, overlapped, objects, held, ticks>>,
           NEW p \in Payloads, payload' = payload \/ payload' = [payload EXCEPT ![n] = p],
           NEW ms \in {<<>>, Messages(n)}, seen' = seen \/ seen' = [seen EXCEPT ![n] = ms],
           sent' \in Seq(Payloads)
    PROVE  StepOfOne(n)
<1>1. /\ Typed /\ pc[n] \in Targeted /\ step \in Targeted \cup {"sent", "threw"}
      /\ step \notin {"add", "insert"}
    BY StepNames DEF Typing
<1>2. ms \in Seq(Notifications) /\ Messages(n) # <<>>
    BY <1>1, MessageTypes
<1>3. /\ payload' \in [Notifications -> Payloads]
      /\ \A m \in Notifications \ {n} : payload'[m] = payload[m]
    BY <1>1 DEF Typed
<1>4. /\ seen' \in [Notifications -> Seq(Notifications)]
      /\ \A m \in Notifications \ {n} : seen'[m] = seen[m]
    BY <1>1, <1>2 DEF Typed
<1>5. /\ objects' \in [Notifications -> Objects] /\ held' \in [Notifications -> Values]
      /\ ticks' \in SUBSET Notifications /\ NoneEmptied
    BY <1>1 DEF Typed, NoneEmptied
<1>6. objects'[target[n]].messages # <<>>
    BY <1>2 DEF Messages
<1>7. QED
    BY <1>1, <1>3, <1>4, <1>5, <1>6, MessageStep

\* Each field of a payload is of the type of what is put there.
LEMMA PutIsAPayload ==
    ASSUME NEW p \in Payloads, NEW n \in Notifications,
           NEW field \in {"stage", "finish", "list", "last", "data"}, NEW value,
           field = "list" => value \in Seq(Notifications),
           field # "list" => value \in Values
    PROVE  [p EXCEPT !.of = n, ![field] = value] \in Payloads
<1>1. n \in Values
    BY DEF Values
<1>2. CASE field = "stage" \/ field = "finish"
    BY <1>1, <1>2 DEF Payloads
<1>3. CASE field = "list"
    BY <1>1, <1>3 DEF Payloads
<1>4. CASE field = "last" \/ field = "data"
    BY <1>1, <1>4 DEF Payloads
<1>5. QED
    BY <1>2, <1>3, <1>4

\* Beside a field, only what has been seen changes.
LEMMA PutTypes ==
    ASSUME Typing, NEW n \in Notifications, pc[n] \in Building,
           NEW field \in {"stage", "finish", "list", "last", "data"}, NEW value, NEW here, NEW next \in Building,
           Put(n, field, value, here, next),
           field = "list" => value \in Seq(Notifications),
           field # "list" => value \in Values,
           seen' = seen \/ seen' = [seen EXCEPT ![n] = <<>>]
    PROVE  StepOfOne(n)
<1>1. payload[n] \in Payloads /\ Typed
    BY MessageTypes, StepNames DEF Typing
<1>2. [payload[n] EXCEPT !.of = n, ![field] = value] \in Payloads
    BY <1>1, PutIsAPayload
<1>3. /\ payload' = [payload EXCEPT ![n] = [payload[n] EXCEPT !.of = n, ![field] = value]]
      /\ Goto(n, next)
      /\ UNCHANGED <<instance, source, from, target, overlapped, objects, held, ticks, sent>>
    BY DEF Put, work, history
<1>4. sent' \in Seq(Payloads)
    BY <1>1, <1>3 DEF Typed
<1>5. QED
    BY <1>2, <1>3, <1>4, PayloadStep

LEMMA HubTypes ==
    ASSUME Typing, NEW n \in Notifications, AsHubMessage(n)
    PROVE  StepOfOne(n)
<1>1. pc[n] \in Building /\ pc[n] \in Targeted
    <2>1. pc[n] \in {"stage", "finish", "list"} \cup Reading
        BY DEF AsHubMessage, Put, Enumerate, Enumerated, EnumerationThrows, Reading
    <2>2. QED
        BY <2>1, StepNames
<1>2. /\ Messages(n) \in Seq(Notifications) /\ Messages(n) # <<>> /\ objects[target[n]] \in Objects
      /\ seen[n] \in Seq(Notifications) /\ NoPayload \in Payloads
    BY <1>1, MessageTypes
<1>3. objects[target[n]].status \in Values /\ objects[target[n]].data \in Values
    BY <1>2 DEF Objects
<1>4. Last(Messages(n)) \in Values
    BY <1>2, LastIsOne DEF Values
<1>5. {"finish", "list", "last", "payload data", "send", "enumerated"} \subseteq Building
    BY DEF Building, Reading
<1>6. sent \in Seq(Payloads)
    BY DEF Typing, Typed
<1>7. ASSUME Put(n, "stage", objects[target[n]].status, "stage", "finish"), UNCHANGED seen
      PROVE  StepOfOne(n)
    BY <1>1, <1>3, <1>5, <1>7, PutTypes
<1>8. ASSUME Put(n, "finish", objects[target[n]].status, "finish", "list"), UNCHANGED seen
      PROVE  StepOfOne(n)
    BY <1>1, <1>3, <1>5, <1>8, PutTypes
<1>9. CASE Enumerate(n)
    <2>1. /\ Goto(n, "enumerated") /\ seen' = [seen EXCEPT ![n] = Messages(n)]
          /\ UNCHANGED <<instance, source, from, target, overlapped, objects, held, ticks, payload, sent>>
        BY <1>9 DEF Enumerate, work, history
    <2>2. QED
        BY <1>1, <1>2, <1>5, <1>6, <2>1, PayloadStep
<1>10. CASE Enumerated(n)
    <2>1. Put(n, "list", seen[n], "enumerated", "last") /\ seen' = [seen EXCEPT ![n] = <<>>]
        BY <1>10 DEF Enumerated
    <2>2. QED
        BY <1>1, <1>2, <1>5, <2>1, PutTypes
<1>11. CASE EnumerationThrows(n)
    <2>1. /\ Goto(n, "threw") /\ seen' = [seen EXCEPT ![n] = <<>>] /\ payload' = [payload EXCEPT ![n] = NoPayload]
          /\ UNCHANGED <<instance, source, from, target, overlapped, objects, held, ticks, sent>>
        BY <1>11 DEF EnumerationThrows, work, history
    <2>2. QED
        BY <1>1, <1>2, <1>6, <2>1, PayloadStep
<1>12. ASSUME Put(n, "last", Last(Messages(n)), "last", "payload data"), UNCHANGED seen
       PROVE  StepOfOne(n)
    BY <1>1, <1>4, <1>5, <1>12, PutTypes
<1>13. ASSUME Put(n, "data", objects[target[n]].data, "payload data", "send"), UNCHANGED seen
       PROVE  StepOfOne(n)
    BY <1>1, <1>3, <1>5, <1>13, PutTypes
<1>14. QED
    BY <1>7, <1>8, <1>9, <1>10, <1>11, <1>12, <1>13 DEF AsHubMessage

LEMMA SendTypes ==
    ASSUME Typing, NEW n \in Notifications, Send(n)
    PROVE  StepOfOne(n)
<1>1. pc[n] \in Building /\ pc[n] \in Targeted
    BY StepNames DEF Send, Reading
<1>2. payload[n] \in Payloads /\ NoPayload \in Payloads /\ sent \in Seq(Payloads)
    BY <1>1, MessageTypes DEF Typing, Typed
<1>3. /\ Goto(n, "sent") /\ sent' = Append(sent, payload[n]) /\ payload' = [payload EXCEPT ![n] = NoPayload]
      /\ UNCHANGED <<instance, source, from, target, overlapped, objects, held, ticks, seen>>
    BY DEF Send, work
<1>4. sent' \in Seq(Payloads)
    BY <1>2, <1>3, AppendProperties
<1>5. QED
    BY <1>1, <1>2, <1>3, <1>4, PayloadStep

LEMMA StepTypes ==
    ASSUME Typing, NEW n \in Notifications, Step(n) \/ \E s \in Sources : Notify(n, s)
    PROVE  StepOfOne(n)
  BY StartTypes, InstanceTypes, CopyTypes, ReadTypes, WriteTypes, AddTypes, InsertTypes, HubTypes, SendTypes
     DEF Step, FromMessage

\* The step of one notification leaves every other where it was.
LEMMA StepTyping ==
    ASSUME Typing, NEW n \in Notifications, StepOfOne(n)
    PROVE  Typing'
<1>1. ASSUME NEW m \in Notifications \ {n}
      PROVE  Placed(m)'
    <2>1. /\ Placed(m) /\ pc'[m] = pc[m] /\ source'[m] = source[m] /\ from'[m] = from[m]
          /\ target'[m] = target[m] /\ held'[m] = held[m] /\ seen'[m] = seen[m]
        BY DEF StepOfOne, Frame, Typing
    <2>2. target[m] \in Notifications /\ Messages(m) # <<>> => Messages(m)' # <<>>
        BY <2>1 DEF StepOfOne, NoneEmptied, Messages
    <2>3. pc[m] \in Building \cup {"insert"} => target[m] \in Notifications
        BY <2>1 DEF Placed, Targeted
    <2>4. QED
        BY <2>1, <2>2, <2>3 DEF Placed
<1>2. QED
    BY <1>1 DEF StepOfOne, Typing

LEMMA InitTyping == Init => Typing
  BY EmptySeq DEF Init, Typing, Typed, Placed, Objects, Payloads, NoPayload, Values, Sources, Steps,
     Targeted, Building, Reading

LEMMA UnchangedTyping == Typing /\ UNCHANGED vars => Typing'
  BY DEF vars, work, history, Typing, Typed, Placed, Messages

-------------------------------------------------------------------------------
\* What any step has in common.
LEMMA AnyStep ==
    ASSUME NEW n \in Notifications, Step(n)
    PROVE  /\ pc[n] \notin {"idle", "sent", "threw"}
           /\ UNCHANGED <<source, overlapped>>
           /\ ticks' = ticks \/ ticks' = ticks \cup {n}
           /\ ~Send(n) => UNCHANGED sent
<1>1. CASE Instance(n) \/ FindNoInstance(n) \/ CreateInstance(n)
    BY <1>1 DEF Instance, FindNoInstance, CreateInstance, work, history
<1>2. CASE FromMessage(n)
    BY <1>2 DEF FromMessage, Copy, Read, Write, ReadMessage, NoMessage, SameTick, ContainsNoKey, Insert,
        work, history
<1>3. CASE AsHubMessage(n)
    BY <1>3 DEF AsHubMessage, Put, Enumerate, Enumerated, EnumerationThrows, work, history
<1>4. CASE Send(n)
    BY <1>4 DEF Send, work
<1>5. QED
    BY <1>1, <1>2, <1>3, <1>4 DEF Step

\* Beside a notification that overlaps no other, nothing steps.
LEMMA OthersAreAtRest ==
    ASSUME Alone, NEW n \in Notifications, Step(n), NEW m \in Notifications \ {n}, m \notin overlapped
    PROVE  pc[m] \in {"idle", "sent", "threw"}
<1>1. n \in Running
    BY AnyStep DEF Running
<1>2. m \notin Running
    BY <1>1 DEF Alone
<1>3. QED
    BY <1>2 DEF Running

LEMMA StepAlone ==
    ASSUME Typing, Alone, NEW n \in Notifications, Step(n)
    PROVE  Alone'
<1>1. n \in Running /\ overlapped' = overlapped
    BY AnyStep DEF Running
<1>2. Running' \subseteq Running
    <2>1. \A m \in Notifications \ {n} : pc'[m] = pc[m]
        BY StepTypes DEF StepOfOne, Frame
    <2>2. QED
        BY <1>1, <2>1 DEF Running
<1>3. QED
    BY <1>1, <1>2 DEF Alone

LEMMA OwnMessage ==
    ASSUME NEW n \in Notifications, source[n] = "own"
    PROVE  From(n).messages = <<n>> /\ <<n>> # <<>>
<1>1. From(n).messages = <<n>>
    BY DEF From
<1>2. <<n>> \in Seq(Notifications)
    OBVIOUS
<1>3. Len(<<n>>) = 1
    OBVIOUS
<1>4. <<n>> # <<>>
    BY <1>2, <1>3, EmptySeq
<1>5. QED
    BY <1>1, <1>4

\* The part of FromMessage that finds and fills the Instance.
LEMMA FromMessageUndisturbed ==
    ASSUME Typing, NEW n \in Notifications, source[n] = "own", Undisturbed(n), FromMessage(n)
    PROVE  Undisturbed(n)'
<1> USE DEF Typing, Typed, Undisturbed, Messages
<1>1. From(n) = [status |-> n, data |-> n, messages |-> <<n>>]
    BY DEF From
<1>2. /\ target[n] \in Notifications /\ target[n] = instance /\ pc[n] \in Targeted
      /\ Messages(n) \in Seq(Notifications)
    <2>1. pc[n] \in Targeted
        BY DEF FromMessage, Copy, Read, Write, ReadMessage, NoMessage, SameTick, ContainsNoKey, Insert, Targeted
    <2>2. QED
        BY <2>1 DEF Placed, Objects
<1>3. objects[target[n]] \in Objects
    BY <1>2
<1>4. CASE Copy(n, "status", "status", "data")
    <2>1. objects'[target[n]] = [objects[target[n]] EXCEPT !["status"] = n] /\ pc'[n] = "data"
        BY <1>1, <1>2, <1>4 DEF Copy, Goto
    <2>2. objects'[target[n]].status = n
        BY <1>3, <2>1 DEF Objects
    <2>3. QED
        BY <1>2, <1>4, <2>1, <2>2 DEF Copy, Targeted, Building, Reading, work, history
<1>5. CASE Copy(n, "data", "data", "message")
    <2>1. objects'[target[n]] = [objects[target[n]] EXCEPT !["data"] = n] /\ pc'[n] = "message"
        BY <1>1, <1>2, <1>5 DEF Copy, Goto
    <2>2. objects'[target[n]].status = n /\ objects'[target[n]].data = n
        BY <1>2, <1>3, <1>5, <2>1 DEF Objects, Copy
    <2>3. QED
        BY <1>2, <1>5, <2>1, <2>2 DEF Copy, Targeted, Building, Reading, work, history
<1>6. CASE ReadMessage(n)
    <2>1. Last(<<n>>) = n
        BY DEF Last
    <2>2. QED
        BY <1>1, <1>2, <1>6, <2>1 DEF ReadMessage, Goto, Targeted, Building, Reading, work, history
<1>7. ~NoMessage(n)
    BY OwnMessage DEF NoMessage
<1>8. CASE SameTick(n)
    BY <1>2, <1>8 DEF SameTick, Goto, Targeted, Building, Reading, work
<1>9. CASE ContainsNoKey(n)
    BY <1>2, <1>9 DEF ContainsNoKey, Goto, Targeted, Building, Reading, work, history
<1>10. CASE Insert(n)
    <2>1. /\ objects' = [objects EXCEPT ![target[n]].messages = Append(Messages(n), n)]
          /\ pc'[n] = "stage"
          /\ UNCHANGED <<instance, target, ticks>>
        BY <1>10 DEF Insert, Goto, work, history
    <2>2. /\ objects'[target[n]].messages = Append(Messages(n), n)
          /\ objects'[target[n]].status = n /\ objects'[target[n]].data = n
        BY <1>2, <1>3, <1>10, <2>1 DEF Insert, Objects, Targeted
    <2>3. Last(Append(Messages(n), n)) = n
        BY <1>2, Sequences
    <2>4. QED
        BY <1>2, <2>1, <2>2, <2>3 DEF Targeted, Building, Reading
<1>11. ~Read(n, "status", "status", "set status") /\ ~Read(n, "data", "data", "set data")
    BY DEF Read
<1>12. ~Write(n, "status", "set status", "data") /\ ~Write(n, "data", "set data", "message")
    BY DEF Write
<1>13. QED
    BY <1>4, <1>5, <1>6, <1>7, <1>8, <1>9, <1>10, <1>11, <1>12 DEF FromMessage

\* The part that sends what is in it.
LEMMA HubUndisturbed ==
    ASSUME Typing, NEW n \in Notifications, source[n] = "own", Undisturbed(n), AsHubMessage(n), Delivered
    PROVE  Undisturbed(n)'
<1> USE DEF Typing, Typed, Undisturbed, Messages
<1>0. /\ UNCHANGED <<instance, objects, target, ticks>> /\ pc[n] \in Building
      /\ pc[n] # "stage" => payload[n].of = n
      /\ payload[n] \in Payloads
    BY DEF AsHubMessage, Put, Enumerate, Enumerated, EnumerationThrows, Building, Reading, work, history,
        Delivered
<1>1. ASSUME Put(n, "stage", objects[target[n]].status, "stage", "finish"), UNCHANGED seen
      PROVE  Undisturbed(n)'
    <2>1. payload'[n] = [payload[n] EXCEPT !.of = n, !["stage"] = n] /\ pc'[n] = "finish"
        BY <1>1 DEF Put, Goto, Targeted, Building
    <2>2. payload'[n].stage = n
        BY <1>0, <2>1 DEF Payloads
    <2>3. QED
        BY <1>0, <1>1, <2>1, <2>2 DEF Put, Targeted, Building, Reading
<1>2. ASSUME Put(n, "finish", objects[target[n]].status, "finish", "list"), UNCHANGED seen
      PROVE  Undisturbed(n)'
    <2>1. payload'[n] = [payload[n] EXCEPT !.of = n, !["finish"] = n] /\ pc'[n] = "list" /\ pc[n] = "finish"
        BY <1>2 DEF Put, Goto, Targeted, Building
    <2>2. payload'[n].finish = n /\ payload'[n].stage = n
        BY <1>0, <2>1 DEF Payloads, Building
    <2>3. QED
        BY <1>0, <2>1, <2>2 DEF Targeted, Building, Reading
<1>3. CASE Enumerate(n)
    BY <1>0, <1>3 DEF Enumerate, Goto, Targeted, Building, Reading
<1>4. CASE Enumerated(n)
    <2>1. /\ payload'[n] = [payload[n] EXCEPT !.of = n, !["list"] = seen[n]]
          /\ pc'[n] = "last" /\ pc[n] = "enumerated"
        BY <1>4 DEF Enumerated, Put, Goto
    <2>2. payload'[n].finish = n /\ payload'[n].stage = n
        BY <1>0, <2>1 DEF Payloads, Building, Reading
    <2>3. QED
        BY <1>0, <2>1, <2>2 DEF Targeted, Building, Reading
<1>5. ~EnumerationThrows(n)
    BY DEF EnumerationThrows
<1>6. ASSUME Put(n, "last", Last(Messages(n)), "last", "payload data"), UNCHANGED seen
      PROVE  Undisturbed(n)'
    <2>1. /\ payload'[n] = [payload[n] EXCEPT !.of = n, !["last"] = Last(Messages(n))]
          /\ pc'[n] = "payload data" /\ pc[n] = "last"
        BY <1>6 DEF Put, Goto
    <2>2. /\ payload'[n].finish = n /\ payload'[n].stage = n
          /\ n \notin ticks => payload'[n].last = n
        BY <1>0, <2>1 DEF Payloads, Building, Reading
    <2>3. QED
        BY <1>0, <2>1, <2>2 DEF Targeted, Building, Reading
<1>7. ASSUME Put(n, "data", objects[target[n]].data, "payload data", "send"), UNCHANGED seen
      PROVE  Undisturbed(n)'
    <2>1. /\ payload'[n] = [payload[n] EXCEPT !.of = n, !["data"] = objects[target[n]].data]
          /\ pc'[n] = "send" /\ pc[n] = "payload data"
        BY <1>7 DEF Put, Goto
    <2>2. /\ payload'[n].finish = n /\ payload'[n].stage = n /\ payload'[n].data = n
          /\ n \notin ticks => payload'[n].last = n
        BY <1>0, <2>1 DEF Payloads, Targeted, Building, Reading
    <2>3. QED
        BY <1>0, <2>1, <2>2 DEF Targeted, Building, Reading
<1>8. QED
    BY <1>1, <1>2, <1>3, <1>4, <1>5, <1>6, <1>7 DEF AsHubMessage

LEMMA StepUndisturbed ==
    ASSUME Typing, Alone, Delivered, NEW n \in Notifications, Step(n), NEW m \in Notifications,
           Own(m), Undisturbed(m)
    PROVE  Undisturbed(m)'
<1>1. CASE m # n
    <2>1. pc[m] \in {"idle", "sent", "threw"}
        BY <1>1, OthersAreAtRest DEF Own
    <2>2. pc'[m] = pc[m] /\ ticks \subseteq ticks'
        BY <1>1, StepTypes, AnyStep DEF StepOfOne, Frame
    <2>3. QED
        BY <2>1, <2>2 DEF Undisturbed, Targeted, Building, Reading
<1>2. CASE m = n
    <2>1. CASE Instance(n) \/ FindNoInstance(n) \/ CreateInstance(n)
        <3>1. pc \in [Notifications -> Steps] /\ target \in [Notifications -> Values]
            BY DEF Typing, Typed
        <3>2. pc[n] \in {"target", "create target"}
            BY <1>2, <2>1 DEF Instance, FindNoInstance, CreateInstance, Undisturbed
        <3>3. \/ pc'[n] = "create target"
              \/ pc'[n] = "status" /\ target'[n] = instance'
            BY <2>1, <3>1, <3>2 DEF Instance, FindNoInstance, CreateInstance, Goto
        <3>4. QED
            BY <1>2, <3>3 DEF Undisturbed, Targeted, Building, Reading
    <2>2. CASE Send(n)
        BY <1>2, <2>2 DEF Send, Goto, Undisturbed, Targeted, Building, Reading, Typing, Typed
    <2>3. QED
        BY <1>2, <2>1, <2>2, FromMessageUndisturbed, HubUndisturbed DEF Step, Own
<1>3. QED
    BY <1>1, <1>2

\* Whoever comes after the end of an undisturbed notification adds to what it left.
LEMMA StepKept ==
    ASSUME Typing, NEW n \in Notifications, Step(n), ~Send(n), NEW m \in Notifications, Kept(m)
    PROVE  Kept(m)'
<1> USE DEF Typing, Typed, Kept
<1>1. \A k \in Notifications \ {n} :
          pc'[k] = pc[k] /\ target'[k] = target[k] /\ seen'[k] = seen[k] /\ payload'[k] = payload[k]
    BY StepTypes DEF StepOfOne, Frame
<1> DEFINE KeptBy ==
        /\ instance' = instance
        /\ m \in ToSet(objects'[instance].messages)
        /\ pc'[n] \notin {"create from", "create target"}
        /\ pc'[n] \in Targeted => target'[n] = instance
        /\ pc'[n] \in {"insert", "enumerated"} => m \in ToSet(seen'[n])
        /\ pc'[n] \in {"last", "payload data", "send"} => m \in ToSet(payload'[n].list)
<1>2. KeptBy => Kept(m)'
    BY <1>1
<1>3. ~FindNoInstance(n) /\ ~CreateInstance(n)
    BY NoneAssumption DEF FindNoInstance, CreateInstance
<1>4. CASE Instance(n)
    <2>1. /\ pc'[n] \in {"target", "status"} /\ instance' = instance /\ objects' = objects
          /\ pc'[n] = "status" => target'[n] = instance
        BY <1>4 DEF Instance, Goto
    <2>2. KeptBy
        BY <2>1 DEF Targeted, Building, Reading
    <2>3. QED
        BY <1>2, <2>2
<1>5. CASE FromMessage(n)
    <2>1. pc[n] \in Targeted /\ target[n] = instance /\ target[n] \in Notifications
          /\ UNCHANGED <<instance, target, payload>> /\ objects[instance] \in Objects
        BY <1>5 DEF FromMessage, Copy, Read, Write, ReadMessage, NoMessage, SameTick, ContainsNoKey, Insert,
            Targeted, work, history
    <2>2. CASE Copy(n, "status", "status", "data") \/ Copy(n, "data", "data", "message")
        <3>1. PICK field \in {"status", "data"}, v \in Values :
                  objects' = [objects EXCEPT ![target[n]][field] = v]
            BY <2>1, <2>2, FromIsAnObject DEF Copy, Objects
        <3>2. objects'[instance].messages = objects[instance].messages
            BY <2>1, <3>1, FieldWritten
        <3>3. KeptBy
            BY <2>1, <2>2, <3>2 DEF Copy, Goto, Targeted, Building, Reading
        <3>4. QED
            BY <1>2, <3>3
    <2>3. CASE Write(n, "status", "set status", "data") \/ Write(n, "data", "set data", "message")
        <3>1. PICK field \in {"status", "data"}, v \in Values :
                  objects' = [objects EXCEPT ![target[n]][field] = v]
            BY <2>1, <2>3 DEF Write
        <3>2. objects'[instance].messages = objects[instance].messages
            BY <2>1, <3>1, FieldWritten
        <3>3. KeptBy
            BY <2>1, <2>3, <3>2 DEF Write, Goto, Targeted, Building, Reading
        <3>4. QED
            BY <1>2, <3>3
    <2>4. CASE Insert(n)
        <3>1. PICK kept \in {Append(Messages(n), held[n])}
                            \cup (IF Messages(n) = seen[n] THEN {} ELSE {Messages(n), Append(seen[n], held[n])}) :
                  objects' = [objects EXCEPT ![target[n]].messages = kept]
            BY <2>4 DEF Insert
        <3>2. /\ Messages(n) \in Seq(Notifications) /\ seen[n] \in Seq(Notifications)
              /\ held[n] \in Notifications
              /\ m \in ToSet(Messages(n)) /\ m \in ToSet(seen[n])
            BY <2>1, <2>4 DEF Insert, Messages, Objects, Placed
        <3>3. m \in ToSet(kept)
            BY <3>1, <3>2, Sequences
        <3>4. objects'[instance].messages = kept
            BY <2>1, <3>1 DEF Objects
        <3>5. pc'[n] = "stage"
            BY <2>4 DEF Insert, Goto
        <3>6. QED
            BY <1>2, <2>1, <3>3, <3>4, <3>5
    <2>5. CASE ContainsNoKey(n)
        <3>1. seen'[n] = objects[instance].messages /\ pc'[n] = "insert" /\ UNCHANGED objects
            BY <2>1, <2>5 DEF ContainsNoKey, Goto, Messages, Targeted
        <3>2. QED
            BY <1>2, <2>1, <3>1
    <2>6. CASE ReadMessage(n) \/ NoMessage(n) \/ SameTick(n)
               \/ Read(n, "status", "status", "set status") \/ Read(n, "data", "data", "set data")
        <3>1. /\ UNCHANGED objects
              /\ pc'[n] \in {"add", "threw", "stage", "set status", "set data"}
            BY <2>6 DEF ReadMessage, NoMessage, SameTick, Read, Goto
        <3>2. /\ pc'[n] \notin {"create from", "create target", "insert", "enumerated"}
              /\ pc'[n] \notin {"last", "payload data", "send"}
            BY <3>1
        <3>3. KeptBy
            BY <2>1, <3>1, <3>2
        <3>4. QED
            BY <1>2, <3>3
    <2>7. QED
        BY <1>5, <2>2, <2>3, <2>4, <2>5, <2>6 DEF FromMessage
<1>6. CASE AsHubMessage(n)
    <2>1. /\ pc[n] \in Building /\ target[n] = instance /\ UNCHANGED <<instance, objects, target>>
          /\ payload[n] \in Payloads
        BY <1>6 DEF AsHubMessage, Put, Enumerate, Enumerated, EnumerationThrows, Targeted, Building, Reading,
            work, history
    <2>2. CASE Enumerate(n)
        BY <1>2, <2>1, <2>2 DEF Enumerate, Goto, Messages
    <2>3. CASE Enumerated(n)
        <3>1. /\ payload'[n] = [payload[n] EXCEPT !.of = n, !["list"] = seen[n]]
              /\ pc[n] = "enumerated" /\ pc'[n] = "last"
            BY <2>3 DEF Enumerated, Put, Goto
        <3>2. payload'[n].list = seen[n]
            BY <2>1, <3>1 DEF Payloads
        <3>3. QED
            BY <1>2, <2>1, <3>1, <3>2
    <2>4. CASE EnumerationThrows(n)
        BY <1>2, <2>1, <2>4 DEF EnumerationThrows, Goto, Targeted, Building, Reading
    <2>5. CASE Put(n, "stage", objects[target[n]].status, "stage", "finish")
               \/ Put(n, "finish", objects[target[n]].status, "finish", "list")
        <3>1. pc'[n] \in {"finish", "list"}
            BY <2>5 DEF Put, Goto
        <3>2. QED
            BY <1>2, <2>1, <3>1
    <2>6. CASE Put(n, "last", Last(Messages(n)), "last", "payload data")
        <3>1. /\ payload'[n] = [payload[n] EXCEPT !.of = n, !["last"] = Last(Messages(n))]
              /\ pc[n] = "last" /\ pc'[n] = "payload data"
            BY <2>6 DEF Put, Goto
        <3>2. payload'[n].list = payload[n].list
            BY <2>1, <3>1 DEF Payloads
        <3>3. QED
            BY <1>2, <2>1, <3>1, <3>2
    <2>7. CASE Put(n, "data", objects[target[n]].data, "payload data", "send")
        <3>1. /\ payload'[n] = [payload[n] EXCEPT !.of = n, !["data"] = objects[target[n]].data]
              /\ pc[n] = "payload data" /\ pc'[n] = "send"
            BY <2>7 DEF Put, Goto
        <3>2. payload'[n].list = payload[n].list
            BY <2>1, <3>1 DEF Payloads
        <3>3. QED
            BY <1>2, <2>1, <3>1, <3>2
    <2>8. QED
        BY <1>6, <2>2, <2>3, <2>4, <2>5, <2>6, <2>7 DEF AsHubMessage
<1>7. QED
    BY <1>3, <1>4, <1>5, <1>6 DEF Step

-------------------------------------------------------------------------------
\* The induction.
LEMMA InitIInv == Init => IInv
<1> SUFFICES ASSUME Init
             PROVE  IInv
    OBVIOUS
<1>1. Typing
    BY InitTyping
<1>2. Running = {} /\ sent = <<>> /\ \A n \in Notifications : pc[n] = "idle"
    BY DEF Init, Running
<1>3. DOMAIN sent = {}
    BY <1>2
<1>4. Alone /\ Delivered /\ OwnPayload /\ LaterPayloadsInclude
    BY <1>2, <1>3 DEF Alone, Delivered, OwnPayload, LaterPayloadsInclude, Building, Reading
<1>5. \A n \in Notifications : Undisturbed(n)
    BY <1>2 DEF Undisturbed, Targeted, Building, Reading
<1>6. QED
    BY <1>1, <1>2, <1>4, <1>5 DEF IInv

LEMMA StartIInv ==
    ASSUME IInv, NEW n \in Notifications, NEW s \in Sources, Notify(n, s)
    PROVE  IInv'
<1> USE DEF Typing, Typed
<1>1. Typing'
    BY StartTypes, StepTyping DEF IInv
<1>2. /\ UNCHANGED <<instance, objects, target, held, seen, payload, sent, ticks>>
      /\ pc[n] = "idle" /\ pc'[n] \in {"from", "target"} /\ source'[n] = s
      /\ s = "own" => pc'[n] = "target"
      /\ \A m \in Notifications \ {n} : pc'[m] = pc[m] /\ source'[m] = source[m]
      /\ overlapped' = IF Running = {} THEN overlapped ELSE overlapped \cup Running \cup {n}
    BY DEF Notify, Goto, IInv
<1>3. Running' = Running \cup {n}
    BY <1>2 DEF Running
<1>4. Alone'
    BY <1>2, <1>3 DEF Alone, IInv
<1>5. Delivered'
    BY <1>2 DEF Delivered, IInv, Building, Reading
<1>6. \A i \in DOMAIN sent : sent[i].of \in Notifications \ {n}
    BY <1>2 DEF Delivered, IInv
<1>7. OwnPayload'
    BY <1>2, <1>6 DEF OwnPayload, IInv
<1>8. LaterPayloadsInclude'
    BY <1>2, <1>6 DEF LaterPayloadsInclude, IInv
<1>9. ASSUME NEW m \in Notifications, Own(m)'
      PROVE  Undisturbed(m)'
    <2>1. CASE m = n
        BY <1>2, <1>9, <2>1 DEF Undisturbed, Own, Targeted, Building, Reading
    <2>2. CASE m # n
        <3>1. Own(m)
            BY <1>2, <1>9, <2>2 DEF Own
        <3>2. Undisturbed(m)
            BY <3>1 DEF IInv
        <3>3. pc'[m] = pc[m]
            BY <1>2, <2>2
        <3>4. /\ objects' = objects /\ instance' = instance /\ ticks' = ticks /\ payload' = payload
              /\ target' = target /\ held' = held /\ seen' = seen
            BY <1>2
        <3>5. Messages(m)' = Messages(m)
            BY <3>4 DEF Messages
        <3>6. QED
            BY <3>2, <3>3, <3>4, <3>5 DEF Undisturbed
    <2>3. QED
        BY <2>1, <2>2
<1>10. ASSUME NEW m \in Notifications, Own(m)', m \notin ticks', pc'[m] = "sent"
       PROVE  Kept(m)'
    <2>1. m # n /\ Own(m) /\ m \notin ticks /\ pc[m] = "sent"
        BY <1>2, <1>10 DEF Own
    <2>2. Kept(m)
        BY <2>1 DEF IInv
    <2>3. QED
        BY <1>2, <2>2 DEF Kept, Targeted, Building, Reading
<1>11. QED
    BY <1>1, <1>4, <1>5, <1>7, <1>8, <1>9, <1>10 DEF IInv

\* A notification that is sent leaves its message in an Instance nobody replaces.
LEMMA SentIsKept ==
    ASSUME IInv, NEW n \in Notifications, Send(n), Own(n), n \notin ticks
    PROVE  Kept(n)'
<1> USE DEF IInv, Typing, Typed
<1>1. /\ Undisturbed(n) /\ Placed(n) /\ pc[n] = "send" /\ pc'[n] = "sent"
      /\ UNCHANGED <<instance, objects, target, seen>>
    BY DEF Send, Goto, work
<1>2. target[n] = instance /\ instance \in Notifications /\ Messages(n) # <<>> /\ Last(Messages(n)) = n
    BY <1>1 DEF Undisturbed, Placed, Targeted, Building, Reading
<1>3. n \in ToSet(Messages(n))
    <2>1. Messages(n) \in Seq(Notifications)
        BY <1>2 DEF Messages, Objects
    <2>2. Len(Messages(n)) \in DOMAIN Messages(n)
        BY <1>2, <2>1, LenProperties, EmptySeq
    <2>3. QED
        BY <1>2, <2>2 DEF Last, ToSet
<1>4. \A m \in Notifications \ {n} : pc'[m] \in {"idle", "sent", "threw"}
    <2>1. Running = {n}
        BY <1>1 DEF Alone, Own, Running
    <2>2. \A m \in Notifications \ {n} : pc[m] \in {"idle", "sent", "threw"}
        BY <2>1 DEF Running
    <2>3. QED
        BY <2>2 DEF Send, Goto
<1>5. QED
    BY <1>1, <1>2, <1>3, <1>4 DEF Kept, Messages, Targeted, Building, Reading

\* The payload that is sent is whole, and holds the messages of all it follows.
LEMMA SendPayloads ==
    ASSUME IInv, NEW n \in Notifications, Send(n)
    PROVE  Delivered' /\ OwnPayload' /\ LaterPayloadsInclude'
<1> USE DEF IInv, Typing, Typed
<1>1. /\ sent' = Append(sent, payload[n]) /\ pc[n] = "send" /\ pc'[n] = "sent"
      /\ UNCHANGED <<source, overlapped, ticks>>
      /\ \A m \in Notifications \ {n} : pc'[m] = pc[m] /\ payload'[m] = payload[m]
      /\ payload[n] \in Payloads
    BY DEF Send, Goto, work
<1>2. payload[n].of = n
    BY <1>1 DEF Delivered, Building, Reading
<1>3. /\ Len(sent) \in Nat /\ DOMAIN sent = 1..Len(sent) /\ DOMAIN sent' = 1..(Len(sent) + 1)
      /\ sent'[Len(sent) + 1] = payload[n]
      /\ \A i \in DOMAIN sent : sent'[i] = sent[i]
    BY <1>1, AppendProperties, LenProperties
<1>4. \A i \in DOMAIN sent' : i \in DOMAIN sent \/ i = Len(sent) + 1
    BY <1>3
<1>5. Delivered'
    <2>1. ASSUME NEW i \in DOMAIN sent'
          PROVE  sent'[i].of \in Notifications /\ pc'[sent'[i].of] = "sent"
        BY <1>1, <1>2, <1>3, <1>4, <2>1 DEF Delivered
    <2>2. \A m \in Notifications : pc'[m] \in Building \ {"stage"} => payload'[m].of = m
        BY <1>1 DEF Delivered, Building, Reading
    <2>3. QED
        BY <2>1, <2>2 DEF Delivered
<1>6. OwnPayload'
    <2>1. Own(n) => /\ payload[n].stage = n /\ payload[n].finish = n /\ payload[n].data = n
                    /\ n \notin ticks => payload[n].last = n
        BY <1>1 DEF Undisturbed, Building, Reading
    <2>2. QED
        BY <1>1, <1>2, <1>3, <1>4, <2>1 DEF OwnPayload, Own
<1>7. LaterPayloadsInclude'
    <2> SUFFICES ASSUME NEW i \in DOMAIN sent', NEW j \in DOMAIN sent', i < j,
                        source[sent'[i].of] = "own", sent'[i].of \notin overlapped \cup ticks
                 PROVE  sent'[i].of \in ToSet(sent'[j].list)
        BY <1>1 DEF LaterPayloadsInclude
    <2>1. i \in DOMAIN sent /\ sent'[i] = sent[i]
        BY <1>3
    <2>2. CASE j \in DOMAIN sent
        BY <1>3, <2>1, <2>2 DEF LaterPayloadsInclude
    <2>3. CASE j = Len(sent) + 1
        <3>1. sent[i].of \in Notifications /\ pc[sent[i].of] = "sent"
            BY <2>1 DEF Delivered
        <3>2. Kept(sent[i].of)
            BY <2>1, <3>1 DEF Own
        <3>3. sent[i].of \in ToSet(payload[n].list)
            BY <1>1, <3>2 DEF Kept
        <3>4. QED
            BY <1>3, <2>1, <2>3, <3>3
    <2>4. QED
        BY <1>4, <2>2, <2>3
<1>8. QED
    BY <1>5, <1>6, <1>7

\* A step that sends nothing spoils nothing that was sent.
LEMMA OtherPayloads ==
    ASSUME IInv, NEW n \in Notifications, Step(n), ~Send(n)
    PROVE  Delivered' /\ OwnPayload' /\ LaterPayloadsInclude'
<1> USE DEF IInv
<1>1. UNCHANGED <<sent, source, overlapped>> /\ ticks \subseteq ticks' /\ pc[n] # "sent"
    BY AnyStep
<1>2. \A m \in Notifications \ {n} : pc'[m] = pc[m] /\ payload'[m] = payload[m]
    BY StepTypes DEF StepOfOne, Frame
<1>3. pc'[n] \in Building \ {"stage"} => payload'[n].of = n
    <2> USE DEF Typing, Typed
    <2>1. CASE AsHubMessage(n)
        <3>1. CASE Enumerate(n)
            BY <3>1 DEF Enumerate, Delivered, Building, Reading
        <3>2. CASE EnumerationThrows(n)
            BY <3>2 DEF EnumerationThrows, Goto, Building, Reading
        <3>3. ASSUME NEW field \in {"stage", "finish", "list", "last", "data"}, NEW value, NEW here, NEW next,
                     Put(n, field, value, here, next)
              PROVE  payload'[n].of = n
            <4>1. payload'[n] = [payload[n] EXCEPT !.of = n, ![field] = value] /\ payload[n] \in Payloads
                BY <3>3 DEF Put
            <4>2. QED
                BY <4>1 DEF Payloads
        <3>4. QED
            BY <2>1, <3>1, <3>2, <3>3 DEF AsHubMessage, Enumerated
    <2>2. CASE FromMessage(n) \/ Instance(n) \/ FindNoInstance(n) \/ CreateInstance(n)
        BY <2>2 DEF FromMessage, Copy, Read, Write, ReadMessage, NoMessage, SameTick, ContainsNoKey, Insert,
            Instance, FindNoInstance, CreateInstance, Goto, Building, Reading
    <2>3. QED
        BY <2>1, <2>2 DEF Step
<1>4. Delivered'
    BY <1>1, <1>2, <1>3 DEF Delivered
<1>5. OwnPayload' /\ LaterPayloadsInclude'
    BY <1>1 DEF OwnPayload, LaterPayloadsInclude
<1>6. QED
    BY <1>4, <1>5

LEMMA StepIInv == IInv /\ [Next]_vars => IInv'
<1> SUFFICES ASSUME IInv, [Next]_vars
             PROVE  IInv'
    OBVIOUS
<1>1. ASSUME NEW n \in Notifications, Step(n)
      PROVE  IInv'
    <2>1. Typing' /\ Alone'
        BY <1>1, StepTypes, StepTyping, StepAlone DEF IInv
    <2>2. Delivered' /\ OwnPayload' /\ LaterPayloadsInclude'
        BY <1>1, SendPayloads, OtherPayloads
    <2>3. UNCHANGED <<source, overlapped>> /\ ticks \subseteq ticks'
        BY <1>1, AnyStep
    <2>4. ASSUME NEW m \in Notifications, Own(m)'
          PROVE  Undisturbed(m)'
        BY <1>1, <2>3, <2>4, StepUndisturbed DEF IInv, Own
    <2>5. ASSUME NEW m \in Notifications, Own(m)', m \notin ticks', pc'[m] = "sent"
          PROVE  Kept(m)'
        <3>1. Own(m) /\ m \notin ticks
            BY <2>3, <2>5 DEF Own
        <3>2. CASE m = n
            <4>1. Send(n)
                BY <1>1, <2>5, <3>2 DEF Step, FromMessage, AsHubMessage, Instance, FindNoInstance,
                    CreateInstance, Copy, Read, Write, ReadMessage, NoMessage, SameTick, ContainsNoKey,
                    Insert, Put, Enumerate, Enumerated, EnumerationThrows, Goto, IInv, Typing, Typed
            <4>2. QED
                BY <3>1, <3>2, <4>1, SentIsKept
        <3>3. CASE m # n
            <4>1. pc[m] = "sent"
                BY <1>1, <2>5, <3>3, StepTypes DEF IInv, StepOfOne, Frame
            <4>2. Kept(m)
                BY <3>1, <4>1 DEF IInv
            <4>3. CASE Send(n)
                BY <3>3, <4>2, <4>3 DEF Send, Goto, Kept, Targeted, Building, Reading, work,
                    IInv, Typing, Typed
            <4>4. CASE ~Send(n)
                BY <1>1, <4>2, <4>4, StepKept DEF IInv
            <4>5. QED
                BY <4>3, <4>4
        <3>4. QED
            BY <3>2, <3>3
    <2>6. QED
        BY <2>1, <2>2, <2>4, <2>5 DEF IInv
<1>2. CASE UNCHANGED vars
    <2>1. UNCHANGED <<instance, objects, pc, source, from, target, held, seen, payload, sent, overlapped, ticks>>
        BY <1>2 DEF vars, work, history
    <2>2. Typing'
        BY <1>2, UnchangedTyping DEF IInv
    <2>3. Alone' /\ Delivered' /\ OwnPayload' /\ LaterPayloadsInclude'
        BY <2>1 DEF IInv, Alone, Running, Delivered, OwnPayload, LaterPayloadsInclude
    <2>4. \A n \in Notifications : Own(n)' => Undisturbed(n)'
        BY <2>1 DEF IInv, Own, Undisturbed, Messages
    <2>5. \A n \in Notifications : Own(n)' /\ n \notin ticks' /\ pc'[n] = "sent" => Kept(n)'
        BY <2>1 DEF IInv, Own, Kept
    <2>6. QED
        BY <2>2, <2>3, <2>4, <2>5 DEF IInv
<1>3. QED
    BY <1>1, <1>2, StartIInv DEF Next

LEMMA InductiveInvariant == Spec => []IInv
  BY InitIInv, StepIInv, PTL DEF Spec

\* Type correctness of the notifier.
THEOREM TypeCorrect == Spec => []TypeOK
<1>1. IInv => TypeOK
    <2> SUFFICES ASSUME IInv
                 PROVE  TypeOK
        OBVIOUS
    <2>1. /\ instance \in Values /\ source \in [Notifications -> Sources] /\ DOMAIN pc = Notifications
          /\ objects \in [Notifications -> [status : Values, data : Values, messages : Seq(Notifications)]]
          /\ {overlapped, ticks} \subseteq SUBSET Notifications
        BY DEF IInv, Typing, Typed, Objects
    <2>2. \A i \in DOMAIN sent : sent[i].of \in Notifications
        BY DEF IInv, Delivered
    <2>3. ASSUME NEW n \in Notifications
          PROVE  /\ pc[n] \notin {"idle", "from", "create from"} /\ source[n] = "instance" => from[n] \in Notifications
                 /\ pc[n] \notin {"idle", "from", "create from", "target", "create target"} => target[n] \in Notifications
        <3>1. Placed(n) /\ pc[n] \in Steps
            BY DEF IInv, Typing, Typed
        <3>2. QED
            BY <3>1 DEF Placed, Steps
    <2>4. QED
        BY <2>1, <2>2, <2>3 DEF TypeOK
<1>2. QED
    BY InductiveInvariant, <1>1, PTL

\* A notification that ran beside no other sends its own status, data and message.
THEOREM PayloadsAreOwn == Spec => []OwnPayload
  BY InductiveInvariant, PTL DEF IInv

\* A message of the caller's is lost to an exception only for the two reasons known.
THEOREM ThrowsAreExplained == Spec => []ThrowsExplained
<1>1. IInv => ThrowsExplained
    BY DEF IInv, Own, Undisturbed, ThrowsExplained
<1>2. QED
    BY InductiveInvariant, <1>1, PTL

\* Whatever is sent later holds the message of a notification that was alone.
THEOREM LaterPayloadsKeep == Spec => []LaterPayloadsInclude
  BY InductiveInvariant, PTL DEF IInv
===============================================================================
