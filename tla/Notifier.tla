-------------------------------- MODULE Notifier --------------------------------
(***************************************************************************)
(* SignalRNotifier and the HandlerMessage every notification passes through.  *)
(*                                                                         *)
(* A notification copies its message into the one Instance of the process,     *)
(* field by field, and then makes what it sends out of the Instance, again      *)
(* field by field.  Notifications run on threads of their own and nothing       *)
(* orders them.  A field is represented by the notification it comes from.     *)
(***************************************************************************)
EXTENDS Naturals, FiniteSets, Sequences, SequencesExt

CONSTANTS
    Notifications,  \* the calls of NotifyUpdate, NotifyError and their variants
    None,
    MaxRunning      \* how many run at a time

ASSUME NoneAssumption == None \notin Notifications

\* What is given: a message of the caller's with a MessageData, one that New has
\* made and that has none (every overload for strings and data), or nothing.
Sources == {"own", "new", "instance"}
Values == Notifications \cup {None}

VARIABLES
    instance,   \* _instance: a HandlerMessage, named for the notification that made it
    objects,    \* the HandlerMessages that are, or have been, the Instance
    pc,         \* the step each notification is about to take
    source,     \* what it was given
    from, target,   \* the Instance it copies from and the one it copies to
    held,       \* what it has read and is going to write
    seen,       \* the messages an insertion or an enumeration began with
    payload,    \* the object AsHubMessage is making
    sent,       \* history: what the clients of the hub were sent, in order
    overlapped, \* history: notifications that ran while another one did
    ticks       \* history: notifications whose message met another of its tick
vars == <<instance, objects, pc, source, from, target, held, seen, payload, sent, overlapped, ticks>>
work == <<source, from, target>>
history == <<sent, overlapped, ticks>>

NoPayload == [of |-> None, stage |-> None, finish |-> None, list |-> <<>>, last |-> None, data |-> None]
Running == {n \in Notifications : pc[n] \notin {"idle", "sent", "threw"}}
Goto(n, step) == pc' = [pc EXCEPT ![n] = step]

Init ==
    /\ instance = None
    /\ objects = [o \in Notifications |-> [status |-> None, data |-> None, messages |-> <<>>]]
    /\ pc = [n \in Notifications |-> "idle"]
    /\ source = [n \in Notifications |-> "own"]
    /\ from = [n \in Notifications |-> None]
    /\ target = [n \in Notifications |-> None]
    /\ held = [n \in Notifications |-> None]
    /\ seen = [n \in Notifications |-> <<>>]
    /\ payload = [n \in Notifications |-> NoPayload]
    /\ sent = <<>> /\ overlapped = {} /\ ticks = {}
-------------------------------------------------------------------------------
Notify(n, s) ==
    /\ pc[n] = "idle" /\ Cardinality(Running) < MaxRunning
    /\ source' = [source EXCEPT ![n] = s]
    /\ Goto(n, IF s = "instance" THEN "from" ELSE "target")
    /\ overlapped' = IF Running = {} THEN overlapped ELSE overlapped \cup Running \cup {n}
    /\ UNCHANGED <<instance, objects, from, target, held, seen, payload, sent, ticks>>

\* _instance ??= new HandlerMessage(): the variable is read, and then written.
Instance(n) ==
    /\ pc[n] \in {"from", "target"}
    /\ instance # None
    /\ IF pc[n] = "from"
       THEN from' = [from EXCEPT ![n] = instance] /\ Goto(n, "target") /\ UNCHANGED target
       ELSE target' = [target EXCEPT ![n] = instance] /\ Goto(n, "status") /\ UNCHANGED from
    /\ UNCHANGED <<instance, objects, source, held, seen, payload, history>>

FindNoInstance(n) ==
    /\ pc[n] \in {"from", "target"}
    /\ instance = None
    /\ Goto(n, IF pc[n] = "from" THEN "create from" ELSE "create target")
    /\ UNCHANGED <<instance, objects, work, held, seen, payload, history>>

CreateInstance(n) ==
    /\ pc[n] \in {"create from", "create target"}
    /\ instance' = n
    /\ IF pc[n] = "create from"
       THEN from' = [from EXCEPT ![n] = n] /\ Goto(n, "target") /\ UNCHANGED target
       ELSE target' = [target EXCEPT ![n] = n] /\ Goto(n, "status") /\ UNCHANGED from
    /\ UNCHANGED <<objects, source, held, seen, payload, history>>
-------------------------------------------------------------------------------
(***************************************************************************)
(* FromMessage.  LaunchTime and MessageLevel are copied as Status and Data are, *)
(* and sent to nobody; InnerException always reads as null.                   *)
(***************************************************************************)
\* Mutant: FromMessage copies everything but the messages.
FromWithoutMessages(n) ==
    IF source[n] = "instance"
    THEN objects[from[n]]
    ELSE [status |-> n, data |-> n, messages |-> <<>>]

From(n) ==
    IF source[n] = "instance"
    THEN objects[from[n]]
    ELSE [status |-> n, data |-> n, messages |-> IF source[n] = "own" THEN <<n>> ELSE <<>>]

Messages(n) == objects[target[n]].messages

\* A message of the caller's is read by nobody else.
Copy(n, field, here, next) ==
    /\ pc[n] = here /\ source[n] # "instance"
    /\ objects' = [objects EXCEPT ![target[n]][field] = From(n)[field]]
    /\ Goto(n, next)
    /\ UNCHANGED <<instance, work, held, seen, payload, history>>

\* The Instance may change between the reading and the writing.
Read(n, field, here, next) ==
    /\ pc[n] = here /\ source[n] = "instance"
    /\ held' = [held EXCEPT ![n] = From(n)[field]]
    /\ Goto(n, next)
    /\ UNCHANGED <<instance, objects, work, seen, payload, history>>

Write(n, field, here, next) ==
    /\ pc[n] = here
    /\ objects' = [objects EXCEPT ![target[n]][field] = held[n]]
    /\ held' = [held EXCEPT ![n] = None]
    /\ Goto(n, next)
    /\ UNCHANGED <<instance, work, seen, payload, history>>

\* Mutant: LastOrDefault.
ReadMessageOrNone(n) ==
    /\ pc[n] = "message"
    /\ held' = [held EXCEPT ![n] = IF From(n).messages = <<>> THEN None ELSE Last(From(n).messages)]
    /\ Goto(n, "add")
    /\ UNCHANGED <<instance, objects, work, seen, payload, history>>

\* The Message of a HandlerMessage without any throws, when the status and the data
\* of the notification are those of the Instance already.
ReadMessage(n) ==
    /\ pc[n] = "message" /\ From(n).messages # <<>>
    /\ held' = [held EXCEPT ![n] = Last(From(n).messages)]
    /\ Goto(n, "add")
    /\ UNCHANGED <<instance, objects, work, seen, payload, history>>

NoMessage(n) ==
    /\ pc[n] = "message" /\ From(n).messages = <<>>
    /\ Goto(n, "threw")
    /\ UNCHANGED <<instance, objects, work, held, seen, payload, history>>

\* A message whose time of creation is that at which another was added counts as
\* there already; one of the tick in which another is added makes Add throw.
SameTick(n) ==
    /\ pc[n] = "add" /\ Messages(n) # <<>>
    /\ ticks' = ticks \cup {n}
    /\ held' = [held EXCEPT ![n] = None]
    /\ Goto(n, "stage") \/ Goto(n, "threw")
    /\ UNCHANGED <<instance, objects, work, seen, payload, sent, overlapped>>

ContainsNoKey(n) ==
    /\ pc[n] = "add"
    /\ seen' = [seen EXCEPT ![n] = Messages(n)]
    /\ Goto(n, "insert")
    /\ UNCHANGED <<instance, objects, work, held, payload, history>>

\* Mutant: the Instance keeps the last message alone.
InsertAlone(n) ==
    /\ pc[n] = "insert"
    /\ objects' = [objects EXCEPT ![target[n]].messages = <<held[n]>>]
    /\ held' = [held EXCEPT ![n] = None]
    /\ seen' = [seen EXCEPT ![n] = <<>>]
    /\ Goto(n, "stage")
    /\ UNCHANGED <<instance, work, payload, history>>

\* Of insertions into one dictionary at a time, some may be lost.
Insert(n) ==
    /\ pc[n] = "insert"
    /\ \E kept \in {Append(Messages(n), held[n])}
                   \cup (IF Messages(n) = seen[n] THEN {} ELSE {Messages(n), Append(seen[n], held[n])}) :
          objects' = [objects EXCEPT ![target[n]].messages = kept]
    /\ held' = [held EXCEPT ![n] = None]
    /\ seen' = [seen EXCEPT ![n] = <<>>]
    /\ Goto(n, "stage")
    /\ UNCHANGED <<instance, work, payload, history>>
-------------------------------------------------------------------------------
(***************************************************************************)
(* AsHubMessage, which reads the status twice and enumerates the messages, and *)
(* the call of the clients.  An enumeration throws if a message is added.      *)
(***************************************************************************)
\* Mutant: the Message is the first of the dictionary.
PutFirst(n, field, value, here, next) ==
    /\ pc[n] = here
    /\ payload' = [payload EXCEPT ![n] =
                      [@ EXCEPT !.of = n, ![field] = IF field = "last" THEN Head(Messages(n)) ELSE value]]
    /\ Goto(n, next)
    /\ UNCHANGED <<instance, objects, work, held, history>>

Put(n, field, value, here, next) ==
    /\ pc[n] = here
    /\ payload' = [payload EXCEPT ![n] = [@ EXCEPT !.of = n, ![field] = value]]
    /\ Goto(n, next)
    /\ UNCHANGED <<instance, objects, work, held, history>>

Enumerate(n) ==
    /\ pc[n] = "list"
    /\ seen' = [seen EXCEPT ![n] = Messages(n)]
    /\ Goto(n, "enumerated")
    /\ UNCHANGED <<instance, objects, work, held, payload, history>>

Enumerated(n) ==
    /\ Put(n, "list", seen[n], "enumerated", "last")
    /\ Messages(n) = seen[n]
    /\ seen' = [seen EXCEPT ![n] = <<>>]

EnumerationThrows(n) ==
    /\ pc[n] = "enumerated" /\ Messages(n) # seen[n]
    /\ seen' = [seen EXCEPT ![n] = <<>>]
    /\ payload' = [payload EXCEPT ![n] = NoPayload]
    /\ Goto(n, "threw")
    /\ UNCHANGED <<instance, objects, work, held, history>>

AsHubMessage(n) ==
    \/ Put(n, "stage", objects[target[n]].status, "stage", "finish") /\ UNCHANGED seen
    \/ Put(n, "finish", objects[target[n]].status, "finish", "list") /\ UNCHANGED seen
    \/ Enumerate(n)
    \/ Enumerated(n)
    \/ EnumerationThrows(n)
    \/ Put(n, "last", Last(Messages(n)), "last", "payload data") /\ UNCHANGED seen
    \/ Put(n, "data", objects[target[n]].data, "payload data", "send") /\ UNCHANGED seen

Send(n) ==
    /\ pc[n] = "send"
    /\ sent' = Append(sent, payload[n])
    /\ payload' = [payload EXCEPT ![n] = NoPayload]
    /\ Goto(n, "sent")
    /\ UNCHANGED <<instance, objects, work, held, seen, overlapped, ticks>>

FromMessage(n) ==
    \/ Copy(n, "status", "status", "data")
    \/ Read(n, "status", "status", "set status")
    \/ Write(n, "status", "set status", "data")
    \/ Copy(n, "data", "data", "message")
    \/ Read(n, "data", "data", "set data")
    \/ Write(n, "data", "set data", "message")
    \/ ReadMessage(n)
    \/ NoMessage(n)
    \/ SameTick(n)
    \/ ContainsNoKey(n)
    \/ Insert(n)

Step(n) ==
    \/ Instance(n)
    \/ FindNoInstance(n)
    \/ CreateInstance(n)
    \/ FromMessage(n)
    \/ AsHubMessage(n)
    \/ Send(n)

Next == \E n \in Notifications : Step(n) \/ \E s \in Sources : Notify(n, s)

Spec == Init /\ [][Next]_vars
-------------------------------------------------------------------------------
TypeOK ==
    /\ instance \in Values
    /\ objects \in [Notifications -> [status : Values, data : Values, messages : Seq(Notifications)]]
    /\ DOMAIN pc = Notifications
    /\ source \in [Notifications -> Sources]
    /\ {overlapped, ticks} \subseteq SUBSET Notifications
    /\ \A i \in DOMAIN sent : sent[i].of \in Notifications
    /\ \A n \in Notifications :
          /\ pc[n] \notin {"idle", "from", "create from"} /\ source[n] = "instance" => from[n] \in Notifications
          /\ pc[n] \notin {"idle", "from", "create from", "target", "create target"} => target[n] \in Notifications

\* What a notification sends is its own, whole, if no other ran beside it.
OwnPayload ==
    \A i \in DOMAIN sent :
        LET p == sent[i]
        IN source[p.of] = "own" /\ p.of \notin overlapped
           => /\ p.stage = p.of /\ p.finish = p.of /\ p.data = p.of
              /\ p.of \notin ticks => p.last = p.of

\* A message of the caller's fails to be sent only if another ran beside it, or
\* added one in the same tick.
ThrowsExplained ==
    \A n \in Notifications :
        pc[n] = "threw" /\ source[n] = "own" => n \in overlapped \cup ticks

\* A client that has missed what it was sent finds it in whatever is sent later, with
\* the same two exceptions: the Instance keeps every message, in order.
LaterPayloadsInclude ==
    \A i, j \in DOMAIN sent :
        /\ i < j
        /\ source[sent[i].of] = "own" /\ sent[i].of \notin overlapped \cup ticks
        => sent[i].of \in ToSet(sent[j].list)
===============================================================================
