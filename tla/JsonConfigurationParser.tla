------------------------ MODULE JsonConfigurationParser ------------------------
(***************************************************************************)
(* JsonConfigurationFileParser: one parser object that turns JSON documents, *)
(* one after the other, into flat dictionaries.                             *)
(*                                                                         *)
(* The recursive visit is a machine: todo holds the calls still to make, so   *)
(* that a throw leaves _data and _context as they are at that point.  A call   *)
(* is about a place in the document, as a JsonElement is: the elements on the   *)
(* way to it.                                                              *)
(*                                                                         *)
(* A document is a tree.  A property name is the sequence of path segments    *)
(* its ':'-separated text stands for, folded to one case; the parser joins    *)
(* the names on its stack with ':' again, so a key is their concatenation.   *)
(***************************************************************************)
EXTENDS Naturals, Sequences, SequencesExt

CONSTANTS Segments,    \* of property names
          Digits,      \* the text of an index, as a segment
          Nodes,       \* values: scalars, objects and arrays of Nodes
          Documents,   \* well-formed documents
          Malformed,   \* a text JsonDocument.Parse rejects
          MaxDepth,    \* JsonDocument rejects what is nested deeper
          MaxParses    \* bound on the number of calls of Parse

\* The elements of an object or an array, in the order of the document.
Children(node) ==
    CASE node.kind = "object" ->
            [i \in DOMAIN node.members |->
                [index |-> i, name |-> node.members[i].name, node |-> node.members[i].node]]
      [] node.kind = "array" ->
            [i \in DOMAIN node.items |->
                [index |-> i, name |-> <<Digits[i]>>, node |-> node.items[i]]]
      [] OTHER -> <<>>

\* The value at a place of d.
NodeAt(d, place) == IF place = <<>> THEN d ELSE Last(place).node

\* A place leads from element to element.
IsPlace(d, place) ==
    \A i \in DOMAIN place : place[i] \in ToSet(Children(IF i = 1 THEN d ELSE place[i - 1].node))

\* Of all documents, so that places can be enumerated.
AllElements == UNION {ToSet(Children(node)) : node \in Nodes}

ASSUME MaxParsesAssumption == MaxParses \in Nat
ASSUME NodesAssumption ==
    /\ Digits \in Seq(Segments)
    /\ Documents \subseteq Nodes
    /\ \A node \in Nodes :
          \/ node.kind = "scalar"
          \/ node.kind = "object" /\ node.members \in Seq([name : Seq(Segments), node : Nodes])
          \/ node.kind = "array" /\ node.items \in Seq(Nodes) /\ Len(node.items) <= Len(Digits)
ASSUME DepthAssumption ==
    /\ MaxDepth \in Nat
    /\ \A d \in Documents : \A place \in [1..MaxDepth + 1 -> AllElements] : ~IsPlace(d, place)

VARIABLES data,      \* _data: the set of its entries <<key, value>>
          context,   \* _context, outermost name first
          todo,      \* what is left of the visit
          phase,     \* "idle", "visiting", "returned" or "threw"
          input,     \* the document of the call
          residue,   \* history: what was on the stack when the call started
          parses
vars == <<data, context, todo, phase, input, residue, parses>>

currentPath == FlattenSeq(context)
ContainsKey(key) == \E e \in data : e[1] = key

\* EnterContext, VisitValue and ExitContext for each element of the value at a place.
Call(call, place) == [call |-> call, at |-> place]
VisitEach(node, place) ==
    [i \in DOMAIN Children(node) |-> Call("enter", Append(place, Children(node)[i]))]
Value == NodeAt(input, Head(todo).at)

Init ==
    /\ data = {}
    /\ context = <<>>
    /\ todo = <<>>
    /\ phase = "idle"
    /\ input = Malformed
    /\ residue = <<>>
    /\ parses = 0
-------------------------------------------------------------------------------
\* Mutant: Parse does not clear _data.
ParseOnTop(d) ==
    /\ phase # "visiting"
    /\ parses < MaxParses
    /\ parses' = parses + 1
    /\ input' = d
    /\ residue' = context
    /\ IF d # Malformed /\ d.kind = "object"
       THEN phase' = "visiting" /\ todo' = VisitEach(d, <<>>)
       ELSE phase' = "threw" /\ todo' = <<>>
    /\ UNCHANGED <<data, context>>

\* The dictionary is cleared, the stack is not; a text that is not JSON, or
\* whose root is not an object, throws before anything is visited.
Parse(d) ==
    /\ phase # "visiting"
    /\ parses < MaxParses
    /\ parses' = parses + 1
    /\ data' = {}
    /\ input' = d
    /\ residue' = context
    /\ IF d # Malformed /\ d.kind = "object"
       THEN phase' = "visiting" /\ todo' = VisitEach(d, <<>>)
       ELSE phase' = "threw" /\ todo' = <<>>
    /\ UNCHANGED context

Calls(call) == phase = "visiting" /\ todo # <<>> /\ Head(todo).call = call

EnterContext ==
    /\ Calls("enter")
    /\ context' = Append(context, Last(Head(todo).at).name)
    /\ todo' = <<Call("visit", Head(todo).at), Call("exit", Head(todo).at)>> \o Tail(todo)
    /\ UNCHANGED <<data, phase, input, residue, parses>>

VisitContainer ==
    /\ Calls("visit")
    /\ Value.kind \in {"object", "array"}
    /\ todo' = VisitEach(Value, Head(todo).at) \o Tail(todo)
    /\ UNCHANGED <<data, context, phase, input, residue, parses>>

\* Mutant: an entry is added without looking for its key.
AddScalar ==
    /\ Calls("visit")
    /\ Value.kind = "scalar"
    /\ data' = data \cup {<<currentPath, Value.value>>}
    /\ todo' = Tail(todo)
    /\ UNCHANGED <<context, phase, input, residue, parses>>

VisitScalar ==
    /\ Calls("visit")
    /\ Value.kind = "scalar"
    /\ ~ContainsKey(currentPath)
    /\ data' = data \cup {<<currentPath, Value.value>>}
    /\ todo' = Tail(todo)
    /\ UNCHANGED <<context, phase, input, residue, parses>>

\* Mutant: the exception does not unwind the visit.
ThrowWithoutUnwinding ==
    /\ Calls("visit")
    /\ Value.kind = "scalar"
    /\ ContainsKey(currentPath)
    /\ phase' = "threw"
    /\ UNCHANGED <<data, context, todo, input, residue, parses>>

ThrowDuplicate ==
    /\ Calls("visit")
    /\ Value.kind = "scalar"
    /\ ContainsKey(currentPath)
    /\ phase' = "threw"
    /\ todo' = <<>>
    /\ UNCHANGED <<data, context, input, residue, parses>>

\* Mutant: the stack is not popped.
ExitWithoutPop ==
    /\ Calls("exit")
    /\ todo' = Tail(todo)
    /\ UNCHANGED <<data, context, phase, input, residue, parses>>

ExitContext ==
    /\ Calls("exit")
    /\ context' = Front(context)
    /\ todo' = Tail(todo)
    /\ UNCHANGED <<data, phase, input, residue, parses>>

\* Mutant: Parse returns only with an empty stack.
ReturnIfEmpty ==
    /\ phase = "visiting" /\ todo = <<>> /\ context = <<>>
    /\ phase' = "returned"
    /\ UNCHANGED <<data, context, todo, input, residue, parses>>

Return ==
    /\ phase = "visiting" /\ todo = <<>>
    /\ phase' = "returned"
    /\ UNCHANGED <<data, context, todo, input, residue, parses>>

Next ==
    \/ \E d \in Documents \cup {Malformed} : Parse(d)
    \/ EnterContext
    \/ VisitContainer
    \/ VisitScalar
    \/ ThrowDuplicate
    \/ ExitContext
    \/ Return

Spec == Init /\ [][Next]_vars
FairSpec == Spec /\ WF_vars(EnterContext \/ VisitContainer \/ VisitScalar
                              \/ ThrowDuplicate \/ ExitContext \/ Return)
-------------------------------------------------------------------------------
(***************************************************************************)
(* Reference: the scalars of a document, each with the names that lead to it. *)
(***************************************************************************)
Leaves(d) ==
    {place \in BoundedSeq(AllElements, MaxDepth) :
        place # <<>> /\ IsPlace(d, place) /\ Last(place).node.kind = "scalar"}
Key(place) == FlattenSeq([i \in DOMAIN place |-> place[i].name])
Entries(path, places) == {<<path \o Key(place), Last(place).node.value>> : place \in places}
Ambiguous(d) == \E p, q \in Leaves(d) : p # q /\ Key(p) = Key(q)
Readable(d) == d # Malformed /\ d.kind = "object"

TypeOK ==
    /\ phase \in {"idle", "visiting", "returned", "threw"}
    /\ input \in Documents \cup {Malformed}
    /\ parses \in 0..MaxParses
    /\ \A e \in data : e[1] \in Seq(Segments)
    /\ context \in Seq(Seq(Segments)) /\ residue \in Seq(Seq(Segments))
    /\ todo \in Seq([call : {"enter", "visit", "exit"}, at : Seq(AllElements) \ {<<>>}])
    /\ \A i \in DOMAIN todo : IsPlace(input, todo[i].at)
    /\ phase # "visiting" => todo = <<>>

\* A Parse that returns gives every leaf of its document under its path, below
\* whatever an earlier Parse left on the stack, whichever way the visit went.
ReturnsTheLeaves ==
    phase = "returned" => data = Entries(FlattenSeq(residue), Leaves(input))

\* A Parse that returns leaves the stack as it found it, so that nothing can
\* accumulate over Parses that succeed.
StackRestored == phase = "returned" => context = residue

\* A Parse throws exactly on the documents that are no object or that name one
\* key twice, whatever was left on the stack by the Parses before it.
ThrowsOnlyOnAmbiguity ==
    /\ phase = "threw" => ~Readable(input) \/ Ambiguous(input)
    /\ phase = "returned" => Readable(input) /\ ~Ambiguous(input)

\* Every Parse ends, in a result or an exception.
ParseEnds == phase = "visiting" ~> phase \in {"returned", "threw"}

\* IConfigurationParser: Parse turns the stream into its dictionary: the result
\* is that of the document alone.
ParsesTheStream == phase = "returned" => data = Entries(<<>>, Leaves(input))
===============================================================================
