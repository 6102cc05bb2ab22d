--------------------------- MODULE ResponsibilityChain ---------------------------
(***************************************************************************)
(* One execution after another of the three chains of Oluso.Plugins.          *)
(*                                                                         *)
(* All middlewares of an execution share one function and one index.  The      *)
(* function runs the middleware at the index and gives it, as its next, the    *)
(* function itself, or for the last middleware the final function.  A            *)
(* middleware may call its next several times, for instance to retry what      *)
(* threw: the function then goes on where the index is.                      *)
(***************************************************************************)
EXTENDS Naturals, Sequences, FiniteSets

CONSTANTS
    Middlewares,
    Level,      \* IPlugin.Level of each of them
    IsPlugin,   \* those that are IPlugins at all
    Runs,       \* the kinds of chain whose interface each middleware implements
    MaxCalls    \* how often a middleware calls its next in one run

Kinds == {"sync", "async", "types"}

ASSUME MiddlewaresAssumption ==
    /\ Level \in [Middlewares -> Nat]
    /\ IsPlugin \subseteq Middlewares
    /\ Runs \in [Middlewares -> SUBSET Kinds]
ASSUME MaxCallsAssumption == MaxCalls \in Nat

VARIABLES
    kind,       \* PluginResponsibilityChain, AsyncPlugin-, or AsyncResponsibilityChain
    ordered,    \* the list the function indexes
    index,      \* the index its middlewares share
    func,       \* the function variable: the "chain" function or the "final" one
    calling,    \* a function that is being called
    frames,     \* the middlewares on the stack, each with its next and its calls of it
    outcome,    \* of the execution: "none" yet, "returned" or "threw"
    ran,        \* history: the middlewares that were run, in order
    finals,     \* history: calls of the final function
    cut,        \* history: a middleware has ended without its next having been called
    repeated,   \* history: a middleware has called its next again
    failed      \* history: of the exceptions the chain itself has thrown
chain == <<kind, ordered, index, func, calling, frames, outcome, ran, finals, cut, repeated, failed>>

Init ==
    /\ kind = "sync"
    /\ ordered = <<>> /\ index = 0 /\ func = "chain"
    /\ calling = "none" /\ frames = <<>>
    /\ outcome = "returned"
    /\ ran = <<>> /\ finals = 0 /\ cut = FALSE /\ repeated = FALSE /\ failed = {}
-------------------------------------------------------------------------------
\* How to pick the elements of K, by the relation Before: one way if it is total.
Picks(K, Before) ==
    {p \in [1..Cardinality(K) -> K] :
        \A m, n \in 1..Cardinality(K) : m < n => <<p[m], p[n]>> \in Before}
Picked(list, p) == [n \in DOMAIN p |-> list[p[n]]]

\* Mutant: the order of insertion.
Inserted(list) == {q \in (DOMAIN list) \X (DOMAIN list) : q[1] < q[2]}

\* A stable sort by level.
Precede(list) ==
    {q \in (DOMAIN list) \X (DOMAIN list) :
        \/ Level[list[q[1]]] < Level[list[q[2]]]
        \/ Level[list[q[1]]] = Level[list[q[2]]] /\ q[1] < q[2]}

\* Only the asynchronous chain of plugins orders them, and drops what is none.
Arranged(k, list) ==
    IF k = "async"
    THEN {Picked(list, p) : p \in Picks({i \in DOMAIN list : list[i] \in IsPlugin}, Precede(list))}
    ELSE {list}

\* Execute returns a default at once if nothing was chained.
Execute(k, list) ==
    /\ outcome # "none"
    /\ kind' = k
    /\ ordered' \in Arranged(k, list)
    /\ index' = 0 /\ func' = "chain" /\ frames' = <<>>
    /\ ran' = <<>> /\ finals' = 0 /\ cut' = FALSE /\ repeated' = FALSE /\ failed' = {}
    /\ IF list = <<>>
       THEN calling' = "none" /\ outcome' = "returned"
       ELSE calling' = "chain" /\ outcome' = "none"
-------------------------------------------------------------------------------
(***************************************************************************)
(* The function of the chain.                                                *)
(***************************************************************************)
Top == frames[Len(frames)]
Below == SubSeq(frames, 1, Len(frames) - 1)

\* Mutant: the final function is reached one middleware early.
NextAfterMost(n) == IF n + 1 >= Len(ordered) THEN "final" ELSE func

\* Mutant: an index is compared with the length it cannot reach.
NextAfterTooMany(n) == IF n > Len(ordered) THEN "final" ELSE func

\* The function after n middlewares: the final one when they were all.
NextAfter(n) == IF n = Len(ordered) THEN "final" ELSE func

\* Mutant: the index moves on when the middleware has returned.
RunWithoutAdvancing ==
    /\ calling = "chain" /\ index < Len(ordered)
    /\ LET m == ordered[index + 1]
       IN /\ kind \in Runs[m]
          /\ frames' = Append(frames, [who |-> m, next |-> NextAfter(index + 1), calls |-> 0])
          /\ ran' = Append(ran, m)
    /\ calling' = "none"
    /\ UNCHANGED <<kind, ordered, index, func, outcome, finals, cut, repeated, failed>>

Run ==
    /\ calling = "chain" /\ index < Len(ordered)
    /\ LET m == ordered[index + 1]
       IN /\ kind \in Runs[m]
          /\ frames' = Append(frames, [who |-> m, next |-> NextAfter(index + 1), calls |-> 0])
          /\ ran' = Append(ran, m)
    /\ index' = index + 1
    /\ func' = NextAfter(index + 1)
    /\ calling' = "none"
    /\ UNCHANGED <<kind, ordered, outcome, finals, cut, repeated, failed>>

\* An exception of the function reaches the middleware that called it, or the
\* caller of Execute.
ThrowToCaller(why) ==
    /\ calling' = "none"
    /\ failed' = failed \cup {why}
    /\ outcome' = IF frames = <<>> THEN "threw" ELSE outcome
    /\ UNCHANGED <<kind, ordered, frames, ran, finals, cut, repeated>>

\* Mutant: the index moves on before the list is looked at.
OverrunAdvanced ==
    /\ calling = "chain" /\ index >= Len(ordered)
    /\ ThrowToCaller("range")
    /\ index' = index + 1
    /\ UNCHANGED func

\* The list has no element at the index.
Overrun ==
    /\ calling = "chain" /\ index >= Len(ordered)
    /\ ThrowToCaller("range")
    /\ UNCHANGED <<index, func>>

\* The cast throws before the index moves on; a type that resolves to something
\* else gives a null task, which its caller awaits when the index has moved on.
Mismatch ==
    /\ calling = "chain" /\ index < Len(ordered)
    /\ kind \notin Runs[ordered[index + 1]]
    /\ ThrowToCaller("cast")
    /\ IF kind = "types"
       THEN index' = index + 1 /\ func' = NextAfter(index + 1)
       ELSE UNCHANGED <<index, func>>

\* The final function returns or throws to the last middleware.
Finally ==
    /\ calling = "final"
    /\ calling' = "none"
    /\ finals' = finals + 1
    /\ UNCHANGED <<kind, ordered, index, func, frames, outcome, ran, cut, repeated, failed>>
-------------------------------------------------------------------------------
(***************************************************************************)
(* A middleware.  It may catch what its next threw.                          *)
(***************************************************************************)
CallNext ==
    /\ calling = "none" /\ frames # <<>> /\ Top.calls < MaxCalls
    /\ calling' = Top.next
    /\ frames' = Append(Below, [Top EXCEPT !.calls = @ + 1])
    /\ repeated' = (repeated \/ Top.calls > 0)
    /\ UNCHANGED <<kind, ordered, index, func, outcome, ran, finals, cut, failed>>

\* Mutant: the task of the outermost middleware never completes.
LeaveUnlessFirst(how) ==
    /\ calling = "none" /\ Len(frames) > 1
    /\ frames' = Below
    /\ cut' = (cut \/ Top.calls = 0)
    /\ UNCHANGED <<kind, ordered, index, func, calling, ran, finals, repeated, failed, outcome>>

Leave(how) ==
    /\ calling = "none" /\ frames # <<>>
    /\ frames' = Below
    /\ cut' = (cut \/ Top.calls = 0)
    /\ outcome' = IF Below = <<>> THEN how ELSE outcome
    /\ UNCHANGED <<kind, ordered, index, func, calling, ran, finals, repeated, failed>>

Function == Run \/ Overrun \/ Mismatch \/ Finally
Middleware == CallNext \/ Leave("returned") \/ Leave("threw")
-------------------------------------------------------------------------------
ChainTypeOK ==
    /\ kind \in Kinds
    /\ ordered \in Seq(Middlewares) /\ ran \in Seq(Middlewares)
    /\ index \in 0..Len(ordered)
    /\ func \in {"chain", "final"}
    /\ calling \in {"none", "chain", "final"}
    /\ frames \in Seq([who : Middlewares, next : {"chain", "final"}, calls : 0..MaxCalls])
    /\ outcome \in {"none", "returned", "threw"}
    /\ finals \in Nat
    /\ {cut, repeated} \subseteq BOOLEAN
    /\ failed \subseteq {"range", "cast"}

\* However often middlewares call next, catch and retry, each runs at most once in
\* an execution, in the order of the list.  A retry goes on with the middleware
\* after the one that threw.
InOrder ==
    /\ Len(ran) <= index
    /\ kind # "types" => Len(ran) = index /\ \A i \in 1..index : ran[i] = ordered[i]

\* A plugin of the asynchronous chain never runs after one of a higher level.
LevelsAscend ==
    kind = "async" => \A i, j \in 1..Len(ran) : i < j => Level[ran[i]] <= Level[ran[j]]

\* The final function is for the last middleware: all have run before it.
FinalComesLast == finals > 0 \/ calling = "final" => index = Len(ordered)

\* The function runs off the end of its list only when a middleware has called
\* its next again, or when none of what was chained is a plugin.
OverrunExplained == "range" \in failed => repeated \/ ordered = <<>>

\* If no middleware cut the chain short, called next again or met a mismatch,
\* an execution that has ended ran them all and the final function once.
WholeChainRuns ==
    outcome # "none" /\ ordered # <<>> /\ ~cut /\ ~repeated /\ failed = {}
        => index = Len(ordered) /\ finals = 1

\* Every execution ends.
ExecutionEnds == outcome = "none" ~> outcome # "none"
===============================================================================
