---------------------- MODULE RemoteConfigurationProvider ----------------------
(***************************************************************************)
(* The client of the configuration service: one RemoteConfigurationProvider *)
(* with its subscriber, its HttpClient and its parser.                      *)
(*                                                                         *)
(* A Load runs on the thread that asked for it (the application's, or one of *)
(* the broker client's) and interleaves with the Loads of the others: the   *)
(* provider has no lock.  A Load reads the endpoint, stores the hash of the *)
(* answer, parses it and stores the parser's dictionary in Data.  Every      *)
(* Parse clears and refills the dictionary the parser has returned before,   *)
(* so Data, once set, is a reference to the parser's buffer.                 *)
(*                                                                         *)
(* A document stands for its bytes and for their SHA-1 (taken as injective). *)
(***************************************************************************)
EXTENDS Naturals, Sequences

CONSTANTS
    Docs,           \* contents the endpoint may serve
    RejectedEarly,  \* documents on which Parse throws before its first entry
    RejectedLate,   \* documents on which Parse throws among its entries
    Main,           \* the application's thread (Build, IConfigurationRoot.Reload)
    Handlers,       \* the broker client's threads that run the handler
    None,           \* no hash yet, no document
    Other,          \* the hash of some other configuration
    Channel,        \* the configuration's name
    Optional,       \* source.Optional
    PassesHash,     \* the subscriber hands over the message (RabbitMq), or its channel (Redis)
    StickyContext,  \* the parser keeps its path stack when it throws (Json)
    Budget          \* how often each kind of event in EventKinds may happen

EventKinds == {"change", "failure", "loss", "reload", "stray"}
Threads == {Main} \cup Handlers

ASSUME DocsAssumption ==
    /\ RejectedEarly \subseteq Docs
    /\ RejectedLate \subseteq Docs
    /\ RejectedEarly \cap RejectedLate = {}
    /\ {None, Other, Channel} \cap Docs = {}
    /\ None \notin {Other, Channel}
ASSUME ThreadsAssumption == Main \notin Handlers
ASSUME FlagsAssumption == {Optional, PassesHash, StickyContext} \subseteq BOOLEAN
ASSUME BudgetAssumption == Budget \in [EventKinds -> Nat]

VARIABLES
    served,       \* what the endpoint answers with
    unpublished,  \* served has changed and its hash is still to be published
    queue,        \* notifications on their way to this client
    Hash, Data,   \* the provider's properties; Data is a reference
    buffer,       \* the pieces of documents in the parser's _data
    context,      \* the parser's path stack is not empty between two Parses
    client,       \* the lazily created HttpClient
    isDisposed,
    pc, doc,      \* where each thread is in its Load, and the answer it got
    trusted,      \* history: since the last answer was fetched no other Load or handler
                  \* has run during a Load, nothing has failed and nothing was lost
    budget        \* events that may still happen

environment == <<served, unpublished, queue>>
parser == <<buffer, context>>
provider == <<Hash, Data, client, isDisposed>>
vars == <<environment, parser, provider, pc, doc, trusted, budget>>

Piece == [doc : Docs, prefixed : BOOLEAN, whole : BOOLEAN]
\* What the buffer holds when it is exactly the dictionary of document d.
Exactly(d) == {[doc |-> d, prefixed |-> FALSE, whole |-> TRUE]}

Alone(t) == \A u \in Threads \ {t} : pc[u] = "idle"
Goto(t, l) == pc' = [pc EXCEPT ![t] = l]
Spend(k) == budget[k] > 0 /\ budget' = [budget EXCEPT ![k] = @ - 1]

Init ==
    /\ served \in Docs
    /\ unpublished = FALSE
    /\ queue = <<>>
    /\ Hash = None
    /\ Data = "initial"
    /\ buffer = {}
    /\ context = FALSE
    /\ client = "none"
    /\ isDisposed = FALSE
    /\ pc = [t \in Threads |-> "idle"]
    /\ doc = [t \in Threads |-> None]
    /\ trusted = FALSE
    /\ budget = Budget
-------------------------------------------------------------------------------
(***************************************************************************)
(* The service and the broker, as this client meets them.                    *)
(***************************************************************************)
Change(d) ==
    /\ d # served
    /\ Spend("change")
    /\ served' = d
    /\ unpublished' = TRUE
    /\ UNCHANGED <<queue, parser, provider, pc, doc, trusted>>

Publish ==
    /\ unpublished
    /\ unpublished' = FALSE
    /\ queue' = Append(queue, served)
    /\ UNCHANGED <<served, parser, provider, pc, doc, trusted, budget>>

\* A hash published again (the service publishes every path when it starts),
\* or the hash of another configuration (the exchange is a fanout).
Stray(m) ==
    /\ m \in IF PassesHash THEN {served, Other} ELSE {served}
    /\ Spend("stray")
    /\ queue' = Append(queue, m)
    /\ UNCHANGED <<served, unpublished, parser, provider, pc, doc, trusted>>

\* The connection to the broker drops: neither broker keeps what the client missed.
Disconnect ==
    /\ Spend("loss")
    /\ queue' = <<>>
    /\ unpublished' = FALSE
    /\ trusted' = FALSE
    /\ UNCHANGED <<served, parser, provider, pc, doc>>
-------------------------------------------------------------------------------
(***************************************************************************)
(* Who starts a Load.                                                        *)
(***************************************************************************)
Begin(t) ==
    /\ Goto(t, "request")
    /\ client' = IF client = "none" THEN "open" ELSE client
    /\ trusted' = (trusted /\ Alone(t))

\* Build and IConfigurationRoot.Reload call Load on the application's thread.
Reload ==
    /\ pc[Main] = "idle"
    /\ Spend("reload")
    /\ Begin(Main)
    /\ UNCHANGED <<environment, parser, Hash, Data, isDisposed, doc>>

\* What the subscriber calls the provider's handler with.
Told(m) == IF PassesHash THEN m ELSE Channel

\* Mutant: the comparison of the handler is inverted.
SkipNewHash(t) ==
    /\ pc[t] = "idle"
    /\ queue # <<>>
    /\ Told(Head(queue)) # Hash
    /\ queue' = Tail(queue)
    /\ trusted' = (trusted /\ Alone(t))
    /\ UNCHANGED <<served, unpublished, parser, provider, pc, doc, budget>>

SkipMessage(t) ==
    /\ pc[t] = "idle"
    /\ queue # <<>>
    /\ Told(Head(queue)) = Hash
    /\ queue' = Tail(queue)
    /\ trusted' = (trusted /\ Alone(t))
    /\ UNCHANGED <<served, unpublished, parser, provider, pc, doc, budget>>

AcceptMessage(t) ==
    /\ pc[t] = "idle"
    /\ queue # <<>>
    /\ Told(Head(queue)) # Hash
    /\ queue' = Tail(queue)
    /\ Begin(t)
    /\ UNCHANGED <<served, unpublished, parser, Hash, Data, isDisposed, doc, budget>>
-------------------------------------------------------------------------------
(***************************************************************************)
(* The steps of a Load.                                                      *)
(***************************************************************************)
\* An exception reaches the catch of RequestConfigurationAsync: an optional
\* source answers null, which LoadAsync stores and the handler then announces;
\* any other rethrows to the caller of Load, past the assignment and OnReload.
Fail(t) ==
    /\ Data' = IF Optional THEN "null" ELSE Data
    /\ Goto(t, IF Optional /\ t \in Handlers THEN "notify" ELSE "idle")
    /\ doc' = [doc EXCEPT ![t] = None]
    /\ trusted' = FALSE
    /\ UNCHANGED <<Hash, client, isDisposed>>

\* Mutant: the body of the answer is not kept.
RespondWithoutBody(t) ==
    /\ pc[t] = "request"
    /\ client = "open"
    /\ Goto(t, "hash")
    /\ trusted' = (Alone(t) /\ ~context)
    /\ UNCHANGED <<environment, parser, provider, doc, budget>>

Respond(t) ==
    /\ pc[t] = "request"
    /\ client = "open"
    /\ doc' = [doc EXCEPT ![t] = served]
    /\ Goto(t, "hash")
    /\ trusted' = (Alone(t) /\ ~context)
    /\ UNCHANGED <<environment, parser, provider, budget>>

\* No answer within RequestTimeout, an error status, or a disposed HttpClient.
FailRequest(t) ==
    /\ pc[t] = "request"
    /\ \/ client = "disposed" /\ UNCHANGED budget
       \/ client = "open" /\ Spend("failure")
    /\ Fail(t)
    /\ UNCHANGED <<environment, parser>>

\* Mutant: the hash is stored by the first Load only.
SetFirstHash(t) ==
    /\ pc[t] = "hash"
    /\ Hash' = IF Hash = None THEN doc[t] ELSE Hash
    /\ Goto(t, "clear")
    /\ UNCHANGED <<environment, parser, Data, client, isDisposed, doc, trusted, budget>>

SetHash(t) ==
    /\ pc[t] = "hash"
    /\ Hash' = doc[t]
    /\ Goto(t, "clear")
    /\ UNCHANGED <<environment, parser, Data, client, isDisposed, doc, trusted, budget>>

\* Mutant: Parse does not clear _data.
KeepData(t) ==
    /\ pc[t] = "clear"
    /\ Goto(t, "visit")
    /\ UNCHANGED <<environment, parser, provider, doc, trusted, budget>>

ClearData(t) ==
    /\ pc[t] = "clear"
    /\ buffer' = {}
    /\ Goto(t, "visit")
    /\ UNCHANGED <<environment, context, provider, doc, trusted, budget>>

\* Another thread has entries in the buffer or is at the parser's stack: keys
\* may collide, and the unsynchronised stack may hold the other's path or keep it.
Disturbed(t) == buffer # {} \/ \E u \in Threads \ {t} : pc[u] = "visit"
Prefixes(t) == IF Disturbed(t) THEN {context, context \/ StickyContext} ELSE {context}

\* Of two pieces of one document under one path, the whole one has every entry of
\* the other: the same keys with the same values.
Entries(pieces) == {q \in pieces : q.whole \/ [q EXCEPT !.whole = TRUE] \notin pieces}
AddPiece(piece) == buffer' = Entries(buffer \cup {piece})

FinishParse(t) ==
    /\ pc[t] = "visit"
    /\ doc[t] \notin RejectedEarly \cup RejectedLate
    /\ \E p, c \in Prefixes(t) :
          /\ AddPiece([doc |-> doc[t], prefixed |-> p, whole |-> TRUE])
          /\ context' = c
    /\ Goto(t, "assign")
    /\ UNCHANGED <<environment, provider, doc, trusted, budget>>

\* Parse throws among its entries; the first key it adds may already be another's.
ThrowInParse(t) ==
    /\ pc[t] = "visit"
    /\ \/ /\ doc[t] \in RejectedEarly
          /\ UNCHANGED parser
       \/ /\ doc[t] \notin RejectedEarly
          /\ doc[t] \in RejectedLate \/ Disturbed(t)
          /\ \/ Disturbed(t) /\ UNCHANGED buffer
             \/ \E p \in Prefixes(t) :
                   AddPiece([doc |-> doc[t], prefixed |-> p, whole |-> FALSE])
          /\ context' = (context \/ StickyContext)
    /\ Fail(t)
    /\ UNCHANGED <<environment, budget>>

Assign(t) ==
    /\ pc[t] = "assign"
    /\ Data' = "parser"
    /\ Goto(t, IF t \in Handlers THEN "notify" ELSE "idle")
    /\ doc' = [doc EXCEPT ![t] = None]
    /\ UNCHANGED <<environment, parser, Hash, client, isDisposed, trusted, budget>>

Notify(t) ==
    /\ pc[t] = "notify"
    /\ Goto(t, "idle")
    /\ UNCHANGED <<environment, parser, provider, doc, trusted, budget>>

\* The subscription outlives the provider: Dispose closes the HttpClient only.
Dispose ==
    /\ ~isDisposed
    /\ isDisposed' = TRUE
    /\ client' = IF client = "open" THEN "disposed" ELSE client
    /\ UNCHANGED <<environment, parser, Hash, Data, pc, doc, trusted, budget>>
-------------------------------------------------------------------------------
LoadStep(t) ==
    \/ Respond(t)
    \/ FailRequest(t)
    \/ SetHash(t)
    \/ ClearData(t)
    \/ FinishParse(t)
    \/ ThrowInParse(t)
    \/ Assign(t)
    \/ Notify(t)

HandlerStep(t) == SkipMessage(t) \/ AcceptMessage(t)

Next ==
    \/ \E d \in Docs : Change(d)
    \/ Publish
    \/ \E m \in Docs \cup {Other} : Stray(m)
    \/ Disconnect
    \/ Reload
    \/ \E t \in Handlers : HandlerStep(t)
    \/ \E t \in Threads : LoadStep(t)
    \/ Dispose

\* A request ends by RequestTimeout at the latest and the rest of a Load never
\* waits; the broker's threads take what is queued; the service publishes.
Fairness ==
    /\ WF_vars(Publish)
    /\ \A t \in Threads : WF_vars(LoadStep(t))
    /\ \A t \in Handlers : WF_vars(HandlerStep(t))

Spec == Init /\ [][Next]_vars
FairSpec == Spec /\ Fairness
-------------------------------------------------------------------------------
Fetched == {"hash", "clear", "visit", "assign"}
Steps == {"idle", "request", "notify"} \cup Fetched

TypeOK ==
    /\ served \in Docs
    /\ unpublished \in BOOLEAN
    /\ queue \in Seq(Docs \cup {Other})
    /\ Hash \in Docs \cup {None}
    /\ Data \in {"initial", "null", "parser"}
    /\ buffer \in SUBSET Piece
    /\ context \in BOOLEAN
    /\ client \in {"none", "open", "disposed"}
    /\ isDisposed \in BOOLEAN
    /\ pc \in [Threads -> Steps]
    /\ doc \in [Threads -> Docs \cup {None}]
    /\ \A t \in Threads : pc[t] \in Fetched => doc[t] \in Docs
    /\ trusted \in BOOLEAN
    /\ budget \in [EventKinds -> Nat]

\* Data is the dictionary of exactly the document that Hash names.
Accurate == Data = "parser" /\ buffer = Exactly(Hash)
Current == Accurate /\ Hash = served

\* Nothing is under way: no notification to come, no Load.
Settled ==
    /\ ~unpublished
    /\ queue = <<>>
    /\ \A t \in Threads : pc[t] = "idle"

\* After a fetch that no other Load or handler overlapped, and as long as no Load
\* fails and no notification is lost, a client with nothing left to do holds exactly
\* what the service serves: the hash comparison skips no change it should load.
CurrentWhenTrusted == Settled /\ trusted => Current

\* A consumer that OnReload wakes reads the document the stored hash names,
\* unless the Load was disturbed: hash, dictionary and event stay together.
NotifiedOfHash == [][\A t \in Threads : Notify(t) /\ trusted => Accurate]_vars

\* The client always ends up with what is served, or with a disturbance since
\* its last undisturbed fetch to blame.
EventuallyCurrent == <>[](trusted => Current)

\* ConfigurationOptions.ReloadOnChange: the source is loaded if the file changes.
ReloadedOnChange == Settled /\ Data # "initial" /\ ~isDisposed => Current
===============================================================================
