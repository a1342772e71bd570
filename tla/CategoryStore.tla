--------------------------- MODULE CategoryStore ---------------------------
(***************************************************************************)
(* CategoryStore (src/src/store_category.cpp): the store that keeps one    *)
(* child store per category, made from a model store on the first message  *)
(* of the category, and hands every message to the child of its category.  *)
(* MultiFileStore and ThriftMultiFileStore are this store with the type of *)
(* the model fixed.                                                        *)
(*                                                                         *)
(* The children are seen through the Store interface: a child is open or   *)
(* not and has the messages it took.  What the model store is decides how  *)
(* they behave: a NullStore is open at all times and takes everything, a   *)
(* RedisStore never says it is open, every other store opens, writes and   *)
(* rotates with the failures the environment picks (which file a message   *)
(* is in is the subject of module ThriftFileStore).                        *)
(*                                                                         *)
(* A message is [id, category]; the caller submits the ids 1, 2, ... in    *)
(* this order and keeps what handleMessages leaves in the batch.           *)
(***************************************************************************)
EXTENDS Integers, Sequences, SequencesExt, FiniteSets

CONSTANTS
    Categories,     \* the categories messages are tagged with
    Confs,          \* the configurations the store may be given
    MaxMsgs,        \* bound: messages the caller submits
    MaxFaults,      \* bound: operations of children the environment fails
    MaxCalls        \* bound: close() calls of the owner

ASSUME ModelAssumption ==
    /\ Categories # {} /\ IsFiniteSet(Categories)
    /\ Confs # {} /\ \A conf \in Confs : DOMAIN conf = {"model", "type"}
    /\ MaxMsgs \in Nat /\ MaxFaults \in Nat /\ MaxCalls \in Nat

VARIABLES
    phase,          \* constructed, configured, or aborted
    modelStore,     \* CategoryStore::modelStore: the type of the model
    status,         \* Store::status
    stores,         \* CategoryStore::stores: category -> child
    instances,      \* stores made by modelStore->copy so far
    messages,       \* the caller's batch, in and out of handleMessages
    submitted,      \* the messages submitted so far, in order
    faults,         \* failures injected so far
    calls           \* close() calls so far

confVars == <<phase, modelStore, status>>
vars == <<confVars, stores, instances, messages, submitted, faults, calls>>

Messages == [id : 1..MaxMsgs, category : Categories]

Children == [id : Nat, open : BOOLEAN, log : Seq(Messages)]

-----------------------------------------------------------------------------
(* The factory and the model store *)

StoreTypes == {"redis", "file", "buffer", "network", "bucket", "thriftfile",
               "null", "multi", "category", "multifile", "thriftmultifile"}

NoStore == "none"       \* the empty shared_ptr<Store>
NoType  == "missing"    \* getString("type") finds no value

\* Store::createStore: a store of the type, or the empty pointer for a
\* name it does not know.
CreateStore(type) == IF type \in StoreTypes THEN type ELSE NoStore

\* MultiFileStore::configure and ThriftMultiFileStore::configure call
\* configureCommon with the section of the store itself and a fixed type:
\* the two stores are a CategoryStore given these configurations.
MultiFileStore       == [model |-> TRUE, type |-> "file"]
ThriftMultiFileStore == [model |-> TRUE, type |-> "thriftfile"]

\* NullStore: open() and isOpen() return true, close() does nothing and
\* handleMessages counts the batch as ignored and returns true.
Discards == modelStore = "null"

\* RedisStore::isOpen returns false whatever was called before.
NeverOpen == modelStore = "redis"

-----------------------------------------------------------------------------
(* A child, as CategoryStore sees it *)

\* copy(category): a new store, not open.
ChildCopy(id) == [id |-> id, open |-> FALSE, log |-> <<>>]

\* open(): a failure leaves the child as it was.
ChildOpen(child, ok) == [child EXCEPT !.open = @ \/ ok]

\* close().
ChildClose(child) == [child EXCEPT !.open = FALSE]

\* store->isOpen().
ChildIsOpen(child) == Discards \/ (child.open /\ ~NeverOpen)

\* handleMessages of one message returns ChildHandles; the child has the
\* message exactly then.
ChildHandles(child, ok) == ChildIsOpen(child) /\ ok

\* Mutant of ChildHandleMessages: the message is written before the store
\* finds that it cannot take it.
ChildHandleMessages_Always(child, m, ok) ==
    [child EXCEPT !.log = Append(@, m)]

ChildHandleMessages(child, m, ok) ==
    IF ChildHandles(child, ok) THEN [child EXCEPT !.log = Append(@, m)]
                               ELSE child

\* periodicCheck(): no rotation is due, or one is and opens a file (also
\* when the child was closed), or one is and fails.  Null, Redis and
\* network stores have no periodicCheck of their own.
Rotations ==
    IF modelStore \in {"null", "redis", "network"}
    THEN {"none"} ELSE {"none", "rotated", "failed"}

ChildPeriodicCheck(child, rotation) == ChildOpen(child, rotation = "rotated")

-----------------------------------------------------------------------------
(* CategoryStore *)

\* What can go wrong while one message is routed: the open() of a child
\* just made, or the write.
Outcomes == IF Discards THEN {"ok"} ELSE {"ok", "open", "write"}

Failures(env) == Cardinality({i \in DOMAIN env : env[i] \notin {"ok", "none"}})

Put(map, category, child) ==
    [c \in DOMAIN map \cup {category} |->
        IF c = category THEN child ELSE map[c]]

\* isOpen(): no child is closed.
IsOpen == \A c \in DOMAIN stores : ChildIsOpen(stores[c])

\* The store stores.find(category) gives, or a copy of the model, opened,
\* when there is none yet.
ChildFor(acc, category, outcome) ==
    IF category \in DOMAIN acc.stores THEN acc.stores[category]
    ELSE ChildOpen(ChildCopy(acc.instances + 1), outcome # "open")

\* The rest of the loop: the store is put into the map and handed the
\* message; a message it does not take is a failed one.
Handed(acc, m, store, ok) ==
    [aborted   |-> FALSE,
     stores    |-> Put(acc.stores, m.category,
                       ChildHandleMessages(store, m, ok)),
     instances |-> IF store.id > acc.instances THEN store.id
                                               ELSE acc.instances,
     failed    |-> IF ChildHandles(store, ok) THEN acc.failed
                                              ELSE Append(acc.failed, m)]

\* Mutant of Route: a message for a child that is not open is not put
\* among the failed ones.
Route_DropUnopened(acc, m, outcome) ==
    LET store == ChildFor(acc, m.category, outcome)
        end   == Handed(acc, m, store, outcome # "write")
    IN  IF ChildIsOpen(store) THEN end
                              ELSE [end EXCEPT !.failed = acc.failed]

\* Mutant of Route: a child is made for every message.
Route_AlwaysCopy(acc, m, outcome) ==
    Handed(acc, m,
           ChildOpen(ChildCopy(acc.instances + 1), outcome # "open"),
           outcome # "write")

\* One pass of the loop of handleMessages: find or make the child of the
\* message's category, hand it the message, note the message as failed if
\* the child is not open or does not take it.
Route(acc, m, outcome) ==
    IF acc.aborted \/ (m.category \notin DOMAIN acc.stores
                          /\ modelStore = NoStore)
    THEN [acc EXCEPT !.aborted = TRUE]       \* modelStore->copy on no store
    ELSE Handed(acc, m, ChildFor(acc, m.category, outcome),
                outcome # "write")

Configured == phase = "configured"

\* Store::setStatus: one assignment, under the status mutex.
SetStatus(text) == status' = text

\* CategoryStore::configure with configureCommon, once after construction.
\* MultiFileStore and ThriftMultiFileStore call configureCommon with the
\* types "file" and "thriftfile": they are the configurations with a model
\* of these types.
Configure ==
    /\ phase = "constructed"
    /\ \E conf \in Confs :
          \/ /\ ~conf.model
             /\ SetStatus("CATEGORYSTORE: NO stores found, invalid store.")
             /\ phase' = "configured"
             /\ UNCHANGED modelStore
          \/ /\ conf.model /\ conf.type = NoType
             /\ SetStatus("CATEGORYSTORE: Store is missing type.")
             /\ phase' = "configured"
             /\ UNCHANGED modelStore
          \/ /\ conf.model /\ conf.type # NoType
             /\ modelStore' = CreateStore(conf.type)
             \* modelStore->configure(configuration) on what was created
             /\ phase' = IF modelStore' = NoStore THEN "aborted"
                                                  ELSE "configured"
             /\ UNCHANGED status
    /\ UNCHANGED <<stores, instances, messages, submitted, faults, calls>>

\* The caller adds a message of some category to its batch.  Messages are
\* accepted once the stores are configured.
Submit ==
    /\ Configured
    /\ Len(submitted) < MaxMsgs
    /\ \E c \in Categories :
          LET m == [id |-> Len(submitted) + 1, category |-> c] IN
          /\ submitted' = Append(submitted, m)
          /\ messages' = Append(messages, m)
    /\ UNCHANGED <<confVars, stores, instances, faults, calls>>

\* CategoryStore::handleMessages.  It returns true when no message failed,
\* and the caller then drops the batch; otherwise the batch becomes the
\* failed messages.
HandleMessages ==
    /\ Configured
    /\ messages # <<>>
    /\ \E env \in [DOMAIN messages -> Outcomes] :
          LET end == FoldLeft(LAMBDA acc, i : Route(acc, messages[i], env[i]),
                              [aborted |-> FALSE, stores |-> stores,
                               instances |-> instances, failed |-> <<>>],
                              [i \in DOMAIN messages |-> i])
          IN  /\ faults + Failures(env) <= MaxFaults
              /\ faults' = faults + Failures(env)
              /\ stores' = end.stores
              /\ instances' = end.instances
              /\ messages' = IF end.aborted THEN messages ELSE end.failed
              /\ phase' = IF end.aborted THEN "aborted" ELSE phase
    /\ UNCHANGED <<modelStore, status, submitted, calls>>

\* CategoryStore::open: open() of every child, also of those that are
\* open.  It returns whether all calls did.
Open ==
    /\ Configured
    /\ \E env \in [DOMAIN stores -> Outcomes \ {"write"}] :
          /\ faults + Failures(env) <= MaxFaults
          /\ faults' = faults + Failures(env)
          /\ stores' = [c \in DOMAIN stores |->
                            ChildOpen(stores[c], env[c] = "ok")]
    /\ UNCHANGED <<confVars, instances, messages, submitted, calls>>

\* CategoryStore::close.
Close ==
    /\ Configured
    /\ calls < MaxCalls
    /\ calls' = calls + 1
    /\ stores' = [c \in DOMAIN stores |-> ChildClose(stores[c])]
    /\ UNCHANGED <<confVars, instances, messages, submitted, faults>>

\* CategoryStore::periodicCheck.
PeriodicCheck ==
    /\ Configured
    /\ \E env \in [DOMAIN stores -> Rotations] :
          /\ faults + Failures([c \in DOMAIN env |->
                                   IF env[c] = "failed" THEN "open"
                                                        ELSE "ok"])
               <= MaxFaults
          /\ faults' = faults + Cardinality({c \in DOMAIN env :
                                                env[c] = "failed"})
          /\ stores' = [c \in DOMAIN stores |->
                            ChildPeriodicCheck(stores[c], env[c])]
    /\ UNCHANGED <<confVars, instances, messages, submitted, calls>>

-----------------------------------------------------------------------------

Init ==
    /\ phase = "constructed"
    /\ modelStore = NoStore
    /\ status = ""
    /\ stores = <<>>
    /\ instances = 0
    /\ messages = <<>>
    /\ submitted = <<>>
    /\ faults = 0
    /\ calls = 0

Next ==
    \/ Configure
    \/ Submit
    \/ HandleMessages
    \/ Open
    \/ Close
    \/ PeriodicCheck

Spec == Init /\ [][Next]_vars

\* The caller offers a batch again until it is taken.  The timer is fair
\* too, but whether a check rotates a child is decided by a configuration
\* this module leaves to the environment: no fairness is put on
\* PeriodicCheck, and none on the owner, whom nothing obliges to call
\* open() again.
FairSpec == Spec /\ WF_vars(HandleMessages)

-----------------------------------------------------------------------------
(* Properties *)

TypeOK ==
    /\ phase \in {"constructed", "configured", "aborted"}
    /\ modelStore \in StoreTypes \cup {NoStore}
    /\ status \in {"", "CATEGORYSTORE: NO stores found, invalid store.",
                   "CATEGORYSTORE: Store is missing type."}
    /\ DOMAIN stores \subseteq Categories
    /\ \A c \in DOMAIN stores : stores[c] \in Children
    /\ instances \in 0..Cardinality(Categories)
    /\ messages \in Seq(Messages)
    /\ submitted \in Seq(Messages)
    /\ faults \in 0..MaxFaults
    /\ calls \in 0..MaxCalls

Of(category, seq) == SelectSeq(seq, LAMBDA m : m.category = category)

Written(category) ==
    IF category \in DOMAIN stores THEN stores[category].log ELSE <<>>

\* Routing is exclusive and neither loses nor repeats a message: for every
\* category, the messages its child wrote and those still in the caller's
\* batch are, without repetition, the messages submitted for it, and the
\* batch is in the order of submission.  This holds across children that
\* fail to open, single messages that fail in the middle of a batch (the
\* loop of handleMessages with its failed_messages vector), close and
\* reopen.
RoutedOnce ==
    /\ \A c \in Categories :
          /\ ToSet(Written(c)) \cup ToSet(Of(c, messages))
                = ToSet(Of(c, submitted))
          /\ Len(Written(c)) + Len(Of(c, messages)) = Len(Of(c, submitted))
    /\ \A i, j \in DOMAIN messages : i < j => messages[i].id < messages[j].id

\* The messages the children have taken.
Taken == UNION {ToSet(stores[c].log) : c \in DOMAIN stores}

Contract == INSTANCE StoreContract
                WITH Messages <- Messages, batch <- messages,
                     handled <- Taken

\* The router implements the contract of handleMessages, with what all its
\* children took as what it has taken: a call moves messages from the batch
\* to children and leaves the failed ones in their order
\* (failed_messages and the swap at the end of handleMessages); open, close
\* and periodicCheck of the children, and children made for a new category,
\* neither take a message back nor touch the batch.
ImplementsContract == Contract!Spec

\* The child of a category stays the same store for as long as the
\* CategoryStore lives, and what it wrote is never taken back: the second
\* message of a category goes to the store the first one made
\* (stores.find in handleMessages).
ChildrenAreKept ==
    [][\A c \in DOMAIN stores :
          /\ c \in DOMAIN stores'
          /\ stores'[c].id = stores[c].id
          /\ IsPrefix(stores[c].log, stores'[c].log)]_vars

\* A child whose open() failed is "not cached as ready -- the next message
\* for that category retries clone+open" (the design of the router): a
\* batch the caller keeps offering is taken in the end, once the failures
\* have stopped.  In handleMessages the child is put into the map whatever
\* open() returned, and no later message opens it.
EventuallyHandled ==
    (messages # <<>>) ~> (messages = <<>>)

=============================================================================
