-------------------------- MODULE CategoryThreads --------------------------
(***************************************************************************)
(* CategoryStore::handleMessages (src/src/store_category.cpp) called by    *)
(* several worker threads on the same store, each with a batch of its own. *)
(* The store has no lock.  One pass of the loop is three steps, cut where  *)
(* it reads or writes the map `stores` that the threads share:             *)
(*                                                                         *)
(*   Find    stores.find(category); when there is no store, copy the model *)
(*           and open the copy (both on an object only this thread has)    *)
(*   Insert  stores[category] = store                                      *)
(*   Hand    isOpen() and handleMessages() of the store, the bookkeeping   *)
(*           of failed_messages, and after the last message the return     *)
(*                                                                         *)
(* Beside the workers a timer thread runs periodicCheck and the owner runs *)
(* open and close.  Each is a loop over the map that calls one child per   *)
(* pass; a pass is a step (PeriodicCheck, Open, Close of one category).    *)
(* A close that falls between isOpen() and handleMessages() of Hand makes  *)
(* the child refuse the message, which is what the test would have done:   *)
(* Hand as one step loses no behaviour.                                    *)
(*                                                                         *)
(* Every operation of the map and every call of a child is atomic: what is *)
(* modelled is the order of the steps, not the access to the memory of the *)
(* map.  A store is a number; `heap` holds every store that was made, also *)
(* those the map has dropped.  The children are those of module            *)
(* CategoryStore, for a model that is a file store.                        *)
(***************************************************************************)
EXTENDS Integers, Sequences, SequencesExt, FiniteSets

CONSTANTS
    Threads,        \* the worker threads
    Categories,     \* the categories messages are tagged with
    MaxMsgs,        \* bound: messages submitted, by all callers
    MaxFaults       \* bound: operations of children the environment fails,
                    \* and children the owner closes

VARIABLES
    stores,             \* CategoryStore::stores: category -> store
    heap,               \* the stores made by modelStore->copy
    messages,           \* thread -> the vector it hands to handleMessages
    pc,                 \* thread -> the step it takes next
    message_iter,       \* thread -> position in its vector
    store,              \* thread -> the local variable `store`
    failed_messages,    \* thread -> the local vector of that name
    submitted,          \* messages submitted so far
    faults              \* failures and closes so far

\* What a worker has of its own.
threadVars == <<messages, pc, message_iter, store, failed_messages>>

vars == <<stores, heap, threadVars, submitted, faults>>

Child == INSTANCE CategoryStore
            WITH Confs <- {[model |-> TRUE, type |-> "thriftfile"]},
                 MaxCalls <- 0, phase <- "configured",
                 modelStore <- "thriftfile", status <- "", stores <- <<>>,
                 instances <- 0, messages <- <<>>, submitted <- <<>>,
                 faults <- 0, calls <- 0

\* A pass of a loop over the map: Call is what the loop does to
\* iter->second.
Visit(c, Call(_)) ==
    /\ c \in DOMAIN stores
    /\ heap' = [heap EXCEPT ![stores[c]] = Call(@)]
    /\ UNCHANGED <<stores, threadVars, submitted>>

Current(t) == messages[t][message_iter[t]]

Goto(t, label) == pc' = [pc EXCEPT ![t] = label]

Charge(ok) ==
    /\ ok \/ faults < MaxFaults
    /\ faults' = faults + (IF ok THEN 0 ELSE 1)

\* The caller of a thread adds a message to the batch it will hand over.
Submit(t) ==
    /\ pc[t] = "idle" /\ submitted < MaxMsgs
    /\ submitted' = submitted + 1
    /\ \E c \in Categories :
          messages' = [messages EXCEPT
                          ![t] = Append(@, [id |-> submitted', category |-> c])]
    /\ UNCHANGED <<stores, heap, pc, message_iter, store, failed_messages,
                   faults>>

\* The top of the loop: look the category up; make and open a store when
\* the map has none.
Find(t) ==
    /\ pc[t] \in {"idle", "find"} /\ messages[t] # <<>>
    /\ LET category == Current(t).category
           made     == Len(heap) + 1
       IN  \/ /\ category \in DOMAIN stores
              /\ store' = [store EXCEPT ![t] = stores[category]]
              /\ Goto(t, "hand")
              /\ UNCHANGED <<heap, faults>>
           \/ /\ category \notin DOMAIN stores
              /\ \E ok \in BOOLEAN :
                    /\ Charge(ok)
                    /\ heap' = Append(heap,
                                  Child!ChildOpen(Child!ChildCopy(made), ok))
              /\ store' = [store EXCEPT ![t] = made]
              /\ Goto(t, "insert")
    /\ UNCHANGED <<stores, messages, message_iter, failed_messages, submitted>>

\* Mutant of Insert: the new store is not put into the map.
Insert_Nothing(t) ==
    /\ pc[t] = "insert"
    /\ Goto(t, "hand")
    /\ UNCHANGED <<stores, heap, messages, message_iter, store,
                   failed_messages, submitted, faults>>

\* stores[category] = store.
Insert(t) ==
    /\ pc[t] = "insert"
    /\ stores' = Child!Put(stores, Current(t).category, store[t])
    /\ Goto(t, "hand")
    /\ UNCHANGED <<heap, messages, message_iter, store, failed_messages,
                   submitted, faults>>

\* Mutant of Failed: only a store that is not open makes a message fail.
Failed_OpenOnly(t, ok) ==
    IF Child!ChildIsOpen(heap[store[t]]) THEN failed_messages[t]
    ELSE Append(failed_messages[t], Current(t))

\* failed_messages after the pass: the message is added when the store is
\* not open or does not take it.
Failed(t, ok) ==
    IF Child!ChildHandles(heap[store[t]], ok) THEN failed_messages[t]
    ELSE Append(failed_messages[t], Current(t))

\* The rest of the pass, and after the last message the end of the call:
\* the vector becomes the failed messages (on true the caller drops it).
Hand(t) ==
    /\ pc[t] = "hand"
    /\ \E ok \in IF Child!ChildIsOpen(heap[store[t]]) THEN BOOLEAN ELSE {TRUE} :
          /\ Charge(ok)
          /\ heap' = [heap EXCEPT
                         ![store[t]] =
                             Child!ChildHandleMessages(@, Current(t), ok)]
          /\ IF message_iter[t] < Len(messages[t])
             THEN /\ message_iter' = [message_iter EXCEPT ![t] = @ + 1]
                  /\ failed_messages' =
                         [failed_messages EXCEPT ![t] = Failed(t, ok)]
                  /\ Goto(t, "find")
                  /\ UNCHANGED messages
             ELSE /\ messages' = [messages EXCEPT ![t] = Failed(t, ok)]
                  /\ message_iter' = [message_iter EXCEPT ![t] = 1]
                  /\ failed_messages' = [failed_messages EXCEPT ![t] = <<>>]
                  /\ Goto(t, "idle")
    /\ UNCHANGED <<stores, store, submitted>>

\* A pass of CategoryStore::periodicCheck, in the timer thread: the child
\* rotates, and is open then, or does not.
PeriodicCheck(c) ==
    \E rotation \in Child!Rotations :
        /\ Charge(rotation # "failed")
        /\ Visit(c, LAMBDA child : Child!ChildPeriodicCheck(child, rotation))

\* A pass of CategoryStore::open, in the thread of the owner.
Open(c) ==
    \E ok \in BOOLEAN :
        /\ Charge(ok)
        /\ Visit(c, LAMBDA child : Child!ChildOpen(child, ok))

\* A pass of CategoryStore::close, in the thread of the owner.
Close(c) ==
    /\ Charge(FALSE)
    /\ Visit(c, Child!ChildClose)

-----------------------------------------------------------------------------

Init ==
    /\ stores = <<>>
    /\ heap = <<>>
    /\ messages = [t \in Threads |-> <<>>]
    /\ pc = [t \in Threads |-> "idle"]
    /\ message_iter = [t \in Threads |-> 1]
    /\ store = [t \in Threads |-> 0]
    /\ failed_messages = [t \in Threads |-> <<>>]
    /\ submitted = 0
    /\ faults = 0

Next ==
    \/ \E t \in Threads : Submit(t) \/ Find(t) \/ Insert(t) \/ Hand(t)
    \/ \E c \in Categories : PeriodicCheck(c) \/ Open(c) \/ Close(c)

Spec == Init /\ [][Next]_vars

-----------------------------------------------------------------------------
(* Properties *)

\* What a thread still holds: the failed messages and those it has not
\* come to.
Pending(t) ==
    failed_messages[t]
        \o SubSeq(messages[t], message_iter[t], Len(messages[t]))

\* A thread makes at most one store for a category, however the threads
\* interleave between stores.find and the assignment to the map: the
\* stores made are bounded by threads times categories, and so are the
\* files, connections and descriptors they hold.  (The other conjuncts are
\* the types.)
TypeOK ==
    /\ DOMAIN stores \subseteq Categories
    /\ \A c \in DOMAIN stores : stores[c] \in DOMAIN heap
    /\ heap \in Seq(Child!Children)
    /\ Len(heap) <= Cardinality(Threads) * Cardinality(Categories)
    /\ messages \in [Threads -> Seq(Child!Messages)]
    /\ pc \in [Threads -> {"idle", "find", "insert", "hand"}]
    /\ \A t \in Threads :
          /\ message_iter[t] \in 1..(Len(messages[t]) + 1)
          /\ store[t] \in 0..Len(heap)
          /\ failed_messages[t] \in Seq(Child!Messages)
    /\ submitted \in 0..MaxMsgs
    /\ faults \in 0..MaxFaults

\* Whatever the threads do to the map, no message is lost and none is
\* written twice: every message submitted is in the log of exactly one
\* store or still with its thread, a store has messages of one category
\* only, and what a thread gives back to its caller is in the order it was
\* submitted.
TakenOnce ==
    LET logs == [i \in DOMAIN heap |-> heap[i].log]
        held == [i \in 1..Cardinality(Threads) |->
                    Pending(SetToSeq(Threads)[i])]
        all  == FlattenSeq(logs) \o FlattenSeq(held)
    IN  /\ Len(all) = submitted
        /\ {m.id : m \in ToSet(all)} = 1..submitted
        /\ \A i \in DOMAIN heap :
              Cardinality({m.category : m \in ToSet(heap[i].log)}) <= 1
        /\ \A t \in Threads : \A j, k \in DOMAIN Pending(t) :
              j < k => Pending(t)[j].id < Pending(t)[k].id

\* The child map of the router "only grows" (the invariants of the store
\* tree), while worker threads "may call handleMessages on the tree root
\* concurrently with different batches": the store of a category is the
\* same object for as long as the CategoryStore lives.  Between
\* stores.find and the assignment to the map nothing is locked.
OneStorePerCategory ==
    [][\A c \in DOMAIN stores : stores'[c] = stores[c]]_vars

=============================================================================
