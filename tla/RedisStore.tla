----------------------------- MODULE RedisStore -----------------------------
(***************************************************************************)
(* RedisStore (src/src/store_redis.cpp): the store that pushes every       *)
(* message of a batch onto a list of a Redis server, over a connection it  *)
(* makes for the batch and frees after it.                                 *)
(*                                                                         *)
(* Modelled are the pointer `c` and the contexts it has pointed to, the    *)
(* list on the server, the caller with its batch and the owner that calls  *)
(* open and close.  A context is a number; a message is [id, len], the     *)
(* payload that reaches the server is [id, len] with the length the        *)
(* command is given.  The key (one list per category and hour) is left     *)
(* out: all messages sent to a server go to one list.  A server is the     *)
(* pair of redis_host and redis_port.                                      *)
(*                                                                         *)
(* Where the code has undefined behaviour the step is taken and noted in   *)
(* `damage`; the process goes on, which is one of the things a build does. *)
(***************************************************************************)
EXTENDS Integers, Sequences, SequencesExt, FiniteSets

CONSTANTS
    Servers,        \* the servers a configuration can name
    Lens,           \* the lengths a message can have
    triggerPath,    \* a trigger is configured
    MaxMsgs,        \* bound: messages the caller submits
    MaxCalls        \* bound: open() and close() calls of the owner

ASSUME ModelAssumption ==
    /\ Servers # {}
    /\ Lens \subseteq Nat /\ Lens # {}
    /\ triggerPath \in BOOLEAN
    /\ MaxMsgs \in Nat /\ MaxCalls \in Nat

VARIABLES
    configured,     \* the store was configured, or is a copy
    redisHost,      \* RedisStore::redisHost and redisPort
    c,              \* RedisStore::c: a context, or Wild before the first open
    live,           \* the contexts that are allocated
    contexts,       \* contexts made so far
    list,           \* server -> its list, head first
    triggered,      \* the messages a trigger was started for
    damage,         \* the undefined behaviour met so far
    messages,       \* the caller's batch
    submitted,      \* the messages submitted so far, in order
    calls           \* open() and close() calls of the owner so far

confVars == <<configured, redisHost>>
vars == <<confVars, c, live, contexts, list, triggered, damage, messages, submitted,
          calls>>

Wild == 0           \* the value of a pointer that was never assigned

Localhost == "localhost:6379"   \* the server of the constructor

Hosts == Servers \cup {Localhost}

Damages == {"free of a freed context", "free of a wild pointer",
            "write before the buffer"}

Messages == [id : 1..MaxMsgs, len : Lens]

\* isOpen().
IsOpen == FALSE

\* What handleMessages makes of a message: the copy loses its last byte
\* to the terminating zero.
Payload(m) == [id |-> m.id, len |-> IF m.len > 0 THEN m.len - 1 ELSE 0]

\* Mutant of Pushed: the batch is pushed with one command.
Pushed_AtOnce(batch, onto) ==
    [i \in DOMAIN batch |-> Payload(batch[i])] \o onto

\* The list after LPUSH of the payloads of `batch`, one by one.
Pushed(batch, onto) ==
    FoldLeft(LAMBDA acc, m : <<Payload(m)>> \o acc, onto, batch)

\* Store::runTrigger for every message of `batch`: a process is started
\* if a trigger is configured, and nobody waits for it.
RunTrigger(batch) ==
    IF triggerPath THEN {m.id : m \in ToSet(batch)} ELSE {}

\* Mutant of Freed: close() does not free the context.
Freed_Nothing(heap, ctx) == heap

\* redisFree(c) on the contexts `heap`.
Freed(heap, ctx) == heap \ {ctx}

FreeDamage(heap, ctx) ==
    CASE ctx \in heap -> {}
      [] ctx = Wild   -> {"free of a wild pointer"}
      [] OTHER        -> {"free of a freed context"}

\* The store the constructor leaves.
Constructed ==
    /\ redisHost = Localhost
    /\ c = Wild

-----------------------------------------------------------------------------

\* RedisStore::configure, called once on the store the configuration file
\* names: a key that is given replaces the default.
Configure ==
    /\ ~configured
    /\ configured' = TRUE
    /\ redisHost' \in Hosts
    /\ UNCHANGED <<c, live, contexts, list, triggered, damage, messages,
                   submitted, calls>>

\* RedisStore::copy, as a category store calls it on its model: from here
\* on the store of the model is the copy, a store newly constructed.  The
\* contexts of the store it was made from stay as they are.
Copy ==
    /\ configured /\ calls < MaxCalls
    /\ calls' = calls + 1
    /\ redisHost' = Localhost
    /\ c' = Wild
    /\ UNCHANGED <<configured, live, contexts, list, triggered, damage,
                   messages, submitted>>

\* The caller adds a message to its batch.
Submit ==
    /\ configured /\ Len(submitted) < MaxMsgs
    /\ \E len \in Lens :
          LET m == [id |-> Len(submitted) + 1, len |-> len] IN
          /\ submitted' = Append(submitted, m)
          /\ messages' = Append(messages, m)
    /\ UNCHANGED <<confVars, c, live, contexts, list, triggered, damage,
                   calls>>

\* RedisStore::open, called by the owner: a new context, connected or
\* with its error set, takes the place of whatever c was.
Open ==
    /\ configured /\ calls < MaxCalls
    /\ calls' = calls + 1
    /\ contexts' = contexts + 1
    /\ c' = contexts'
    /\ live' = live \cup {c'}
    /\ UNCHANGED <<confVars, list, triggered, damage, messages, submitted>>

\* RedisStore::close, called by the owner.
Close ==
    /\ configured /\ calls < MaxCalls
    /\ calls' = calls + 1
    /\ live' = Freed(live, c)
    /\ damage' = damage \cup FreeDamage(live, c)
    /\ UNCHANGED <<confVars, c, contexts, list, triggered, messages,
                   submitted>>

\* RedisStore::handleMessages: connect, push message after message, start
\* the trigger for each, free the connection, return true.  The first k
\* commands reach the server: all of them, or those before the connection
\* broke, or none when the connect failed.  The caller drops the batch.
HandleMessages ==
    /\ configured /\ messages # <<>>
    /\ \E k \in 0..Len(messages) :
          list' = [list EXCEPT
                      ![redisHost] = Pushed(SubSeq(messages, 1, k), @)]
    /\ contexts' = contexts + 1
    /\ c' = contexts'
    /\ live' = Freed(live \cup {c'}, c')
    /\ triggered' = triggered \cup RunTrigger(messages)
    /\ damage' = damage \cup
                    (IF \E m \in ToSet(messages) : m.len = 0
                     THEN {"write before the buffer"} ELSE {})
    /\ messages' = <<>>
    /\ UNCHANGED <<confVars, submitted, calls>>

-----------------------------------------------------------------------------

Init ==
    /\ configured = FALSE
    /\ Constructed
    /\ live = {}
    /\ contexts = 0
    /\ list = [h \in Hosts |-> <<>>]
    /\ triggered = {}
    /\ damage = {}
    /\ messages = <<>>
    /\ submitted = <<>>
    /\ calls = 0

Next ==
    \/ Configure
    \/ Copy
    \/ Submit
    \/ Open
    \/ Close
    \/ HandleMessages

Spec == Init /\ [][Next]_vars

-----------------------------------------------------------------------------
(* Properties *)

\* The contexts allocated are at most those the owner opened: a batch
\* frees the connection it made.
TypeOK ==
    /\ configured \in BOOLEAN /\ redisHost \in Hosts
    /\ c \in 0..contexts
    /\ live \subseteq 1..contexts /\ Cardinality(live) <= MaxCalls
    /\ contexts \in 0..(MaxMsgs + MaxCalls)
    /\ list \in [Hosts -> Seq([id : 1..MaxMsgs, len : Nat])]
    /\ triggered \subseteq 1..MaxMsgs
    /\ damage \subseteq Damages
    /\ messages \in Seq(Messages)
    /\ submitted \in Seq(Messages)
    /\ calls \in 0..MaxCalls

\* A reader that takes from the tail of the list of a server gets the
\* messages in the order they were submitted, none of them twice and none
\* that another server has, each with the payload handleMessages made of
\* it: LPUSH per message, batch after batch.
PushedInOrder ==
    LET all == FlattenSeq([i \in 1..Cardinality(Hosts) |->
                              list[SetToSeq(Hosts)[i]]])
    IN  /\ \A i, j \in DOMAIN all : i # j => all[i].id # all[j].id
        /\ \A h \in Hosts : \A i, j \in DOMAIN list[h] :
              i < j => list[h][i].id > list[h][j].id
        /\ \A i \in DOMAIN all : all[i] = Payload(submitted[all[i].id])

\* handleMessages returns true only for a batch that is on the server:
\* a message is in the caller's batch or in the list.
AcknowledgedIsPushed ==
    \A m \in ToSet(submitted) :
        \/ m \in ToSet(messages)
        \/ \E h \in Hosts : \E i \in DOMAIN list[h] : list[h][i].id = m.id

\* Every context is freed once: close() is not handed a context that
\* handleMessages or an earlier close() has freed.
NoContextFreedTwice ==
    "free of a freed context" \notin damage

=============================================================================
