---------------------------- MODULE BufferStore ----------------------------
(***************************************************************************)
(* BufferStore (src/src/store_buffer.h): the store that sends messages to  *)
(* a primary store and, while the primary is down, saves them in a         *)
(* secondary store, from which it sends them on once the primary is back.  *)
(*                                                                         *)
(* src/ holds the declaration only: the states, the configuration and the  *)
(* state fields come from the header, the methods are modelled from the    *)
(* design (the failover state machine of the specification).  Where the    *)
(* design leaves a choice it is named at the definition.                   *)
(*                                                                         *)
(* The primary is a store seen through the Store interface: open or not,   *)
(* and the messages it took.  The secondary is a store that writes a       *)
(* directory of numbered files: a readable file store, read with           *)
(* findOldestFile and written with findNewestFile of module FileStoreBase, *)
(* or a store that can only be written, whose read side is the one of      *)
(* class Store (src/src/store.cpp).  Time is kept as the time since the    *)
(* last attempt to open the primary, which is all the store compares.      *)
(* A message is a number; the caller submits 1, 2, ... in this order.      *)
(***************************************************************************)
EXTENDS Integers, Sequences, SequencesExt, FiniteSets

CONSTANTS
    bufferSendRate,     \* buffer_send_rate: files sent by one periodicCheck
    avgRetryInterval,   \* retry_interval
    retryIntervalRange, \* retry_interval_range
    ReplayBuffer,       \* replay_buffer: the values a configuration gives
    Secondaries,        \* the types a configuration gives the secondary
    MaxMsgs,            \* bound: messages the caller submits
    MaxFaults,          \* bound: calls of the two stores that fail
    MaxCalls            \* bound: open(), close() and restarts

ASSUME ModelAssumption ==
    /\ bufferSendRate \in Nat \ {0}
    /\ avgRetryInterval \in Nat /\ retryIntervalRange \in 0..avgRetryInterval
    /\ ReplayBuffer \subseteq BOOLEAN /\ ReplayBuffer # {}
    /\ Secondaries \subseteq {"file", "thriftfile"} /\ Secondaries # {}
    /\ MaxMsgs \in Nat /\ MaxFaults \in Nat /\ MaxCalls \in Nat

VARIABLES
    replayBuffer,       \* BufferStore::replayBuffer, set by configure
    secondaryType,      \* the type createStore made the secondary of
    state,              \* BufferStore::state
    retryInterval,      \* BufferStore::retryInterval
    sinceOpenAttempt,   \* time(NULL) - lastOpenAttempt
    primaryStore,       \* [open, log]: the primary and what it took
    secondaryStore,     \* the directory of the secondary: file -> messages
    messages,           \* the caller's batch, in and out of handleMessages
    submitted,          \* how many messages the caller has submitted
    faults,             \* failures injected so far
    calls               \* open(), close() and restarts so far

storeVars == <<state, retryInterval, sinceOpenAttempt>>
confVars == <<replayBuffer, secondaryType>>
vars == <<confVars, storeVars, primaryStore, secondaryStore, messages,
          submitted, faults, calls>>

STREAMING      == "STREAMING"
DISCONNECTED   == "DISCONNECTED"
SENDING_BUFFER == "SENDING_BUFFER"
buffer_state_t == {STREAMING, DISCONNECTED, SENDING_BUFFER}

-----------------------------------------------------------------------------
(* The secondary: a store of files that never rotates by date *)

Files == INSTANCE FileStoreBase
            WITH MinutesPerHour <- 60, HoursPerDay <- 24,
                 ZeroOnParseFail <- TRUE, TimeBits <- 64,
                 maxSize <- 0, rollPeriod <- "ROLL_NEVER",
                 rollPeriodLength <- 0, rollHour <- 0, rollMinute <- 0,
                 writeStats <- FALSE, createSymlink <- FALSE

Name(suffix) == Files!MakeFullFilename(suffix, Files!Tm(0))

Oldest(dir) == Files!FindOldestFile(DOMAIN dir, Files!NoDate)

Newest(dir) == Files!FindNewestFile(DOMAIN dir, Files!NoDate)

\* Of the stores in src/ only a FileStore made readable can be read; the
\* read side of the others is the one they inherit from Store.
Readable == secondaryType = "file"

\* empty(now): a FileStore has no file to read; Store::empty answers true
\* whatever was written (as do those of NullStore, RedisStore, MultiStore).
Empty(dir) == ~Readable \/ Oldest(dir) < 0

\* readOldest(messages, now).
ReadOldest(dir) == dir[Name(Oldest(dir))]

\* deleteOldest(now).
DeleteOldest(dir) == Restrict(dir, DOMAIN dir \ {Name(Oldest(dir))})

\* handleMessages of the secondary: the batch goes to the end of the newest
\* file, or into a new one when there is none or the file store rotated.
Spill(dir, batch, rotated) ==
    LET file == Name(IF rotated \/ Newest(dir) < 0 THEN Newest(dir) + 1
                                                    ELSE Newest(dir))
    IN  [f \in DOMAIN dir \cup {file} |->
            (IF f \in DOMAIN dir THEN dir[f] ELSE <<>>)
                \o (IF f = file THEN batch ELSE <<>>)]

RECURSIVE Oldest_k(_, _)
\* The k oldest files, or all when there are fewer: their messages in the
\* order they are read, and the directory without them.
Oldest_k(dir, k) ==
    IF k = 0 \/ Empty(dir) THEN [read |-> <<>>, dir |-> dir]
    ELSE LET rest == Oldest_k(DeleteOldest(dir), k - 1)
         IN  [read |-> ReadOldest(dir) \o rest.read, dir |-> rest.dir]

-----------------------------------------------------------------------------
(* The state machine *)

\* getNewRetryInterval: a random interval around the configured one.
RetryIntervals ==
    (avgRetryInterval - retryIntervalRange)
        ..(avgRetryInterval + retryIntervalRange)

Charge(failed) ==
    /\ faults + failed <= MaxFaults
    /\ faults' = faults + failed

\* Mutant of NewRetryInterval: the range is added twice.
NewRetryInterval_Wide ==
    retryInterval' \in
        avgRetryInterval..(avgRetryInterval + 2 * retryIntervalRange)

NewRetryInterval == retryInterval' \in RetryIntervals

\* changeState(DISCONNECTED): the primary, which took `sent` before it
\* failed, is given up and the retry timer starts with a new interval.
Disconnect(sent) ==
    /\ state' = DISCONNECTED
    /\ primaryStore' = [open |-> FALSE, log |-> primaryStore.log \o sent]
    /\ sinceOpenAttempt' = 0
    /\ NewRetryInterval

\* changeState(SENDING_BUFFER): the primary was opened, and what the
\* secondary holds is sent before anything else.
Reconnect ==
    /\ state' = SENDING_BUFFER
    /\ primaryStore' = [primaryStore EXCEPT !.open = TRUE]
    /\ UNCHANGED <<retryInterval, sinceOpenAttempt>>

\* Mutant of Unsent: the file that was read and not sent is not put back.
Unsent_Dropped(dir, k) == Oldest_k(dir, k + 1).dir

\* SENDING_BUFFER -> DISCONNECTED: the directory after k files were sent
\* and the send of the next one failed.  replaceOldest puts back what was
\* read: the file is as it was.
Unsent(dir, k) == Oldest_k(dir, k).dir

\* Mutant of Expired: the timer is compared with the largest interval
\* that is never reached once the clock of the model has stopped.
Expired_Never == sinceOpenAttempt > avgRetryInterval + retryIntervalRange

\* The retry timer has expired.
Expired == sinceOpenAttempt >= retryInterval

\* The caller adds the next message to the batch it will hand over.
Submit ==
    /\ submitted < MaxMsgs
    /\ submitted' = submitted + 1
    /\ messages' = Append(messages, submitted + 1)
    /\ UNCHANGED <<confVars, storeVars, primaryStore, secondaryStore,
                   faults, calls>>

\* open(): the primary is opened.  When that fails the store is
\* DISCONNECTED; when it succeeds it sends what the secondary holds, which
\* may be left from an earlier run.
Open ==
    /\ calls < MaxCalls
    /\ calls' = calls + 1
    /\ \/ Reconnect /\ UNCHANGED faults
       \/ Disconnect(<<>>) /\ Charge(1)
    /\ UNCHANGED <<confVars, secondaryStore, messages, submitted>>

\* close(): the stores are closed; the state is what it was.
Close ==
    /\ calls < MaxCalls
    /\ calls' = calls + 1
    /\ primaryStore' = [primaryStore EXCEPT !.open = FALSE]
    /\ UNCHANGED <<confVars, storeVars, secondaryStore, messages,
                   submitted, faults>>

\* The batch goes to the secondary, which takes it or fails; a batch it
\* does not take is rejected and stays with the caller.  `failed` is 1
\* when the primary failed before.
Buffer(failed) ==
    \/ /\ \E rotated \in BOOLEAN :
             secondaryStore' = Spill(secondaryStore, messages, rotated)
       /\ messages' = <<>>
       /\ Charge(failed)
    \/ /\ Charge(failed + 1)
       /\ UNCHANGED <<secondaryStore, messages>>

\* handleMessages.  While STREAMING the batch goes to the primary; when the
\* primary fails, and in the other states, it goes to the secondary.
HandleMessages ==
    /\ messages # <<>>
    /\ \/ /\ state = STREAMING /\ primaryStore.open
          /\ primaryStore' = [primaryStore EXCEPT !.log = @ \o messages]
          /\ messages' = <<>>
          /\ UNCHANGED <<storeVars, secondaryStore, faults>>
       \/ /\ state = STREAMING
          /\ Disconnect(<<>>)
          /\ Buffer(IF primaryStore.open THEN 1 ELSE 0)
       \/ /\ state # STREAMING
          /\ Buffer(0)
          /\ UNCHANGED <<storeVars, primaryStore>>
    /\ UNCHANGED <<confVars, submitted, calls>>

\* periodicCheck while DISCONNECTED: when the timer has expired the
\* primary is opened again.
Retry ==
    /\ state = DISCONNECTED /\ Expired
    /\ \/ Reconnect /\ UNCHANGED faults
       \/ Disconnect(<<>>) /\ Charge(1)
    /\ UNCHANGED secondaryStore

\* periodicCheck while SENDING_BUFFER: up to bufferSendRate files are read
\* from the secondary, oldest first, and sent to the primary; a file is
\* deleted when the primary took it.  The store is STREAMING again when
\* nothing is left or nothing is to be replayed.
SendBuffer ==
    /\ state = SENDING_BUFFER
    /\ \/ /\ ~replayBuffer
          /\ state' = STREAMING
          /\ UNCHANGED <<retryInterval, sinceOpenAttempt, primaryStore,
                         secondaryStore, faults>>
       \/ /\ replayBuffer
          /\ \E k \in 0..bufferSendRate :
                LET sent == Oldest_k(secondaryStore, k) IN
                /\ primaryStore.open \/ k = 0
                /\ \/ /\ k = bufferSendRate \/ Empty(sent.dir)
                      /\ primaryStore' = [primaryStore EXCEPT
                                              !.log = @ \o sent.read]
                      /\ secondaryStore' = sent.dir
                      /\ state' = IF Empty(sent.dir) THEN STREAMING
                                                     ELSE SENDING_BUFFER
                      /\ UNCHANGED <<retryInterval, sinceOpenAttempt, faults>>
                   \/ /\ k < bufferSendRate /\ ~Empty(sent.dir)
                      /\ Disconnect(sent.read)
                      /\ secondaryStore' = Unsent(secondaryStore, k)
                      /\ Charge(IF primaryStore.open THEN 1 ELSE 0)

\* periodicCheck.
PeriodicCheck ==
    /\ \/ Retry
       \/ SendBuffer
       \/ /\ state = STREAMING \/ (state = DISCONNECTED /\ ~Expired)
          /\ UNCHANGED <<storeVars, primaryStore, secondaryStore, faults>>
    /\ UNCHANGED <<confVars, messages, submitted, calls>>

\* Time passes; the model stops counting where the timer has expired
\* whatever the interval.
Tick ==
    /\ sinceOpenAttempt < avgRetryInterval + retryIntervalRange
    /\ sinceOpenAttempt' = sinceOpenAttempt + 1
    /\ UNCHANGED <<confVars, state, retryInterval, primaryStore,
                   secondaryStore, messages, submitted, faults, calls>>

\* The state a store is in when it is constructed and configured.
Constructed ==
    /\ replayBuffer \in ReplayBuffer
    /\ secondaryType \in Secondaries
    /\ state = DISCONNECTED
    /\ retryInterval \in RetryIntervals
    /\ sinceOpenAttempt = 0

\* The process is restarted: the store is constructed anew and configured
\* as it was, the primary and the directory of the secondary hold what
\* they held, the caller still has what was not acknowledged.
Restart ==
    /\ calls < MaxCalls
    /\ calls' = calls + 1
    /\ Disconnect(<<>>)
    /\ UNCHANGED <<confVars, secondaryStore, messages, submitted, faults>>

-----------------------------------------------------------------------------

Init ==
    /\ Constructed
    /\ primaryStore = [open |-> FALSE, log |-> <<>>]
    /\ secondaryStore = <<>>
    /\ messages = <<>>
    /\ submitted = 0
    /\ faults = 0
    /\ calls = 0

Next ==
    \/ Submit
    \/ Open
    \/ Close
    \/ HandleMessages
    \/ PeriodicCheck
    \/ Tick
    \/ Restart

Spec == Init /\ [][Next]_vars

\* The timer calls periodicCheck for as long as the process lives, time
\* passes, and the caller offers a batch again until it is taken.
FairSpec ==
    /\ Spec
    /\ WF_vars(PeriodicCheck) /\ WF_vars(Tick) /\ WF_vars(HandleMessages)

-----------------------------------------------------------------------------
(* Properties *)

TypeOK ==
    /\ replayBuffer \in BOOLEAN
    /\ secondaryType \in Secondaries
    /\ state \in buffer_state_t
    /\ retryInterval \in RetryIntervals
    /\ sinceOpenAttempt \in 0..(avgRetryInterval + retryIntervalRange)
    /\ primaryStore \in [open : BOOLEAN, log : Seq(1..MaxMsgs)]
    /\ DOMAIN secondaryStore \subseteq {Name(n) : n \in 0..MaxMsgs}
    /\ \A f \in DOMAIN secondaryStore :
          secondaryStore[f] \in Seq(1..MaxMsgs) \ {<<>>}
    /\ messages \in Seq(1..MaxMsgs)
    /\ submitted \in 0..MaxMsgs
    /\ faults \in 0..MaxFaults /\ calls \in 0..MaxCalls

\* The files of the secondary from the lowest suffix to the highest, and
\* the messages they hold in this order.
ByAge == SetToSortSeq(DOMAIN secondaryStore, LAMBDA f, g : f.n < g.n)

Buffered == FlattenSeq([i \in 1..Len(ByAge) |-> secondaryStore[ByAge[i]]])

\* No failover loses, repeats or reorders a message: what the primary took,
\* what the secondary holds from its oldest file to its newest and the
\* caller's batch are each in the order of submission and together the
\* messages submitted, each once.  A store that replays its buffer from a
\* secondary it can read delivers in that order: the three in a row are
\* 1, 2, ... .  So the primary takes new messages only when the secondary
\* is empty, a file is deleted only when the primary took it, a file that
\* was read and not sent is put back, and the files are replayed oldest
\* first (findOldestFile), also the files a restart finds.
ForwardedInOrder ==
    LET all == primaryStore.log \o Buffered \o messages
        Ascending(seq) == \A i, j \in DOMAIN seq : i < j => seq[i] < seq[j]
    IN  /\ Len(all) = submitted /\ ToSet(all) = 1..submitted
        /\ Ascending(primaryStore.log) /\ Ascending(Buffered)
        /\ Ascending(messages)
        /\ replayBuffer /\ Readable => Ascending(all)

\* The messages the primary took or a file of the secondary holds.
Safe == ToSet(primaryStore.log) \cup
            UNION {ToSet(secondaryStore[f]) : f \in DOMAIN secondaryStore}

Contract == INSTANCE StoreContract
                WITH Messages <- 1..MaxMsgs, batch <- messages,
                     handled <- Safe

\* The store implements the contract of handleMessages, with the messages
\* in the primary or in the secondary as what it has taken: a call leaves
\* in the vector the messages it did not take, in their order, a message
\* is taken once, and no failover, replay, close or restart loses a
\* message that was taken or gives one back.
ImplementsContract == Contract!Spec

\* What is to be forwarded: the caller's batch, and the files of the
\* secondary when the store replays them and empty() reports them.
Backlog == messages # <<>> \/ (replayBuffer /\ ~Empty(secondaryStore))

\* Whatever is to be forwarded is forwarded in the end, once the primary
\* and the secondary stop failing: the retry timer runs out, periodicCheck
\* opens the primary and replays the files, and the store is STREAMING
\* again.
BacklogDrains == Backlog ~> ~Backlog

=============================================================================
