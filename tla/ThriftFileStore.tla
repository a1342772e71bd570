-------------------------- MODULE ThriftFileStore --------------------------
(***************************************************************************)
(* ThriftFileStore (src/src/store_thriftfile.cpp) with the rotation logic  *)
(* it inherits from FileStoreBase (src/src/store_filebase.cpp): a store    *)
(* that appends every message of a batch to the current file of a          *)
(* directory and moves on to a new, higher-numbered file when the file is  *)
(* too large or the configured period has passed.                          *)
(*                                                                         *)
(* One store and its directory are modelled, with the three parties that   *)
(* drive them: the caller that owns the batch `messages` and calls open,   *)
(* handleMessages and close; the timer that calls periodicCheck; the       *)
(* environment, which lets time pass, makes single file operations fail    *)
(* and restarts the process.  Every handler is one atomic step.            *)
(*                                                                         *)
(* A message is a number: messages are submitted in the order 1, 2, ...,   *)
(* so that the properties can tell loss, duplication and reordering.       *)
(* MsgLen[m] is the length of its payload.                                 *)
(***************************************************************************)
EXTENDS FileStoreBase, Sequences, SequencesExt

CONSTANTS
    Confs,          \* the configurations the store may be given
    MaxMsgs,        \* bound: messages the caller submits
    MsgLen,         \* payload length of every message
    MaxTime,        \* bound: the clock stops here
    StartTimes,     \* the times the process may start at
    MaxFaults,      \* bound: file operations the environment lets fail
    MaxCalls        \* bound: open() calls and restarts

ASSUME ModelAssumption ==
    /\ Confs # {} /\ \A given \in Confs : DOMAIN given \subseteq Keys
    /\ MaxMsgs \in Nat /\ MaxTime \in Nat
    /\ MsgLen \in [1..MaxMsgs -> Nat]
    /\ StartTimes \subseteq 0..MaxTime /\ StartTimes # {}
    /\ MaxFaults \in Nat /\ MaxCalls \in Nat

VARIABLES
    configured,           \* configure() has been called
    now,                  \* time(NULL), in minutes
    dir,                  \* the files of filePath: name -> messages written
    symlink,              \* target of <base>_current, NoFile when absent
    stats,                \* the lines of the scribe_stats file
    thriftFileTransport,  \* the file the transport writes to, or NoFile
    currentSize,          \* FileStoreBase::currentSize
    eventsWritten,        \* FileStoreBase::eventsWritten
    lastRollTime,         \* FileStoreBase::lastRollTime
    currentFilename,      \* FileStoreBase::currentFilename
    status,               \* Store::status
    messages,             \* the caller's batch, in and out of handleMessages
    submitted,            \* how many messages the caller has submitted
    result,               \* what the last open/handleMessages returned
    checked,              \* periodicCheck has run in the current minute
    faults,               \* failures injected so far
    calls                 \* open() calls and restarts so far

diskVars  == <<dir, symlink, stats>>
storeVars == <<thriftFileTransport, currentSize, eventsWritten, lastRollTime,
               currentFilename, status>>
userVars  == <<messages, submitted, result>>
setup     == <<confVars, configured>>
vars == <<setup, now, diskVars, storeVars, userVars, checked, faults, calls>>

NoFile == [stem |-> -1, kind |-> "bare", n |-> 0]

FileNames == [stem : Nat, kind : {"number"}, n : Nat]

StatusTexts == {"", "File write error", "File open error"}

\* The bytes a sequence of messages takes in a file.
Bytes(seq) == FoldLeft(LAMBDA acc, m : acc + MsgLen[m], 0, seq)

\* FileInterface::list(filePath): the data files, the symlink and the
\* stats file, when they exist.
Listing(d) ==
    DOMAIN d
      \cup (IF symlink # NoFile THEN {MakeBaseSymlink} ELSE {})
      \cup (IF stats # <<>> THEN {[stem |-> -2, kind |-> "text", n |-> 0]}
                            ELSE {})

\* isOpen(): the transport exists (a TFileTransport is open from its
\* construction on).
IsOpen == thriftFileTransport # NoFile

-----------------------------------------------------------------------------
(* The failures one rotation can meet.  Each field says that the call      *)
(* fails: opening the stats file, create_directories, the construction of  *)
(* the transport, unlink and symlink.                                      *)

Env == [stats : BOOLEAN, mkdir : BOOLEAN, open : BOOLEAN,
        unlink : BOOLEAN, symlink : BOOLEAN]

NoFault == [stats |-> FALSE, mkdir |-> FALSE, open |-> FALSE,
            unlink |-> FALSE, symlink |-> FALSE]

\* The failures that can be told apart by what the store does next.
Injects(env) ==
    env.stats \/ env.mkdir \/ env.open \/ env.unlink \/ env.symlink

EnvChoices(withStats) ==
    {env \in Env :
        /\ env.stats => withStats /\ writeStats
        /\ env.open => ~env.mkdir
        /\ env.unlink \/ env.symlink =>
               createSymlink /\ ~env.mkdir /\ ~env.open
        /\ env.symlink => ~env.unlink
        /\ Injects(env) => faults < MaxFaults}

Charge(failed) == faults' = faults + (IF failed THEN 1 ELSE 0)

-----------------------------------------------------------------------------
(* FileStoreBase and ThriftFileStore, internal steps.  `cur` holds the     *)
(* directory and the counters as they are when the step is called, which   *)
(* in handleMessages is after the batch has been written.                  *)

\* Mutant of PrintStats: the line is written from the counters as they were
\* before the batch was added to them.
PrintStats_BeforeBatch(cur, env) ==
    stats' = IF writeStats /\ ~env.stats
             THEN Append(stats, [file   |-> currentFilename,
                                 bytes  |-> currentSize,
                                 events |-> eventsWritten])
             ELSE stats

\* printStats: one line about the current file, unless statistics are off
\* or the stats file cannot be opened.
PrintStats(cur, env) ==
    stats' = IF writeStats /\ ~env.stats
             THEN Append(stats, [file   |-> currentFilename,
                                 bytes  |-> cur.currentSize,
                                 events |-> cur.eventsWritten])
             ELSE stats

\* Mutant of RollTimeAt: the time itself is recorded whatever the period.
RollTimeAt_Raw(t) == t

\* Mutant of RollTimeAt: the cases of the daily and the hourly store are
\* exchanged.
RollTimeAt_Swapped(t) ==
    CASE rollPeriod = ROLL_DAILY  -> Tm(t).hour
      [] rollPeriod = ROLL_HOURLY -> Tm(t).mday
      [] rollPeriod = ROLL_OTHER  -> t
      [] OTHER                    -> lastRollTime

\* The switch of openInternal that records when the file was opened.
RollTimeAt(t) ==
    CASE rollPeriod = ROLL_DAILY  -> Tm(t).mday
      [] rollPeriod = ROLL_HOURLY -> Tm(t).hour
      [] rollPeriod = ROLL_OTHER  -> t
      [] OTHER                    -> lastRollTime

\* Mutant of NextFilename: the suffix is not incremented.
NextFilename_NoIncrement(listing, incrementFilename, t) ==
    LET newest == FindNewestFile(listing, MakeBaseFilename(Tm(t)))
    IN  MakeFullFilename(IF newest < 0 THEN 0 ELSE newest, Tm(t))

\* The name openInternal chooses: the newest suffix of the directory,
\* incremented on request, never below 0.
NextFilename(listing, incrementFilename, t) ==
    LET newest == FindNewestFile(listing, MakeBaseFilename(Tm(t)))
        suffix == IF incrementFilename THEN newest + 1 ELSE newest
    IN  MakeFullFilename(IF suffix < 0 THEN 0 ELSE suffix, Tm(t))

\* ThriftFileStore::openInternal.  It returns ~(env.mkdir \/ env.open).
OpenInternal(cur, incrementFilename, t, env) ==
    LET filename == NextFilename(Listing(cur.dir), incrementFilename, t)
        created  == IF filename \in DOMAIN cur.dir
                    THEN cur.dir
                    ELSE [f \in DOMAIN cur.dir \cup {filename} |->
                            IF f = filename THEN <<>> ELSE cur.dir[f]]
        unopened == /\ dir' = cur.dir
                    /\ currentSize' = cur.currentSize
                    /\ eventsWritten' = cur.eventsWritten
                    /\ UNCHANGED <<thriftFileTransport, currentFilename,
                                   symlink>>
    IN
    \/ /\ env.mkdir                       \* createFileDirectory failed
       /\ unopened
       /\ UNCHANGED <<lastRollTime, status>>
    \/ /\ env.open                        \* the transport threw
       /\ unopened
       /\ lastRollTime' = RollTimeAt(t)
       /\ status' = "File open error"
    \/ /\ ~env.mkdir /\ ~env.open
       /\ lastRollTime' = RollTimeAt(t)
       /\ thriftFileTransport' = filename
       /\ dir' = created
       /\ currentSize' = Bytes(created[filename])
       /\ currentFilename' = filename
       /\ eventsWritten' = 0
       /\ status' = ""
       /\ symlink' = CASE ~createSymlink \/ env.unlink -> symlink
                       [] env.symlink                  -> NoFile
                       [] OTHER                        -> filename

\* FileStoreBase::rotateFile.
RotateFile(cur, t, env) ==
    /\ PrintStats(cur, env)
    /\ OpenInternal(cur, TRUE, t, env)

AsIs == [dir |-> dir, currentSize |-> currentSize,
         eventsWritten |-> eventsWritten]

-----------------------------------------------------------------------------
(* The caller *)

\* ThriftFileStore::configure, once after construction: the keys of
\* FileStoreBase (flush_frequency_ms and msg_buffer_size tune the transport
\* and change nothing here).
Configure ==
    /\ ~configured
    /\ configured' = TRUE
    /\ \E given \in Confs : BaseConfigure(given)
    /\ UNCHANGED <<now, diskVars, storeVars, userVars, checked, faults, calls>>

\* The caller adds the next message to the batch it will hand over.
Submit ==
    /\ configured
    /\ submitted < MaxMsgs
    /\ submitted' = submitted + 1
    /\ messages' = Append(messages, submitted + 1)
    /\ UNCHANGED <<setup, now, diskVars, storeVars, result, checked, faults,
                   calls>>

\* ThriftFileStore::open: always a new file.
Open ==
    /\ configured
    /\ calls < MaxCalls
    /\ calls' = calls + 1
    /\ \E env \in EnvChoices(FALSE) :
          /\ OpenInternal(AsIs, TRUE, now, env)
          /\ result' = ~(env.mkdir \/ env.open)
          /\ Charge(Injects(env))
    /\ UNCHANGED <<setup, now, stats, messages, submitted, checked>>

\* ThriftFileStore::close.
Close ==
    /\ configured
    /\ IsOpen
    /\ thriftFileTransport' = NoFile
    /\ UNCHANGED <<setup, now, diskVars, currentSize, eventsWritten,
                   lastRollTime, currentFilename, status, userVars, checked,
                   faults, calls>>

\* handleMessages on a store that is not open: false, nothing written.
HandleMessagesClosed ==
    /\ ~IsOpen
    /\ result' = FALSE
    /\ UNCHANGED <<setup, now, diskVars, storeVars, messages, submitted,
                   checked, faults, calls>>

\* Mutant of Erased: the written messages stay in the batch.
Erased_Nothing(batch, k) == batch

\* Mutant of Erased: the message whose write threw is erased as well.
Erased_OneMore(batch, k) ==
    IF k > 0 THEN SubSeq(batch, k + 2, Len(batch)) ELSE batch

\* messages->erase(begin, iter) after k messages were written.
Erased(batch, k) ==
    IF k > 0 THEN SubSeq(batch, k + 1, Len(batch)) ELSE batch

\* Mutant of HandleMessagesFailed: the counters are only updated when the
\* whole batch was written.
HandleMessagesFailed_NoCount(k, cur) ==
    /\ faults < MaxFaults
    /\ Charge(TRUE)
    /\ dir' = cur.dir
    /\ UNCHANGED <<currentSize, eventsWritten>>
    /\ status' = "File write error"
    /\ messages' = Erased(messages, k)
    /\ result' = FALSE
    /\ UNCHANGED <<thriftFileTransport, lastRollTime, currentFilename,
                   symlink, stats>>

\* handleMessages when the k+1st write throws: the k messages written are
\* erased from the batch, the rest stays for the caller.
HandleMessagesFailed(k, cur) ==
    /\ faults < MaxFaults
    /\ Charge(TRUE)
    /\ dir' = cur.dir
    /\ currentSize' = cur.currentSize
    /\ eventsWritten' = cur.eventsWritten
    /\ status' = "File write error"
    /\ messages' = Erased(messages, k)
    /\ result' = FALSE
    /\ UNCHANGED <<thriftFileTransport, lastRollTime, currentFilename,
                   symlink, stats>>

\* handleMessages when every write succeeded: the file is rotated at once
\* if it grew past max_size, and the call returns true whatever the
\* rotation did.  The caller then drops the batch.
HandleMessagesWritten(cur) ==
    /\ messages' = <<>>
    /\ result' = TRUE
    /\ \/ /\ OverMaxSize(cur.currentSize)
          /\ \E env \in EnvChoices(TRUE) :
                /\ RotateFile(cur, now, env)
                /\ Charge(Injects(env))
       \/ /\ ~OverMaxSize(cur.currentSize)
          /\ dir' = cur.dir
          /\ currentSize' = cur.currentSize
          /\ eventsWritten' = cur.eventsWritten
          /\ UNCHANGED <<thriftFileTransport, lastRollTime, currentFilename,
                         status, symlink, stats, faults>>

\* ThriftFileStore::handleMessages on an open store.
HandleMessagesOpen ==
    /\ IsOpen
    /\ \E k \in 0..Len(messages) :
          LET written == SubSeq(messages, 1, k)
              cur == [dir |-> [dir EXCEPT ![thriftFileTransport] =
                                              @ \o written],
                      currentSize   |-> currentSize + Bytes(written),
                      eventsWritten |-> eventsWritten + k]
          IN  \/ k < Len(messages) /\ HandleMessagesFailed(k, cur)
              \/ k = Len(messages) /\ HandleMessagesWritten(cur)
    /\ UNCHANGED <<setup, now, submitted, checked, calls>>

HandleMessages ==
    /\ configured
    /\ messages # <<>>
    /\ HandleMessagesClosed \/ HandleMessagesOpen

-----------------------------------------------------------------------------
(* The timer *)

\* FileStoreBase::periodicCheck.
PeriodicCheck ==
    /\ configured
    /\ checked' = TRUE
    /\ \/ /\ ShouldRotate(now, currentSize, lastRollTime)
          /\ \E env \in EnvChoices(TRUE) :
                /\ RotateFile(AsIs, now, env)
                /\ Charge(Injects(env))
       \/ /\ ~ShouldRotate(now, currentSize, lastRollTime)
          /\ UNCHANGED <<diskVars, storeVars, faults>>
    /\ UNCHANGED <<setup, now, userVars, calls>>

-----------------------------------------------------------------------------
(* The environment *)

\* A minute passes.
Tick ==
    /\ configured
    /\ now < MaxTime
    /\ now' = now + 1
    /\ checked' = FALSE
    /\ UNCHANGED <<setup, diskVars, storeVars, userVars, faults, calls>>

\* The state a store is constructed in.
Constructed ==
    /\ Defaults
    /\ thriftFileTransport = NoFile
    /\ currentSize = 0
    /\ eventsWritten = 0
    /\ lastRollTime = 0
    /\ currentFilename = NoFile
    /\ status = ""

\* The process is restarted: the store is constructed anew and configured
\* from the file it was configured from, the directory is what it was, the
\* caller still holds what was not acknowledged.
Restart ==
    /\ configured
    /\ calls < MaxCalls
    /\ calls' = calls + 1
    /\ thriftFileTransport' = NoFile
    /\ currentSize' = 0
    /\ eventsWritten' = 0
    /\ lastRollTime' = 0
    /\ currentFilename' = NoFile
    /\ status' = ""
    /\ result' = FALSE
    /\ checked' = FALSE
    /\ UNCHANGED <<setup, now, diskVars, messages, submitted, faults>>

-----------------------------------------------------------------------------

Init ==
    /\ configured = FALSE
    /\ now \in StartTimes
    /\ dir = <<>>
    /\ symlink = NoFile
    /\ stats = <<>>
    /\ Constructed
    /\ messages = <<>>
    /\ submitted = 0
    /\ result = FALSE
    /\ checked = FALSE
    /\ faults = 0
    /\ calls = 0

Next ==
    \/ Configure
    \/ Submit
    \/ Open
    \/ Close
    \/ HandleMessages
    \/ PeriodicCheck
    \/ Tick
    \/ Restart

Spec == Init /\ [][Next]_vars

\* The timer calls periodicCheck at a fixed interval for as long as the
\* process lives: a check that would change something is not put off
\* for ever.
FairSpec == Spec /\ WF_vars(PeriodicCheck)

-----------------------------------------------------------------------------
(* Properties *)

\* What lastRollTime can hold: nothing, an hour, a day of the month or a
\* time, depending on the rotation period.
RollTimes ==
    CASE rollPeriod = ROLL_NEVER  -> {0}
      [] rollPeriod = ROLL_HOURLY -> 0..(HoursPerDay - 1)
      [] rollPeriod = ROLL_DAILY  -> 0..Tm(MaxTime).mday
      [] rollPeriod = ROLL_OTHER  -> 0..MaxTime

TypeOK ==
    /\ configured \in BOOLEAN
    /\ maxSize \in Nat /\ rollPeriod \in RollPeriods
    /\ rollPeriodLength \in Int /\ rollHour \in Nat /\ rollMinute \in Nat
    /\ writeStats \in BOOLEAN /\ createSymlink \in BOOLEAN
    /\ now \in 0..MaxTime
    /\ DOMAIN dir \subseteq FileNames
    /\ \A f \in DOMAIN dir : dir[f] \in Seq(1..MaxMsgs)
    /\ symlink \in FileNames \cup {NoFile}
    /\ stats \in Seq([file : FileNames \cup {NoFile}, bytes : Nat,
                      events : Nat])
    /\ thriftFileTransport \in FileNames \cup {NoFile}
    /\ currentSize \in Nat /\ eventsWritten \in Nat
    /\ lastRollTime \in RollTimes
    /\ currentFilename \in FileNames \cup {NoFile}
    /\ status \in StatusTexts
    /\ messages \in Seq(1..MaxMsgs)
    /\ submitted \in 0..MaxMsgs
    /\ result \in BOOLEAN /\ checked \in BOOLEAN
    /\ faults \in 0..MaxFaults /\ calls \in 0..MaxCalls

\* The files of the directory, oldest first: by date, then by suffix.
FilesInOrder ==
    SetToSortSeq(DOMAIN dir,
                 LAMBDA f, g : f.stem < g.stem \/ (f.stem = g.stem /\ f.n < g.n))

\* Every message the caller submitted is either in exactly one file or
\* still in the caller's batch, and reading the files oldest first and then
\* the batch gives the messages in the order they were submitted.  This is
\* the contract of handleMessages (true: all written; false: the batch is
\* what was not written, in order) kept across partial writes, rotations in
\* the middle of a call, failed rotations, close, open and restart.
WrittenOnceInOrder ==
    FlattenSeq([i \in 1..Len(FilesInOrder) |-> dir[FilesInOrder[i]]])
        \o messages
      = [i \in 1..submitted |-> i]

\* The messages that are in a file of the directory.
Durable == UNION {ToSet(dir[f]) : f \in DOMAIN dir}

Contract == INSTANCE StoreContract
                WITH Messages <- 1..MaxMsgs, batch <- messages,
                     handled <- Durable

\* The store implements the contract of handleMessages, with the files of
\* the directory as what it has taken: every step either submits a message,
\* or moves messages from the batch into the files and leaves the rest of
\* the batch in order, or changes neither.  A write that throws half way
\* (the catch block of handleMessages), a rotation inside the call, open,
\* close, periodicCheck and a restart never take a message out of a file
\* and never put one back into the batch.
ImplementsContract == Contract!Spec

\* When the store moves to another file (open, rotateFile, after a
\* restart), that file did not exist before and its suffix is above that of
\* every file of the same base name: no file is written again once the
\* store has left it, whatever else lies in the directory.
RotationOpensFreshFile ==
    [][thriftFileTransport' \notin {thriftFileTransport, NoFile} =>
          /\ thriftFileTransport' \notin DOMAIN dir
          /\ \A f \in DOMAIN dir :
                f.stem = thriftFileTransport'.stem =>
                    f.n < thriftFileTransport'.n]_vars

\* While the store is open, currentSize and eventsWritten, which decide
\* rotations and go into the statistics, are the size and the number of
\* messages of the file the transport writes to, and currentFilename is
\* that file: also after a batch that failed half way.
CountersMatchFile ==
    IsOpen =>
        /\ currentFilename = thriftFileTransport
        /\ currentSize = Bytes(dir[thriftFileTransport])
        /\ eventsWritten = Len(dir[thriftFileTransport])

\* A line that printStats appends when a file is rotated out describes the
\* file the store leaves, with the bytes and events it holds at the end of
\* the call, the batch that triggered the rotation included.
StatsDescribeClosedFile ==
    [][stats' # stats /\ Last(stats').file # NoFile =>
          LET line == Last(stats') IN
          /\ line.file \in DOMAIN dir'
          /\ line.bytes = Bytes(dir'[line.file])
          /\ line.events = Len(dir'[line.file])]_vars

\* A file that has grown past max_size is rotated out in the end, even if
\* the rotation in handleMessages failed and no further batch arrives:
\* periodicCheck retries it.
OversizeEventuallyRotates ==
    OverMaxSize(currentSize) ~> ~OverMaxSize(currentSize)

\* A store does not rotate at every check: right after a periodicCheck
\* without failure the test of periodicCheck is false, because what
\* openInternal recorded as lastRollTime (a day of the month, an hour or a
\* time, by its switch on rollPeriod) is what the switch of periodicCheck
\* compares the clock with.  This says nothing on whether the test is true
\* whenever a rotation is due.
NotDueAfterCheck ==
    checked /\ IsOpen /\ faults = 0 => ~PeriodPassed(now, lastRollTime)

\* A rotation that is due stays due until a file has been opened: a
\* rotation that fails is retried by the next periodicCheck.  (Steps that
\* let time pass, restart the process or close the store are left out.)
DueUntilRotated ==
    [][/\ ShouldRotate(now, currentSize, lastRollTime)
       /\ now' = now /\ calls' = calls
       /\ thriftFileTransport' = thriftFileTransport
       => ShouldRotate(now', currentSize', lastRollTime')]_vars

=============================================================================
