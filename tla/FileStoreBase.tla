--------------------------- MODULE FileStoreBase ---------------------------
(***************************************************************************)
(* The part of a file-backed store that every file store shares            *)
(* (src/src/store_filebase.cpp): how a file is named, how the newest and   *)
(* the oldest file of a directory are found, and when periodicCheck        *)
(* decides to rotate.  Its variables are the fields configure() sets, its  *)
(* operators the methods of FileStoreBase that compute a value; the stores *)
(* that derive from it (ThriftFileStore) extend it with their state and    *)
(* their actions.                                                          *)
(*                                                                         *)
(* Data abstraction.  Time is a count of minutes; a day has HoursPerDay    *)
(* hours of MinutesPerHour minutes.  A file name  <base>_<suffix>  is the  *)
(* record [stem, kind, n]: stem is what stands before the last '_', kind   *)
(* says what follows it.  The base name of a dated file is the day it was  *)
(* created on, the base name of an undated one is NoDate.                  *)
(***************************************************************************)
EXTENDS Integers, Sequences, FiniteSets, FiniteSetsExt

CONSTANTS
    MinutesPerHour,     \* 60 in the program, small in a model
    HoursPerDay,        \* 24 in the program, small in a model
    ZeroOnParseFail,    \* stream >> int  on text that is no number sets
                        \* the int to 0 (C++11 and later) or leaves it
    TimeBits            \* width of time_t: 64 in the program, small in a
                        \* model

VARIABLES
    maxSize,            \* max_size: rotate when the file is larger; 0 = never
    rollPeriod,         \* rotate_period after configure()
    rollPeriodLength,   \* length of a ROLL_OTHER period, in minutes
    rollHour,           \* rotate_hour
    rollMinute,         \* rotate_minute
    writeStats,         \* write_stats
    createSymlink       \* create_symlink

confVars == <<maxSize, rollPeriod, rollPeriodLength, rollHour, rollMinute,
              writeStats, createSymlink>>

ROLL_NEVER  == "ROLL_NEVER"
ROLL_HOURLY == "ROLL_HOURLY"
ROLL_DAILY  == "ROLL_DAILY"
ROLL_OTHER  == "ROLL_OTHER"
RollPeriods == {ROLL_NEVER, ROLL_HOURLY, ROLL_DAILY, ROLL_OTHER}

ASSUME ScaleAssumption ==
    /\ MinutesPerHour \in Nat \ {0} /\ HoursPerDay \in Nat \ {0}
    /\ ZeroOnParseFail \in BOOLEAN
    /\ TimeBits \in Nat \ {0}

-----------------------------------------------------------------------------
(* configure() *)

\* The units a rotate_period can be given in, and their seconds.
Units == {"w", "d", "h", "m", "s"}

Seconds == [w |-> 604800, d |-> 86400, h |-> 3600, m |-> 60, s |-> 1]

\* A product of time_t: what does not fit wraps around.
AsTimeT(x) ==
    LET r == x % (2 ^ TimeBits)
    IN  IF r >= 2 ^ (TimeBits - 1) THEN r - 2 ^ TimeBits ELSE r

\* What configure() makes of rotate_period.  The text is one of the words
\* hourly, daily, never, or ("number") whatever else, as strtol reads it:
\* the value, whether it had digits, whether it was out of range, and the
\* characters after the digits.  The test `ok` is made before the value
\* is multiplied.
RotatePeriod(text) ==
    LET unit == IF text.tail = <<>> THEN "" ELSE Head(text.tail)
        ok   == /\ ~text.erange /\ text.count > 0 /\ text.digits
                /\ Len(text.tail) <= 1
                /\ unit \in Units \cup {""}
        len  == IF unit \in Units \ {"s"}
                THEN AsTimeT(text.count * Seconds[unit])
                ELSE text.count
    IN  CASE text.word = "hourly" ->
               [rollPeriod |-> ROLL_HOURLY, rollPeriodLength |-> 0]
          [] text.word = "daily" ->
               [rollPeriod |-> ROLL_DAILY, rollPeriodLength |-> 0]
          [] text.word = "never" ->
               [rollPeriod |-> ROLL_NEVER, rollPeriodLength |-> 0]
          [] OTHER ->
               [rollPeriod |-> IF ok THEN ROLL_OTHER ELSE ROLL_NEVER,
                rollPeriodLength |-> len]

\* The keys of a configuration the models follow.
Keys == {"rotate_period", "create_symlink", "write_stats", "max_size",
         "rotate_hour", "rotate_minute"}

\* The fields as the constructor leaves them.
Defaults ==
    /\ maxSize = 1000000000
    /\ rollPeriod = ROLL_NEVER /\ rollPeriodLength = 0
    /\ rollHour = 1 /\ rollMinute = 15
    /\ createSymlink = TRUE /\ writeStats = FALSE

\* FileStoreBase::configure on a store just constructed: a key that is
\* given sets its field, the others keep the default.  `given` is a
\* function from some of the Keys to their values: the text of
\* rotate_period as RotatePeriod takes it, "yes" or other text for the
\* flags, numbers for the rest.
BaseConfigure(given) ==
    LET Has(key) == key \in DOMAIN given
        period == IF Has("rotate_period")
                  THEN RotatePeriod(given["rotate_period"])
                  ELSE [rollPeriod |-> rollPeriod,
                        rollPeriodLength |-> rollPeriodLength]
        Flag(key, field) == IF Has(key) THEN given[key] = "yes" ELSE field
        Unsigned(key, field) == IF Has(key) THEN given[key] ELSE field
    IN  /\ rollPeriod' = period.rollPeriod
        /\ rollPeriodLength' = period.rollPeriodLength
        /\ createSymlink' = Flag("create_symlink", createSymlink)
        /\ writeStats' = Flag("write_stats", writeStats)
        /\ maxSize' = Unsigned("max_size", maxSize)
        /\ rollHour' = Unsigned("rotate_hour", rollHour)
        /\ rollMinute' = Unsigned("rotate_minute", rollMinute)

-----------------------------------------------------------------------------
(* Time *)

\* localtime_r(): the fields of struct tm the store reads.
Tm(t) ==
    [mday |-> t \div (MinutesPerHour * HoursPerDay) + 1,
     hour |-> (t \div MinutesPerHour) % HoursPerDay,
     min  |-> t % MinutesPerHour]

-----------------------------------------------------------------------------
(* File names *)

NoDate == 0

\* What can follow the last '_' of a name: a number, other text, or there
\* is no '_' at all.
NameKinds == {"number", "text", "bare"}

\* makeBaseFilename: the base name carries the date exactly when a
\* rotation period is configured.
MakeBaseFilename(tm) ==
    IF rollPeriod # ROLL_NEVER THEN tm.mday ELSE NoDate

\* makeFullFilename: base name, '_', the suffix.
MakeFullFilename(suffix, tm) ==
    [stem |-> MakeBaseFilename(tm), kind |-> "number", n |-> suffix]

\* makeBaseSymlink: <baseFileName>_current, which never carries a date.
MakeBaseSymlink == [stem |-> NoDate, kind |-> "text", n |-> 0]

\* What getFileSuffix finds in `suffix`, which it initialised with -1, after
\* it tried to read a number from text that holds none.
ParseFail == IF ZeroOnParseFail THEN 0 ELSE -1

\* getFileSuffix: -1 unless the name is  <base_filename>_<something>;  then
\* the number read from <something>, or what a failed read leaves behind.
GetFileSuffix(file, base_filename) ==
    CASE file.stem # base_filename \/ file.kind = "bare" -> -1
      [] file.kind = "number"                            -> file.n
      [] OTHER                                           -> ParseFail

\* findNewestFile: the largest suffix in the listing, -1 when none matches.
FindNewestFile(listing, base_filename) ==
    Max({-1} \cup {GetFileSuffix(f, base_filename) : f \in listing})

\* Mutant of FindOldestFile: the comparison is turned around and the
\* largest suffix is found.
FindOldestFile_Newest(listing, base_filename) ==
    LET found == {GetFileSuffix(f, base_filename) : f \in listing} \cap Nat
    IN  IF found = {} THEN -1 ELSE Max(found)

\* findOldestFile: the smallest suffix that is not negative, -1 when there
\* is none.
FindOldestFile(listing, base_filename) ==
    LET found == {GetFileSuffix(f, base_filename) : f \in listing} \cap Nat
    IN  IF found = {} THEN -1 ELSE Min(found)

-----------------------------------------------------------------------------
(* Rotation *)

\* The switch of periodicCheck: has the configured period passed since
\* lastRollTime, which holds a day of the month, an hour or a time
\* depending on rollPeriod.
PeriodPassed(t, lastRollTime) ==
    LET tm == Tm(t) IN
    \/ /\ rollPeriod = ROLL_DAILY
       /\ tm.mday # lastRollTime
       /\ tm.hour >= rollHour
       /\ tm.min >= rollMinute
    \/ /\ rollPeriod = ROLL_HOURLY
       /\ tm.hour # lastRollTime
       /\ tm.min >= rollMinute
    \/ /\ rollPeriod = ROLL_OTHER
       /\ t >= lastRollTime + rollPeriodLength

\* The size test, made by periodicCheck and by handleMessages.
OverMaxSize(currentSize) ==
    currentSize > maxSize /\ maxSize # 0

\* Mutant of ShouldRotate: periodicCheck leaves the size test to
\* handleMessages.
ShouldRotate_PeriodOnly(t, currentSize, lastRollTime) ==
    PeriodPassed(t, lastRollTime)

\* periodicCheck rotates when the file is too large or the period passed.
ShouldRotate(t, currentSize, lastRollTime) ==
    OverMaxSize(currentSize) \/ PeriodPassed(t, lastRollTime)

\* bytesToPad: the bytes to write before a message so that it starts a new
\* chunk when it does not fit into what is left of the current one.
BytesToPad(next_message_length, current_file_size, chunk_size) ==
    IF chunk_size > 0
    THEN LET space_left_in_chunk ==
                 chunk_size - (current_file_size % chunk_size)
         IN  IF next_message_length > space_left_in_chunk
             THEN space_left_in_chunk
             ELSE 0
    ELSE 0

=============================================================================
