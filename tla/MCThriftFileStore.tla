------------------------- MODULE MCThriftFileStore -------------------------
(***************************************************************************)
(* ThriftFileStore for model checking: the lengths of the messages, and    *)
(* the pure operators of FileStoreBase compared with what they are to      *)
(* compute, over small inputs.  TLC evaluates the assumptions before every *)
(* run of this module.                                                     *)
(***************************************************************************)
EXTENDS ThriftFileStore

\* Messages of length 2, 1, 2, 1, ...
MCMsgLen == [m \in 1..MaxMsgs |-> 1 + (m % 2)]

Period(count) ==
    [word |-> "number", count |-> count, digits |-> TRUE, erange |-> FALSE,
     tail |-> <<>>]

\* Rotation by size (max_size 2) and by age (a period of 3), with
\* statistics and the symlink.
MCBySizeAndAge ==
    [rotate_period |-> Period(3), max_size |-> 2, write_stats |-> "yes"]

\* Rotation at minute 1 of every hour, without a limit of size.
MCHourly ==
    [rotate_period |-> [word |-> "hourly"], rotate_minute |-> 1,
     max_size |-> 0]

\* Rotation at 00:01 of every day, without a limit of size.
MCDaily ==
    [rotate_period |-> [word |-> "daily"], rotate_hour |-> 0,
     rotate_minute |-> 1, max_size |-> 0]

\* Rotation by size only: the names of the files carry no date, and the
\* symlink <base>_current is a name getFileSuffix looks into.
MCBySize ==
    [rotate_period |-> [word |-> "never"], max_size |-> 2]

MCConfs == {MCBySizeAndAge, MCHourly, MCDaily, MCBySize}

\* The hourly store without the symlink.
MCPlainHourly ==
    {[rotate_period |-> [word |-> "hourly"], rotate_minute |-> 1,
      max_size |-> 0, create_symlink |-> "no"]}

-----------------------------------------------------------------------------
(* rotate_period *)

\* Numbers as strtol reads them, followed by nothing, a unit, a character
\* that is no unit, or a unit and more.
Numbers ==
    [word : {"number"}, count : {0, 1, 2, 13}, digits : BOOLEAN,
     erange : BOOLEAN,
     tail : {<<>>, <<"s">>, <<"m">>, <<"h">>, <<"d">>, <<"w">>, <<"x">>,
             <<"m", "x">>}]

\* The grammar of rotate_period: hourly | daily | never | <N>[s|m|h|d|w]
\* with N > 0; anything else disables rotation.
WellFormed(text) ==
    /\ text.digits /\ ~text.erange /\ text.count > 0
    /\ text.tail \in {<<>>} \cup {<<u>> : u \in Units}

InSeconds(text) ==
    text.count * (IF text.tail = <<>> THEN 1 ELSE Seconds[Head(text.tail)])

\* configure() accepts exactly the well-formed periods and gives them
\* their length in seconds, as long as the length fits time_t.
ASSUME RotatePeriodMeetsGrammar ==
    /\ RotatePeriod([word |-> "hourly"]).rollPeriod = ROLL_HOURLY
    /\ RotatePeriod([word |-> "daily"]).rollPeriod = ROLL_DAILY
    /\ RotatePeriod([word |-> "never"]).rollPeriod = ROLL_NEVER
    /\ \A text \in Numbers :
          LET is == RotatePeriod(text) IN
          IF WellFormed(text)
          THEN /\ is.rollPeriod = ROLL_OTHER
               /\ InSeconds(text) < 2 ^ (TimeBits - 1)
                     => is.rollPeriodLength = InSeconds(text)
          ELSE is.rollPeriod = ROLL_NEVER

\* A period that does not fit time_t is accepted all the same and comes
\* out negative: 14 weeks, with the 24 bits of the models.
ASSUME RotatePeriodWraps ==
    TimeBits = 24 =>
        RotatePeriod([word |-> "number", count |-> 14, digits |-> TRUE,
                      erange |-> FALSE, tail |-> <<"w">>])
          = [rollPeriod |-> ROLL_OTHER,
             rollPeriodLength |-> 14 * 604800 - 2 ^ 24]

-----------------------------------------------------------------------------
(* bytesToPad *)

\* After the padding a message that is no longer than a chunk lies within
\* one chunk, and no padding is written when it fits as it is.
ASSUME BytesToPadAligns ==
    \A len \in 1..4, size \in 0..8, chunk \in 1..4 :
        LET pad   == BytesToPad(len, size, chunk)
            first == (size + pad) \div chunk
            last  == (size + pad + len - 1) \div chunk
        IN  /\ len <= chunk => first = last
            /\ size \div chunk = (size + len - 1) \div chunk => pad = 0
            /\ BytesToPad(len, size, 0) = 0

=============================================================================
