--------------------------- MODULE StoreContract ---------------------------
(***************************************************************************)
(* What a store promises the code that calls handleMessages, whatever the  *)
(* store is made of: the vector it is handed is an in/out parameter, and   *)
(* after the call it holds the messages the store did not take, in the     *)
(* order they had.  A message is submitted once, is taken at most once,    *)
(* and a message that was taken stays taken: nothing the store does to     *)
(* itself afterwards (rotate, close, reopen, restart) gives it back or     *)
(* loses it.                                                               *)
(*                                                                         *)
(* This is the abstract specification.  ThriftFileStore and CategoryStore  *)
(* instantiate it with their own state for `batch` and `handled` and are   *)
(* checked to implement it.                                                *)
(***************************************************************************)
EXTENDS Sequences, SequencesExt, FiniteSets

CONSTANT Messages       \* what a caller can submit

VARIABLES
    batch,              \* the caller's vector
    handled             \* the messages the store has taken

vars == <<batch, handled>>

TypeOK ==
    /\ batch \in Seq(Messages)
    /\ handled \subseteq Messages

Init ==
    /\ batch = <<>>
    /\ handled = {}

\* The caller puts a message it has not submitted before at the end of the
\* vector.
Submit ==
    /\ \E m \in Messages \ (handled \cup ToSet(batch)) :
          batch' = Append(batch, m)
    /\ UNCHANGED handled

\* One call of handleMessages: the store takes some of the messages, none
\* or all of them included, and leaves the others as they were.
HandleMessages ==
    \E taken \in SUBSET ToSet(batch) :
        /\ handled' = handled \cup taken
        /\ batch' = SelectSeq(batch, LAMBDA m : m \notin taken)

Next == Submit \/ HandleMessages

Spec == Init /\ [][Next]_vars

=============================================================================
