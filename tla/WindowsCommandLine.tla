-------------------------- MODULE WindowsCommandLine --------------------------
(***************************************************************************)
(* windows_command_line and append_windows_quoted_argument of              *)
(* execution_process.rs: the argument list of a child is one line on       *)
(* Windows, and the child takes it apart again.  A UTF-16 unit is what the *)
(* two sides tell apart: a backslash, a quote, a space, NUL or a letter.   *)
(***************************************************************************)
EXTENDS Integers, Sequences, SequencesExt

CONSTANTS
    Executable,    \* the path of the selected program
    MaxLine        \* CreateProcessW's maximum, with the NUL behind the line

Units == {"backslash", "quote", "space", "nul", "letter"}
Backslashes(n) == [i \in 1..n |-> "backslash"]

(* The path of a file that was opened and hashed: Windows has none with a  *)
(* quote, one that ends in a backslash is a directory's, and create looks  *)
(* for a NUL in it before the line is built.                               *)
ASSUME ExecutableAssumption ==
    /\ Executable \in Seq(Units)
    /\ ~Contains(Executable, "quote") /\ ~Contains(Executable, "nul")
    /\ Executable # <<>> => Last(Executable) # "backslash"
ASSUME MaxLineAssumption == MaxLine \in Nat

-----------------------------------------------------------------------------
(* Seeded fault: a quote gets its backslash, those before it no second one.*)
QuoteUnitSingly(state, unit) ==
    CASE unit = "backslash" -> [state EXCEPT !.pending = @ + 1]
      [] unit = "quote" -> [out |-> Append(state.out \o Backslashes(state.pending + 1), "quote"),
                            pending |-> 0]
      [] OTHER -> [out |-> Append(state.out \o Backslashes(state.pending), unit), pending |-> 0]

(* The loop of append_windows_quoted_argument: backslashes wait for what   *)
(* follows them.                                                           *)
QuoteUnit(state, unit) ==
    CASE unit = "backslash" -> [state EXCEPT !.pending = @ + 1]
      [] unit = "quote" -> [out |-> Append(state.out \o Backslashes(2 * state.pending + 1), "quote"),
                            pending |-> 0]
      [] OTHER -> [out |-> Append(state.out \o Backslashes(state.pending), unit), pending |-> 0]

Quoting(argument) ==
    LET quoting[k \in 0..Len(argument)] ==
          IF k = 0 THEN [out |-> <<"quote">>, pending |-> 0]
          ELSE QuoteUnit(quoting[k - 1], argument[k])
    IN  quoting[Len(argument)]

Quoted(argument) ==
    LET end == Quoting(argument)
    IN  Append(end.out \o Backslashes(2 * end.pending), "quote")

(* windows_command_line, without its NUL.                                  *)
Joined(list) ==
    LET joined[k \in 0..Len(list)] ==
          IF k = 0 THEN Quoted(Executable) ELSE Append(joined[k - 1], "space") \o Quoted(list[k])
    IN  joined[Len(list)]

(* Seeded fault: the NUL is forgotten.                                     *)
RefusedWithoutNul(list) ==
    \/ \E i \in DOMAIN list : Contains(list[i], "nul")
    \/ Len(Joined(list)) > MaxLine

Refused(list) ==
    \/ \E i \in DOMAIN list : Contains(list[i], "nul")
    \/ Len(Joined(list)) >= MaxLine

-----------------------------------------------------------------------------
(* How the child's runtime takes the line apart (CommandLineToArgvW).  The *)
(* program's name ends at the next quote; behind it, 2n backslashes and a  *)
(* quote are n backslashes and a delimiter, 2n + 1 and a quote are n and a *)
(* quote that is meant.  A quote right behind a closing one is never built.*)
Reading(list, current, slashes, quoted) ==
    [list |-> list, current |-> current, slashes |-> slashes, quoted |-> quoted, started |-> TRUE]
Between(list) ==
    [list |-> list, current |-> <<>>, slashes |-> 0, quoted |-> FALSE, started |-> FALSE]

(* What is there at the end of an argument, or of the line.                *)
Finished(state) ==
    IF state.started THEN Append(state.list, state.current \o Backslashes(state.slashes))
    ELSE state.list

ParseUnit(state, unit) ==
    LET n == state.slashes
        halved == state.current \o Backslashes(n \div 2)
        flushed == state.current \o Backslashes(n)
    IN  CASE unit = "backslash" -> Reading(state.list, state.current, n + 1, state.quoted)
          [] unit = "quote" /\ n % 2 = 0 -> Reading(state.list, halved, 0, ~state.quoted)
          [] unit = "quote" /\ n % 2 = 1 ->
                Reading(state.list, Append(halved, "quote"), 0, state.quoted)
          [] unit = "space" /\ ~state.quoted -> Between(Finished(state))
          [] OTHER -> Reading(state.list, Append(flushed, unit), 0, state.quoted)

ParseFrom(state, units) ==
    LET parse[k \in 0..Len(units)] ==
          IF k = 0 THEN state ELSE ParseUnit(parse[k - 1], units[k])
    IN  parse[Len(units)]

Parsed(line) ==
    LET quotes == {k \in 2..Len(line) : line[k] = "quote"}
        close == CHOOSE k \in quotes : \A j \in quotes : k <= j
    IN  [name |-> SubSeq(line, 2, close - 1),
         list |-> Finished(ParseFrom(Between(<<>>), SubSeq(line, close + 1, Len(line))))]
=============================================================================
