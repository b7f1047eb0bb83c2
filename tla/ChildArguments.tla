--------------------------- MODULE ChildArguments ---------------------------
(***************************************************************************)
(* What the boundary has accepted reaches the child as one command line:   *)
(* behind the invocations of a plan, the line of a child is written down   *)
(* and taken apart.  Lines are told apart by their units and not by their  *)
(* plan, so that they are written behind one plan.                         *)
(***************************************************************************)
EXTENDS ProcessArguments, WindowsCommandLine

CONSTANTS
    Spawning,      \* that plan
    MaxArguments,  \* bound on the arguments of a child
    MaxUnits       \* bound on the units of an argument

VARIABLES
    arguments,   \* the list the invocation asks for
    built,       \* "asked", "built" or "refused"
    line         \* the line built of it

lineVars == <<arguments, built, line>>

ChildInit == Init /\ arguments = <<>> /\ built = "asked" /\ line = <<>>

(* The children of the plan have crossed, and an invocation is written     *)
(* down unit by unit.                                                      *)
Writing ==
    /\ plan = Spawning /\ status = "resolved" /\ crossed = Len(invocations)
    /\ built = "asked"
    /\ UNCHANGED vars

NextArgument ==
    /\ Writing
    /\ Len(arguments) < MaxArguments
    /\ arguments' = Append(arguments, <<>>)
    /\ UNCHANGED <<built, line>>

NextUnit ==
    /\ Writing
    /\ arguments # <<>>
    /\ Len(Last(arguments)) < MaxUnits
    /\ \E unit \in Units :
          arguments' = Append(Front(arguments), Append(Last(arguments), unit))
    /\ UNCHANGED <<built, line>>

Build ==
    /\ Writing
    /\ IF Refused(arguments)
       THEN built' = "refused" /\ UNCHANGED line
       ELSE built' = "built" /\ line' = Joined(arguments)
    /\ UNCHANGED arguments

ChildNext ==
    \/ Next /\ UNCHANGED lineVars
    \/ NextArgument \/ NextUnit \/ Build

ChildSpec == ChildInit /\ [][ChildNext]_<<vars, lineVars>>

-----------------------------------------------------------------------------
(* The child receives the arguments it was started with, one by one and    *)
(* unit by unit: an empty one stays one, one with spaces stays one, and no *)
(* run of backslashes and quotes moves the border between two.             *)
ArgumentsArrive == built = "built" => Parsed(line) = [name |-> Executable, list |-> arguments]

(* A line that is built fits CreateProcessW's maximum with the NUL behind  *)
(* it, and has no other NUL that would end it early.                       *)
LinesFit == built = "built" => Len(line) + 1 <= MaxLine /\ ~Contains(line, "nul")
=============================================================================
