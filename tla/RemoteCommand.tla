--------------------------- MODULE RemoteCommand ---------------------------
(***************************************************************************)
(* What a backend of SSHKit promises of a command it runs: every unit of   *)
(* output the command writes is handed over once, in the order of its      *)
(* stream and to the handler of its stream; an exit status is reported     *)
(* only when all of the output was handed over, and is the command's own   *)
(* or the unknown status.                                                  *)
(***************************************************************************)
EXTENDS Integers, Sequences

CONSTANTS Stream,   \* the output streams
          Status,   \* exit statuses
          Unknown,  \* nil: the status of a command that was killed
          NoStatus  \* nothing reported, or not ended yet

VARIABLES
    written,   \* written[st]: units the command has written so far
    shut,      \* whether the command has closed its output
    ended,     \* how the command ended, NoStatus while it runs
    handed,    \* handed[st]: the units given to the handler of st
    reported,  \* the exit status given to SSHKit
    outcome    \* "running", "finished" or "failed"

rvars == <<written, shut, ended, handed, reported, outcome>>

\* The first n units of a stream, in the order they are written.
Units(st, n) == [i \in 1..n |-> <<st, i>>]

RInit ==
    /\ written = [st \in Stream |-> 0]
    /\ shut = FALSE
    /\ ended = NoStatus
    /\ handed = [st \in Stream |-> <<>>]
    /\ reported = NoStatus
    /\ outcome = "running"

\* The command.

WriteUnit(st) ==
    /\ ~shut
    /\ written' = [written EXCEPT ![st] = @ + 1]
    /\ UNCHANGED <<shut, ended, handed, reported, outcome>>

ShutOutput ==
    /\ shut' = TRUE
    /\ UNCHANGED <<written, ended, handed, reported, outcome>>

End(v) ==
    /\ ended = NoStatus
    /\ ended' = v
    /\ UNCHANGED <<written, shut, handed, reported, outcome>>

\* The backend.

\* Some units written and not handed over yet, oldest first.
HandOver(st) ==
    /\ outcome = "running"
    /\ reported = NoStatus
    /\ \E n \in (Len(handed[st]) + 1)..written[st] :
          handed' = [handed EXCEPT ![st] = Units(st, n)]
    /\ UNCHANGED <<written, shut, ended, reported, outcome>>

Report(v) ==
    /\ outcome = "running"
    /\ reported = NoStatus
    /\ shut /\ \A st \in Stream : handed[st] = Units(st, written[st])
    /\ v \in {ended, Unknown} \ {NoStatus}
    /\ reported' = v
    /\ UNCHANGED <<written, shut, ended, handed, outcome>>

Conclude(o) ==
    /\ outcome = "running"
    /\ o = "finished" => reported # NoStatus
    /\ outcome' = o
    /\ UNCHANGED <<written, shut, ended, handed, reported>>

RNext ==
    \/ \E st \in Stream : WriteUnit(st) \/ HandOver(st)
    \/ ShutOutput
    \/ \E v \in Status \cup {Unknown} : End(v) \/ Report(v)
    \/ \E o \in {"finished", "failed"} : Conclude(o)

RSpec == RInit /\ [][RNext]_rvars
=============================================================================
