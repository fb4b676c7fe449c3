--------------------------- MODULE CommandLedger ---------------------------
(***************************************************************************)
(* What the lifecycle repository promises its clients: logs that only grow,*)
(* commands that take effect at most once and all at once, on one run or on*)
(* a parent and its child.                                                 *)
(***************************************************************************)
EXTENDS SequencesExt

CONSTANTS Runs

VARIABLES
    events,  \* the log of every run; an event says which command wrote it
    done     \* the commands that took effect

vars == <<events, done>>

Init == events = [r \in Runs |-> <<>>] /\ done = {}

Changed == {r \in Runs : events'[r] # events[r]}

Commit(id) ==
    /\ id \notin done
    /\ done' = done \cup {id}
    /\ DOMAIN events' = Runs
    /\ Changed # {} /\ \E r, s \in Runs : Changed \subseteq {r, s}
    /\ \A r \in Changed :
          /\ IsPrefix(events[r], events'[r])
          /\ \A n \in (Len(events[r]) + 1)..Len(events'[r]) : events'[r][n].by = id

Next == \E id \in done' : Commit(id)

Spec == Init /\ [][Next]_vars
=============================================================================
