--------------------------- MODULE ExecutionReport ---------------------------
(***************************************************************************)
(* What an execution tells one of its streams, whoever tells it: a worker,  *)
(* the worker that takes over from a dead one, or the run after a resume.   *)
(*                                                                          *)
(* A reader of the stream sees runs: each begins with Started, goes through  *)
(* consecutive steps, and ends with Paused or Completed or just stops; the   *)
(* next may take up anywhere.  What the stream has not been told is not      *)
(* committed, and nothing is left out unless something fails.               *)
(***************************************************************************)
EXTENDS Integers

CONSTANTS
    Steps,              \* the indices of the steps
    StepCompleted(_),   \* the events
    Started, Paused, Completed,
    Nothing,            \* no event
    Faultless           \* nothing fails

VARIABLES
    status,   \* the committed status
    told,     \* the events the stream has been told
    latest    \* the last of them

vars == <<status, told, latest>>

Init == status = "PENDING" /\ told = {} /\ latest = Nothing

\* A run has begun and not ended.
UnderWay == latest = Started \/ \E i \in Steps : latest = StepCompleted(i)

Told(i) == StepCompleted(i) \in told

Tell(e) ==
    /\ told' = told \cup {e}
    /\ latest' = e
    /\ UNCHANGED status

\* A run begins, whether or not the one before has said that it ended.
Begin == Tell(Started)

\* The step after the last one, or the first of the run.
Advance(i) ==
    /\ latest = Started \/ (i - 1 \in Steps /\ latest = StepCompleted(i - 1))
    /\ Faultless => \A k \in Steps : k < i => Told(k)
    /\ Tell(StepCompleted(i))

Pause == UnderWay /\ Tell(Paused)

\* After the last step, or at once when a checkpoint leaves none to be done.
Complete ==
    /\ latest = Started \/ \E i \in Steps : latest = StepCompleted(i) /\ i + 1 \notin Steps
    /\ Faultless => \A k \in Steps : Told(k)
    /\ Tell(Completed)

\* A status is committed that the stream knows of.
Settle ==
    /\ status' # status
    /\ status' = "RUNNING" => Started \in told
    /\ status' = "COMPLETED" => Completed \in told
    /\ UNCHANGED <<told, latest>>

Next == Begin \/ (\E i \in Steps : Advance(i)) \/ Pause \/ Complete \/ Settle

Spec == Init /\ [][Next]_vars
==============================================================================
