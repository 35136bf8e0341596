----------------------------- MODULE ExecutionFSM -----------------------------
(***************************************************************************)
(* The status machine of a workflow execution: the transition table of     *)
(* app/engine/state_machine.py and the two questions asked of it.          *)
(***************************************************************************)

\* sutram_core/models/execution.py, ExecutionStatus
Status == {"PENDING", "RUNNING", "PAUSED", "COMPLETED", "FAILED", "CANCELLED"}

\* executor.py, _TERMINAL_STATUSES
Terminal == {"COMPLETED", "FAILED", "CANCELLED"}

\* _TRANSITIONS, one triple per entry of the nested dict.
Transitions ==
    { <<"PENDING", "submit",               "RUNNING">>,
      <<"RUNNING", "all_steps_done",       "COMPLETED">>,
      <<"RUNNING", "error",                "PAUSED">>,
      <<"RUNNING", "cost_exceeded",        "PAUSED">>,
      <<"RUNNING", "manual_pause",         "PAUSED">>,
      <<"RUNNING", "fatal_error",          "FAILED">>,
      <<"RUNNING", "max_retries_exceeded", "FAILED">>,
      <<"RUNNING", "cancel",               "CANCELLED">>,
      <<"PAUSED",  "resume",               "PENDING">>,
      <<"PAUSED",  "cancel",               "CANCELLED">> }

\* transition() returns next; any other pair raises InvalidTransitionError.
Moves(status, trigger, next) == <<status, trigger, next>> \in Transitions

\* can_transition()
CanTransition(status, trigger) == \E next \in Status : Moves(status, trigger, next)
==============================================================================
