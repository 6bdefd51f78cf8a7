-------------------------- MODULE MCSessionLoop ---------------------------
(* Two sets of operations: a conversation with stops, and the work the       *)
(* session does of its own accord with failures of the model and the store.  *)
EXTENDS SessionLoop, TLC

TalkOps == {"say", "queue", "unqueue", "steer", "drop", "interrupt", "report",
            "ask", "approval", "fatal", "stop", "abort"}
GoalOps == {"say", "notice", "interrupt", "goal", "resume", "cancel", "limit",
            "retry", "fail"}
============================================================================
