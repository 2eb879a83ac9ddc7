--------------------------- MODULE ConnectionCycle --------------------------
(***************************************************************************)
(* The connection implements RequestCycle.  A state is mapped when it is   *)
(* asked for (new_state), which is when the handler that leaves the        *)
(* previous one has done its work.                                         *)
(***************************************************************************)
EXTENDS Connection

Idle      == {"connection_accepted", "headers_receive", "keepalive"}
Receiving == {"request_store", "headers_parse", "expect_reply", "body_receive",
              "authenticate", "params_get"}
Serving   == {"fatal_error_entry", "response_entry", "mvc_pre_configuration",
              "prepare_http_response", "mvc_post_configuration",
              "build_http_response", "response_send"}

PhaseOf(s) == CASE s = "absent"    -> "free"
                [] s \in Idle      -> "idle"
                [] s \in Receiving -> "receiving"
                [] s \in Serving   -> "serving"
                [] s = "websocket" -> "talking"
                [] s \in {"http_disconnect", "NULL"} -> "closing"

Cycle == INSTANCE RequestCycle WITH phase <- PhaseOf(task.new_state), answers <- seen.heads

\* What makes it so: the state and the event agree, output is queued only by the
\* states that queue it and is gone when it is reported sent, and while a request is
\* served the buffer that starts its response is either still held or was queued once.
Writing == {"expect_reply", "response_send", "http_disconnect", "websocket", "NULL"}
CycleInv ==
    /\ ev # "settle" => task.state = task.new_state
    /\ task.new_state \notin Writing => task.queue = <<>>
    /\ ev = "SENT" => task.queue = <<>>
    /\ seen.heads \in {0, 1}
    /\ task.new_state \in (Receiving \cup Serving) \ {"response_send"} => seen.heads = 0
    /\ task.new_state = "response_send" =>
         /\ seen.heads = IF "cbuf" \in client.owned THEN 0 ELSE 1
         /\ "cbuf" \in client.owned => task.queue = <<>> /\ ev # "SENT"

\* Every step of the connection is a step of RequestCycle or leaves it as it is.
ImplementsCycle == Cycle!Spec

=============================================================================
