------------------------------- MODULE MCEvents -------------------------------
(* Events for TLC, one session.  The addresses of the service's event handles are          *)
(* interchangeable, and all free when the session gets its first one: it gets the first.   *)
EXTENDS Events

First == CHOOSE a \in Addrs : TRUE
Canonical == \A s \in Sessions : handle[s] = None => handle'[s] \in {None, First}
MCSpec == /\ Init /\ [][Next /\ Canonical]_vars /\ WF_lpc(ListenerStep) /\ WF_op(CallStep)
          /\ \A t \in Regs : WF_tpc(ThreadStep(t))
===============================================================================
