--------------------------- MODULE MCMcpDispatch ---------------------------
EXTENDS McpDispatch

CONSTANTS c1, c2

\* Two clients that use the same id: one asks and cancels, the other only asks.
MCLines == {[conn |-> c1, kind |-> "request", id |-> 1],
            [conn |-> c1, kind |-> "cancel", id |-> 1],
            [conn |-> c2, kind |-> "request", id |-> 1]}

\* The client that cancels its request is on HTTP, the other on stdio.
MCOverHttp == {[conn |-> c2, kind |-> "request", id |-> 1],
               [conn |-> c2, kind |-> "cancel", id |-> 1],
               [conn |-> c1, kind |-> "request", id |-> 1]}
=============================================================================
