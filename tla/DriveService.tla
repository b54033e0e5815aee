---------------------------- MODULE DriveService ----------------------------
(* What a test script may rely on when it hands a list of requests to one of *)
(* the drivers (bin/_pharos_drive.py, bin/_pharos_drive_http.py) and then     *)
(* reads the outcome of a request with find_response.                         *)
EXTENDS Naturals

CONSTANTS Requests,   \* how many requests are handed over; a request is its index
          Notes       \* those without an id: notifications, never answered

VARIABLES style,      \* "batch": all at once; "serial", "http": one at a time
          outcome,    \* request -> "open" | "answered" | "failed" | "missing"
          over        \* "no" | "returned" | "raised"

vars == <<style, outcome, over>>

Asked == (1..Requests) \ Notes
Settled(r) == outcome[r] # "open"

Init ==
  /\ style \in {"batch", "serial", "http"}
  /\ outcome = [r \in Asked |-> "open"]
  /\ over = "no"

\* A set of requests is settled, once and for all: answered by the server, or
\* failed by the driver, which only the drivers that wait for each request do,
\* and in the order of the requests.
Settle ==
  /\ over = "no"
  /\ \E S \in SUBSET {r \in Asked : ~Settled(r)} :
       \E o \in [S -> {"answered", "failed"}] :
         /\ S # {}
         /\ style = "batch" => \A r \in S : o[r] = "answered"
         /\ style # "batch" => \A r \in S, e \in Asked : e < r => e \in S \/ Settled(e)
         /\ outcome' = [r \in Asked |-> IF r \in S THEN o[r] ELSE outcome[r]]
  /\ UNCHANGED <<style, over>>

\* The driver returns. What it read last may settle requests at the same time;
\* a request that is open after that is missing from what it returns.
Return ==
  /\ over = "no" /\ over' = "returned"
  /\ outcome' \in [Asked -> {"answered", "failed", "missing"}]
  /\ \A r \in Asked : /\ Settled(r) => outcome'[r] = outcome[r]
                      /\ ~Settled(r) => outcome'[r] # "failed"
  /\ style = "serial" => \A r \in Asked : outcome'[r] # "missing"
  /\ UNCHANGED style

\* The driver raises: the script never sees the answers there were.
Raise == over = "no" /\ over' = "raised" /\ UNCHANGED <<style, outcome>>

Next == Settle \/ Return \/ Raise
Spec == Init /\ [][Next]_vars

\* The driver comes back, with or without answers.
Ends == <>(over # "no")
=============================================================================
