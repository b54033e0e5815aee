---------------------------- MODULE PoolService ----------------------------
(***************************************************************************)
(* What pool.get promises (the doc comments of pharos/lsp/pool.gleam and   *)
(* ADR-025), with no workers, supervisor or monitors: a key is absent, has *)
(* one spawn under way that any number of callers share, or is ready.  The *)
(* end of a spawn answers all of its waiters at once and alike.            *)
(***************************************************************************)
CONSTANTS Keys, Callers

VARIABLES status,   \* key -> "absent" | "spawning" | "ready"
          cphase,   \* caller -> "idle" | "asked" | "waiting" | "got" | "failed"
          ckey,     \* the key a caller asks for
          closed    \* the program is shutting down: nothing is promised any more

vars == <<status, cphase, ckey, closed>>

Waiters(k) == {c \in Callers : cphase[c] = "waiting" /\ ckey[c] = k}
Answered(S, reply) == cphase' = [c \in Callers |-> IF c \in S THEN reply ELSE cphase[c]]

Init ==
  /\ status = [k \in Keys |-> "absent"]
  /\ cphase = [c \in Callers |-> "idle"]
  /\ ckey \in [Callers -> Keys]
  /\ closed = FALSE

Ask(c, k) ==
  /\ cphase[c] = "idle"
  /\ Answered({c}, "asked")
  /\ ckey' = [ckey EXCEPT ![c] = k]
  /\ UNCHANGED <<status, closed>>

Finish(c) ==
  /\ cphase[c] \in {"got", "failed"}
  /\ Answered({c}, "idle")
  /\ ckey' \in [Callers -> Keys] /\ \A b \in Callers \ {c} : ckey'[b] = ckey[b]
  /\ UNCHANGED <<status, closed>>

Hit(c) ==
  /\ cphase[c] = "asked" /\ status[ckey[c]] = "ready"
  /\ Answered({c}, "got")
  /\ UNCHANGED <<status, ckey, closed>>

Join(c) ==
  /\ cphase[c] = "asked" /\ status[ckey[c]] = "spawning"
  /\ Answered({c}, "waiting")
  /\ UNCHANGED <<status, ckey, closed>>

Begin(c) ==
  /\ cphase[c] = "asked" /\ status[ckey[c]] = "absent"
  /\ status' = [status EXCEPT ![ckey[c]] = "spawning"]
  /\ Answered({c}, "waiting")
  /\ UNCHANGED <<ckey, closed>>

Succeed(k) ==
  /\ status[k] = "spawning"
  /\ status' = [status EXCEPT ![k] = "ready"]
  /\ Answered(Waiters(k), "got")
  /\ UNCHANGED <<ckey, closed>>

Fail(k) ==
  /\ status[k] = "spawning"
  /\ status' = [status EXCEPT ![k] = "absent"]
  /\ Answered(Waiters(k), "failed")
  /\ UNCHANGED <<ckey, closed>>

\* Evictions, idle stops and deaths of the cached servers of S.
Drop(S) ==
  /\ \A k \in S : status[k] = "ready"
  /\ status' = [k \in Keys |-> IF k \in S THEN "absent" ELSE status[k]]
  /\ UNCHANGED <<cphase, ckey, closed>>

\* The pool itself goes down: every open call fails.
Crash ==
  /\ status' = [k \in Keys |-> "absent"]
  /\ Answered({c \in Callers : cphase[c] \in {"asked", "waiting"}}, "failed")
  /\ UNCHANGED <<ckey, closed>>

Closing == closed'

Next ==
  \/ \E c \in Callers : Finish(c) \/ Hit(c) \/ Join(c) \/ Begin(c)
  \/ \E c \in Callers, k \in Keys : Ask(c, k)
  \/ \E k \in Keys : Succeed(k) \/ Fail(k)
  \/ \E S \in SUBSET Keys : Drop(S)
  \/ Crash \/ Closing

Spec == Init /\ [][Next]_vars

Liveness ==
  \A c \in Callers :
    cphase[c] \in {"asked", "waiting"} ~> cphase[c] \in {"got", "failed"} \/ closed
=============================================================================
