----------------------------- MODULE Dogfood_proofs -----------------------------
(***************************************************************************)
(* Theorems about Dogfood, for every set of languages and tools, every way *)
(* to start the pass, and however late pharos answers.                     *)
(***************************************************************************)
EXTENDS Dogfood, Integers, SequenceTheorems, FiniteSetTheorems, WellFoundedInduction, TLAPS

-----------------------------------------------------------------------------
(* Facts about data.                                                        *)

\* Every nonempty set of numbers has a least element.
LEMMA LeastElement ==
  ASSUME NEW T, T \subseteq Nat, T # {}
  PROVE  \E m \in T : \A k \in T : m <= k
<1> DEFINE Below == OpToRel(<, Nat)
<1>1. IsWellFoundedOn(Below, Nat)
  BY NatLessThanWellFounded
<1>2. \A y, x \in Nat : y < x => <<y, x>> \in Below
  BY DEF OpToRel
<1> HIDE DEF Below
<1>3. PICK x \in T : \A y \in T : ~ (<<y, x>> \in Below)
  BY <1>1, WFMin
<1>4. \A y \in T : ~ (y < x)
  BY <1>2, <1>3
<1>5. QED
  BY <1>4

\* A set that holds 0 and with each number the next holds them all.
LEMMA SetInduction ==
  ASSUME NEW n \in Nat, NEW T, 0 \in T, \A i \in 1..n : i - 1 \in T => i \in T
  PROVE  \A i \in 0..n : i \in T
<1> DEFINE Bad == {i \in 0..n : i \notin T}
<1>1. SUFFICES ASSUME Bad # {} PROVE FALSE
  OBVIOUS
<1>2. PICK m \in Bad : \A k \in Bad : m <= k
  <2>1. Bad \subseteq Nat
    OBVIOUS
  <2> HIDE DEF Bad
  <2>2. QED
    BY <1>1, <2>1, LeastElement
<1>3. m - 1 \in 0..n /\ m - 1 \in T
  BY <1>2
<1>4. QED
  BY <1>2, <1>3

\* What \o returns.
LEMMA Concatenated ==
  ASSUME NEW S, NEW s \in Seq(S), NEW t \in Seq(S)
  PROVE  /\ Len(s \o t) = Len(s) + Len(t) /\ Len(s) \in Nat /\ Len(t) \in Nat
         /\ DOMAIN (s \o t) = 1..(Len(s) + Len(t)) /\ DOMAIN s = 1..Len(s) /\ DOMAIN t = 1..Len(t)
         /\ \A k \in 1..Len(s) : (s \o t)[k] = s[k]
         /\ \A k \in 1..Len(t) : (s \o t)[Len(s) + k] = t[k]
BY ConcatProperties

\* One element more.
OneMore(s, x, t) ==
  /\ Len(t) = Len(s) + 1 /\ t[Len(s) + 1] = x
  /\ \A i \in 1..Len(s) : t[i] = s[i]

LEMMA AppendedOne ==
  ASSUME NEW S, NEW s \in Seq(S), NEW x \in S
  PROVE  /\ Append(s, x) \in Seq(S) /\ OneMore(s, x, Append(s, x))
         /\ s \o <<x>> = Append(s, x) /\ Len(s) \in Nat
<1>1. Append(s, x) \in Seq(S) /\ OneMore(s, x, Append(s, x)) /\ Len(s) \in Nat
  BY DEF OneMore
<1>2. s \o <<x>> = Append(s, x)
  OBVIOUS
<1>3. QED
  BY <1>1, <1>2

-----------------------------------------------------------------------------
(* The inductive invariant.                                                 *)

Asks == waiting.for \in {"call", "bump", "retry"}

\* The pass and the poller count their ids up from two starting points.
Counters == /\ rid \in Nat /\ poll_rid \in Nat /\ poll_rid >= PollRidStart
            /\ waiting.for \in {"none", "initialize", "call", "bump", "retry"}
            /\ Asks => waiting.rid = rid

\* Ids that may be in use, when the pass has counted up to r.
Used(n, r) == n \in Nat /\ (n <= r \/ n > PollRidStart)
IdsUsed ==
  /\ \A m \in inflight : DOMAIN m = {"rid", "of", "lsp", "abandon"} /\ Used(m.rid, rid)
  /\ \E S : out \in Seq(S)
  /\ \A i \in 1..Len(out) : Used(out[i].rid, rid)

\* What has the id that is waited for is the request that is waited for, and it is
\* in one place.
AwaitedLsp == waiting.for = "retry" \/ (waiting.for = "call" /\ LspBound)
OneAwaited ==
  /\ \A m \in inflight : m.rid = waiting.rid => m.of = Awaited /\ (m.lsp => AwaitedLsp)
  /\ \A i \in 1..Len(out) : out[i].rid = waiting.rid
       => out[i].of = Awaited /\ \A m \in inflight : m.rid # waiting.rid
  /\ \A m, n \in inflight : m.rid = waiting.rid /\ n.rid = waiting.rid => m = n

\* Over stdio what is left of the calls to language servers is cancelled.
LeftIsCancelled ==
  opt.transport = "stdio" /\ exit = "running" =>
    \A m \in inflight : m.lsp => m.abandon \/ (Asks /\ m.rid = waiting.rid)

\* The ids of the pass are below those of the poller.
IdsApart == rid < PollRidStart

PassInv ==
  /\ Counters
  /\ IdsApart => IdsUsed /\ (Asks => OneAwaited) /\ LeftIsCancelled /\ ~mixed

-----------------------------------------------------------------------------
(* What a step does with the messages.                                      *)

\* What a step builds on: the messages in flight, those to language servers
\* cancelled over stdio.
Based(before) ==
  /\ \A m \in before : DOMAIN m = {"rid", "of", "lsp", "abandon"}
                       /\ \E n \in inflight : n.rid = m.rid
  /\ opt.transport = "stdio" => \A m \in before : m.lsp => m.abandon

\* Answers come off the front.
Fewer == /\ \E S : out' \in Seq(S)
         /\ \A i \in 1..Len(out') : \E j \in 1..Len(out) : out'[i] = out[j]

\* A request goes out under the next id.
Sends(before) ==
  /\ \E for \in {"call", "bump", "retry"}, lsp \in BOOLEAN :
       /\ Send(for, rid + 1, Of(Current, for), lsp, before)
       /\ lsp => for = "retry" \/ (for = "call" /\ LspBound)
  /\ rid' = rid + 1
  /\ UNCHANGED <<opt, plan, exit, poll_rid>>

\* Nothing is waited for any more; the poller's own calls may be left.
Rests(before) ==
  /\ rid' \in Nat /\ rid <= rid' /\ waiting' = Idle
  /\ poll_rid' \in Nat /\ poll_rid <= poll_rid'
  /\ \A m \in inflight' : m \in before \/ \E id \in Nat : id > PollRidStart /\ m = Snapshot(id)
  /\ UNCHANGED opt

\* A message that is cancelled is the same otherwise.
LEMMA CancelledIs ==
  ASSUME NEW m, DOMAIN m = {"rid", "of", "lsp", "abandon"},
         NEW c, c = [m EXCEPT !.abandon = TRUE]
  PROVE  /\ DOMAIN c = {"rid", "of", "lsp", "abandon"}
         /\ c.rid = m.rid /\ c.of = m.of /\ c.lsp = m.lsp /\ c.abandon
  OBVIOUS

\* Messages are of the shape they are sent with.
LEMMA MessageIs ==
  ASSUME NEW id, NEW of, NEW lsp
  PROVE  /\ DOMAIN Message(id, of, lsp) = {"rid", "of", "lsp", "abandon"}
         /\ Message(id, of, lsp).rid = id /\ Message(id, of, lsp).of = of
         /\ Message(id, of, lsp).lsp = lsp
  BY DEF Message

LEMMA SnapshotIs ==
  ASSUME NEW id
  PROVE  /\ DOMAIN Snapshot(id) = {"rid", "of", "lsp", "abandon"}
         /\ Snapshot(id).rid = id /\ ~Snapshot(id).lsp
  BY DEF Snapshot, Message

\* The id a request goes out under is on nothing in flight or on its way.
LEMMA FreshId ==
  ASSUME NEW r \in Nat, r + 1 < PollRidStart, NEW n, Used(n, r)
  PROVE  n # r + 1
  BY DEF Used, PollRidStart

\* An id in use stays one.
LEMMA UsedStays ==
  ASSUME NEW r \in Nat, NEW q \in Nat, r <= q, NEW n, Used(n, r)
  PROVE  Used(n, q)
  BY DEF Used, PollRidStart

\* A request that goes out over such a base keeps the invariant.
LEMMA SendKeeps ==
  ASSUME PassInv, IdsApart', NEW before, Based(before), Sends(before), Fewer, ~mixed'
  PROVE  PassInv'
<1>1. PICK for \in {"call", "bump", "retry"}, lsp \in BOOLEAN :
        /\ Send(for, rid + 1, Of(Current, for), lsp, before)
        /\ lsp => for = "retry" \/ (for = "call" /\ LspBound)
  BY DEF Sends
<1>2. /\ rid' = rid + 1 /\ rid \in Nat /\ rid + 1 \in Nat /\ rid <= rid + 1 /\ rid + 1 < PollRidStart
      /\ opt' = opt /\ plan' = plan /\ exit' = exit /\ poll_rid' = poll_rid
  BY DEF Sends, PassInv, Counters, IdsApart, PollRidStart
<1>3. IdsUsed /\ rid + 1 > rid
  BY <1>2 DEF PassInv, IdsApart, PollRidStart
<1> DEFINE new == Message(rid + 1, Of(Current, for), lsp)
<1>4. /\ waiting' = [for |-> for, rid |-> rid + 1]
      /\ \A m \in inflight' : m \in before \/ m = new
  BY <1>1 DEF Send
<1>5. /\ DOMAIN new = {"rid", "of", "lsp", "abandon"}
      /\ new.rid = rid + 1 /\ new.of = Of(Current, for) /\ new.lsp = lsp
  BY MessageIs
<1> HIDE DEF new
<1>6. waiting'.for = for /\ waiting'.rid = rid + 1
  BY <1>4
<1>7. Awaited' = Of(Current, for) /\ (AwaitedLsp' <=> for = "retry" \/ (for = "call" /\ LspBound))
  BY <1>2, <1>6 DEF Awaited, AwaitedLsp, Current, LspBound, PerLang, expect_reject
<1>8. \A m \in before : Used(m.rid, rid) /\ m.rid # rid + 1
  BY <1>2, <1>3, FreshId DEF Based, IdsUsed
<1>9. \A i \in 1..Len(out') : Used(out'[i].rid, rid) /\ out'[i].rid # rid + 1
  BY <1>2, <1>3, FreshId DEF Fewer, IdsUsed
<1>10. Counters'
  BY <1>2, <1>6 DEF Counters, PassInv
<1>11. IdsUsed'
  <2>1. Used(rid + 1, rid')
    BY <1>2 DEF Used
  <2>2. \A m \in inflight' : DOMAIN m = {"rid", "of", "lsp", "abandon"} /\ Used(m.rid, rid')
    BY <2>1, <1>2, <1>4, <1>5, <1>8, UsedStays DEF Based
  <2>3. \A i \in 1..Len(out') : Used(out'[i].rid, rid')
    BY <1>2, <1>9, UsedStays
  <2>4. QED
    BY <2>2, <2>3 DEF IdsUsed, Fewer
<1>12. OneAwaited'
  <2>1. \A m \in inflight' : m.rid = rid + 1 => m = new
    BY <1>4, <1>8
  <2>2. new.lsp => AwaitedLsp'
    BY <1>1, <1>5, <1>7
  <2>3. new.of = Awaited'
    BY <1>5, <1>7
  <2>4. QED
    BY <2>1, <2>2, <2>3, <1>6, <1>9 DEF OneAwaited
<1>13. LeftIsCancelled'
  <2>1. Asks'
    BY <1>6 DEF Asks
  <2>2. \A m \in inflight' : m \in before \/ m.rid = waiting'.rid
    BY <1>4, <1>5, <1>6
  <2>3. opt'.transport = "stdio" => \A m \in before : m.lsp => m.abandon
    BY <1>2 DEF Based
  <2>4. QED
    BY <2>1, <2>2, <2>3 DEF LeftIsCancelled
<1>14. QED
  BY <1>10, <1>11, <1>12, <1>13 DEF PassInv

\* So does giving up waiting.
LEMMA RestKeeps ==
  ASSUME PassInv, IdsApart', NEW before, Based(before), Rests(before), Fewer, ~mixed'
  PROVE  PassInv'
<1> DEFINE T == inflight' \ before
<1>1. \A m \in T : \E id \in Nat : id > PollRidStart /\ m = Snapshot(id)
  BY DEF Rests
<1>2. /\ rid \in Nat /\ rid' \in Nat /\ rid <= rid' /\ waiting' = Idle /\ opt' = opt
      /\ poll_rid \in Nat /\ poll_rid >= PollRidStart /\ poll_rid' \in Nat /\ poll_rid <= poll_rid'
  BY DEF Rests, PassInv, Counters
<1>3. IdsUsed
  BY <1>2 DEF PassInv, IdsApart, PollRidStart
<1> HIDE DEF T
<1>4. \A m \in T : /\ DOMAIN m = {"rid", "of", "lsp", "abandon"}
                   /\ m.rid \in Nat /\ m.rid > PollRidStart /\ ~m.lsp
  BY <1>1, SnapshotIs
<1>5. waiting'.for = "none" /\ ~Asks'
  BY <1>2 DEF Idle, Asks
<1>6. Counters'
  BY <1>2, <1>5 DEF Counters, PollRidStart
<1>7. IdsUsed'
  <2>1. \A m \in T : Used(m.rid, rid')
    BY <1>4 DEF Used
  <2>2. \A m \in before : Used(m.rid, rid')
    BY <1>2, <1>3, UsedStays DEF Based, IdsUsed
  <2>3. \A m \in inflight' : DOMAIN m = {"rid", "of", "lsp", "abandon"} /\ Used(m.rid, rid')
    BY <2>1, <2>2, <1>4 DEF Based, T
  <2>4. \A i \in 1..Len(out) : Used(out[i].rid, rid')
    BY <1>2, <1>3, UsedStays DEF IdsUsed
  <2>5. \A i \in 1..Len(out') : Used(out'[i].rid, rid')
    BY <2>4 DEF Fewer
  <2>6. QED
    BY <2>3, <2>5 DEF IdsUsed, Fewer
<1>8. LeftIsCancelled'
  BY <1>2, <1>4 DEF LeftIsCancelled, Based, T
<1>9. QED
  BY <1>5, <1>6, <1>7, <1>8 DEF PassInv

\* A pass that ends raising keeps it too.
LEMMA RaiseKeeps ==
  ASSUME PassInv, IdsApart', Raise, Fewer, ~mixed'
  PROVE  PassInv'
<1>1. /\ exit' = "raised" /\ opt' = opt /\ plan' = plan /\ rid' = rid /\ poll_rid' = poll_rid
      /\ waiting' = waiting /\ inflight' = inflight
  BY DEF Raise, ids
<1>2. IdsUsed /\ (Asks => OneAwaited) /\ rid \in Nat /\ rid <= rid'
  BY <1>1 DEF PassInv, IdsApart, Counters
<1>3. Counters'
  BY <1>1 DEF PassInv, Counters, Asks
<1>4. IdsUsed'
  BY <1>1, <1>2 DEF IdsUsed, Fewer, Used
<1>5. Asks' => OneAwaited'
  <2>1. Asks' = Asks /\ Awaited' = Awaited /\ AwaitedLsp' = AwaitedLsp
    BY <1>1 DEF Asks, Awaited, AwaitedLsp, Current, LspBound, PerLang, expect_reject
  <2>2. QED
    BY <1>1, <1>2, <2>1 DEF OneAwaited, Fewer
<1>6. LeftIsCancelled'
  BY <1>1 DEF LeftIsCancelled
<1>7. QED
  BY <1>3, <1>4, <1>5, <1>6 DEF PassInv

-----------------------------------------------------------------------------
(* What the actions come to.                                                *)

Moves(before) == Sends(before) \/ Rests(before) \/ Raise

\* A poll, or none, is rest.
LEMMA PollRests ==
  ASSUME Counters, NEW before, Poll(before) \/ NoPoll(before), rid' = rid, opt' = opt
  PROVE  Rests(before)
<1>1. rid \in Nat /\ poll_rid \in Nat /\ poll_rid >= PollRidStart /\ PollRidStart \in Nat
  BY DEF Counters, PollRidStart
<1>2. CASE Poll(before)
  <2>1. PICK S \in SUBSET {Snapshot(poll_rid + 1), Snapshot(poll_rid + 2)} :
          inflight' = before \cup S
    BY <1>2 DEF Poll
  <2>2. waiting' = Idle /\ poll_rid' = poll_rid + 2
    BY <1>2 DEF Poll
  <2>3. /\ poll_rid + 1 \in Nat /\ poll_rid + 1 > PollRidStart
        /\ poll_rid + 2 \in Nat /\ poll_rid + 2 > PollRidStart
    BY <1>1
  <2>4. \A m \in S : \E id \in Nat : id > PollRidStart /\ m = Snapshot(id)
    BY <2>1, <2>3
  <2>5. QED
    BY <1>1, <2>1, <2>2, <2>4 DEF Rests
<1>3. CASE NoPoll(before)
  BY <1>1, <1>3 DEF NoPoll, Rests
<1>4. QED
  BY <1>2, <1>3

\* The next request of a cell goes out, or the write raises.
LEMMA ProceedsMoves ==
  ASSUME NEW for \in {"call", "bump", "retry"}, NEW lsp \in BOOLEAN,
         lsp => for = "retry" \/ (for = "call" /\ LspBound),
         NEW before,
         Proceeds(for, rid + 1, Of(Current, for), lsp, before)
  PROVE  Sends(before) \/ Raise
BY DEF Proceeds, Sends

\* What follows an answer, or its absence, builds on what is in flight or on that
\* with the call cancelled; and over stdio a call to a language server whose
\* deadline has passed is.
LEMMA AfterMoves ==
  ASSUME Counters, Asking, NEW kind, After(kind)
  PROVE  \/ Moves(cancel(rid))
         \/ Moves(inflight) /\ (kind = "silence" => ~AwaitedLsp)
<1>1. CASE AfterCall(kind)
  <2> DEFINE o == classify(kind, expect_reject(Current.tool))
             t == LspBound /\ is_timeout_summary(o.note)
  <2>1. waiting.for = "call"
    BY <1>1 DEF AfterCall
  <2>2. kind = "silence" => o.note = "no response"
    BY DEF classify, Outcome
  <2>3. kind = "silence" /\ ~t => ~AwaitedLsp
    BY <2>1, <2>2 DEF is_timeout_summary, AwaitedLsp
  <2>4. CASE t /\ ~Target(now).override
    <3>1. Proceeds("bump", rid + 1, Of(Current, "bump"), FALSE, cancel(rid))
      BY <1>1, <2>4 DEF AfterCall
    <3>2. QED
      BY <3>1, ProceedsMoves DEF Moves
  <2>5. CASE ~(t /\ ~Target(now).override)
    <3>1. Finish(o, kind, IF t THEN cancel(rid) ELSE inflight)
      BY <1>1, <2>5 DEF AfterCall
    <3> HIDE DEF o, t
    <3>2. Rests(IF t THEN cancel(rid) ELSE inflight)
      BY <3>1, PollRests DEF Finish, MayPoll
    <3>3. QED
      BY <2>3, <3>2 DEF Moves
  <2>6. QED
    BY <2>4, <2>5
<1>2. CASE AfterBump(kind)
  <2>1. ~AwaitedLsp
    BY <1>2 DEF AfterBump, AwaitedLsp
  <2>2. CASE kind \in {"silence", "transport", "refused"}
    <3>1. Finish(Outcome(FALSE, "no response"), kind, inflight)
      BY <1>2, <2>2 DEF AfterBump
    <3>2. Rests(inflight)
      BY <3>1, PollRests DEF Finish, MayPoll
    <3>3. QED
      BY <2>1, <3>2 DEF Moves
  <2>3. CASE kind \notin {"silence", "transport", "refused"}
    <3>1. Proceeds("retry", rid + 1, Of(Current, "retry"), TRUE, inflight)
      BY <1>2, <2>3 DEF AfterBump
    <3>2. QED
      BY <2>1, <3>1, ProceedsMoves DEF Moves
  <2>4. QED
    BY <2>2, <2>3
<1>3. CASE AfterRetry(kind)
  <2> DEFINE t == is_timeout_summary(classify(kind, FALSE).note)
  <2>1. kind = "silence" => t
    BY DEF classify, Outcome, is_timeout_summary
  <2>2. NoPoll(IF t THEN cancel(rid) ELSE inflight) /\ rid' = rid /\ opt' = opt
    BY <1>3 DEF AfterRetry
  <2> HIDE DEF t
  <2>3. Rests(IF t THEN cancel(rid) ELSE inflight)
    BY <2>2, PollRests
  <2>4. QED
    BY <2>1, <2>3 DEF Moves
<1>4. QED
  BY <1>1, <1>2, <1>3 DEF After

\* The ids only go up.
LEMMA MovesCount ==
  ASSUME Counters, NEW before, Moves(before)
  PROVE  Counters' /\ rid <= rid'
<1>1. rid \in Nat
  BY DEF Counters
<1>2. CASE Sends(before)
  <2>1. PICK for \in {"call", "bump", "retry"} : waiting' = [for |-> for, rid |-> rid + 1]
    BY <1>2 DEF Sends, Send
  <2>2. rid' = rid + 1 /\ poll_rid' = poll_rid
    BY <1>2 DEF Sends
  <2>3. waiting'.for = for /\ waiting'.rid = rid + 1
    BY <2>1
  <2>4. QED
    BY <1>1, <2>2, <2>3 DEF Counters
<1>3. CASE Rests(before)
  <2>1. /\ rid' \in Nat /\ rid <= rid' /\ waiting'.for = "none"
        /\ poll_rid' \in Nat /\ poll_rid <= poll_rid'
    BY <1>3 DEF Rests, Idle
  <2>2. QED
    BY <2>1 DEF Counters, Asks, PollRidStart
<1>4. CASE Raise
  <2>1. rid' = rid /\ poll_rid' = poll_rid /\ waiting' = waiting
    BY <1>4 DEF Raise, ids
  <2>2. QED
    BY <1>1, <2>1 DEF Counters, Asks
<1>5. QED
  BY <1>2, <1>3, <1>4 DEF Moves

\* What keeps the invariant.
LEMMA MovesKeep ==
  ASSUME PassInv, NEW before, Moves(before),
         IdsApart => Based(before) /\ Fewer /\ ~mixed'
  PROVE  PassInv'
<1>1. Counters' /\ rid <= rid' /\ rid \in Nat /\ rid' \in Nat
  BY MovesCount DEF PassInv, Counters
<1>2. CASE ~IdsApart'
  BY <1>1, <1>2 DEF PassInv
<1>3. CASE IdsApart'
  <2>1. Based(before) /\ Fewer /\ ~mixed'
    BY <1>1, <1>3 DEF IdsApart, PollRidStart
  <2>2. QED
    BY <1>3, <2>1, SendKeeps, RestKeeps, RaiseKeeps DEF Moves
<1>4. QED
  BY <1>2, <1>3

-----------------------------------------------------------------------------
(* What a step builds on.                                                   *)

\* While nothing is waited for all is cancelled that has to be.
LEMMA QuietBase ==
  ASSUME PassInv, IdsApart, exit = "running", ~Asks
  PROVE  Based(inflight)
BY DEF PassInv, IdsUsed, LeftIsCancelled, Based

\* So it is when what is waited for is not a call to a language server, or is not
\* in flight any more.
LEMMA AwaitedBase ==
  ASSUME PassInv, IdsApart, exit = "running", Asks,
         opt.transport = "stdio" => ~AwaitedLsp \/ \A m \in inflight : m.rid # waiting.rid
  PROVE  Based(inflight)
<1>1. opt.transport = "stdio" => \A m \in inflight : m.lsp => m.abandon
  BY DEF PassInv, OneAwaited, LeftIsCancelled
<1>2. QED
  BY <1>1 DEF PassInv, IdsUsed, Based

\* Or when it has been cancelled.
LEMMA CancelBase ==
  ASSUME PassInv, IdsApart, exit = "running", Asks
  PROVE  Based(cancel(rid))
<1>1. \A m \in inflight : DOMAIN m = {"rid", "of", "lsp", "abandon"}
  BY DEF PassInv, IdsUsed
<1>2. \A m \in inflight : opt.transport = "stdio" /\ m.lsp => m.abandon \/ m.rid = rid
  BY DEF PassInv, LeftIsCancelled, Counters
<1>3. ASSUME NEW c \in cancel(rid)
      PROVE  /\ DOMAIN c = {"rid", "of", "lsp", "abandon"}
             /\ \E n \in inflight : n.rid = c.rid
             /\ opt.transport = "stdio" /\ c.lsp => c.abandon
  <2>1. PICK m \in inflight : c = IF m.rid = rid THEN [m EXCEPT !.abandon = TRUE] ELSE m
    BY DEF cancel
  <2>2. CASE m.rid = rid
    BY <1>1, <2>1, <2>2, CancelledIs
  <2>3. CASE m.rid # rid
    BY <1>1, <1>2, <2>1, <2>3
  <2>4. QED
    BY <2>2, <2>3
<1>4. QED
  BY <1>3 DEF Based

\* With out unchanged there are no more answers.
LEMMA OutUnchanged ==
  ASSUME PassInv, IdsApart, out' = out
  PROVE  Fewer
BY DEF PassInv, IdsUsed, Fewer

\* An answer is taken off together with those before it.
LEMMA OutReceived ==
  ASSUME PassInv, IdsApart, NEW i \in 1..Len(out), out' = SubSeq(out, i + 1, Len(out))
  PROVE  Fewer
<1>1. PICK S : out \in Seq(S)
  BY DEF PassInv, IdsUsed
<1>2. /\ SubSeq(out, i + 1, Len(out)) \in Seq(S)
      /\ Len(SubSeq(out, i + 1, Len(out))) = Len(out) - i
      /\ \A j \in 1..(Len(out) - i) : SubSeq(out, i + 1, Len(out))[j] = out[i + j]
  BY <1>1
<1>3. \A j \in 1..(Len(out) - i) : i + j \in 1..Len(out)
  BY <1>1
<1>4. QED
  BY <1>2, <1>3 DEF Fewer

-----------------------------------------------------------------------------
(* The actions.                                                             *)

\* A step of the loop that sends nothing.
LEMMA LoopKeeps ==
  ASSUME PassInv, Turn, rid' \in Nat, rid <= rid',
         UNCHANGED <<opt, poll_rid, waiting, inflight, out, mixed>>
  PROVE  PassInv'
<1>1. ~Asks /\ ~Asks' /\ waiting.for = "none" /\ waiting'.for = "none"
  BY DEF Turn, Asks
<1>2. Counters'
  BY <1>1 DEF PassInv, Counters
<1>3. CASE ~IdsApart'
  BY <1>2, <1>3 DEF PassInv
<1>4. CASE IdsApart'
  <2>1. IdsApart /\ rid \in Nat
    BY <1>4 DEF PassInv, Counters, IdsApart, PollRidStart
  <2>2. IdsUsed /\ LeftIsCancelled /\ ~mixed
    BY <2>1 DEF PassInv
  <2>3. \A m \in inflight : Used(m.rid, rid')
    BY <2>1, <2>2, UsedStays DEF IdsUsed
  <2>4. \A i \in 1..Len(out) : Used(out[i].rid, rid')
    BY <2>1, <2>2, UsedStays DEF IdsUsed
  <2>5. IdsUsed'
    BY <2>2, <2>3, <2>4 DEF IdsUsed
  <2>6. LeftIsCancelled'
    BY <1>1, <2>2 DEF LeftIsCancelled, Turn
  <2>7. QED
    BY <1>1, <1>2, <2>2, <2>5, <2>6 DEF PassInv
<1>5. QED
  BY <1>3, <1>4

\* What comes for the request under way, or the end of its patience.
LEMMA AfterKeeps ==
  ASSUME PassInv, Asking, NEW kind, After(kind),
         IdsApart => Fewer /\ ~mixed',
         IdsApart /\ opt.transport = "stdio" =>
           kind = "silence" \/ \A m \in inflight : m.rid # waiting.rid
  PROVE  PassInv'
<1>1. exit = "running" /\ Asks /\ Counters
  BY DEF Asking, Asks, PassInv, Counters
<1>2. CASE Moves(cancel(rid))
  BY <1>1, <1>2, CancelBase, MovesKeep
<1>3. CASE Moves(inflight) /\ (kind = "silence" => ~AwaitedLsp)
  BY <1>1, <1>3, AwaitedBase, MovesKeep
<1>4. QED
  BY <1>1, <1>2, <1>3, AfterMoves

\* The answer that is received is the one to the request that is waited for.
LEMMA ReceiveKeeps ==
  ASSUME PassInv, Receive
  PROVE  PassInv'
<1>1. PICK i \in Mine : /\ After(out[i].kind)
                        /\ out' = SubSeq(out, i + 1, Len(out))
                        /\ mixed' = (mixed \/ out[i].of # Awaited)
  BY DEF Receive
<1>2. Asking /\ Asks /\ i \in 1..Len(out) /\ out[i].rid = waiting.rid
  BY <1>1 DEF Receive, Mine, Asking, Asks, PassInv, Counters
<1>3. IdsApart => out[i].of = Awaited /\ \A m \in inflight : m.rid # waiting.rid
  BY <1>2 DEF PassInv, OneAwaited
<1>4. IdsApart => ~mixed'
  BY <1>1, <1>3 DEF PassInv
<1>5. IdsApart => Fewer
  BY <1>1, <1>2, OutReceived
<1>6. QED
  BY <1>1, <1>2, <1>3, <1>4, <1>5, AfterKeeps

\* Over stdio a deadline that passes is silence, and is known as a timeout.
LEMMA NothingKeeps ==
  ASSUME PassInv, Nothing
  PROVE  PassInv'
<1> DEFINE kind == IF opt.transport = "http" THEN "transport" ELSE "silence"
<1>1. Asking /\ After(kind) /\ out' = out /\ mixed' = mixed
  BY DEF Nothing, behind
<1>2. opt.transport = "stdio" => kind = "silence"
  OBVIOUS
<1> HIDE DEF kind
<1>3. IdsApart => Fewer /\ ~mixed'
  BY <1>1, OutUnchanged DEF PassInv
<1>4. QED
  BY <1>1, <1>2, <1>3, AfterKeeps

\* An answer is the only thing left of its request.
LEMMA AnswerKeeps ==
  ASSUME PassInv, NEW m, Answer(m)
  PROVE  PassInv'
<1>1. /\ m \in inflight /\ inflight' = inflight \ {m}
      /\ opt' = opt /\ plan' = plan /\ exit' = exit /\ exit = "running" /\ mixed' = mixed
      /\ rid' = rid /\ poll_rid' = poll_rid /\ waiting' = waiting
  BY DEF Answer, pass, ids
<1>2. PICK kind : out' = IF opt.transport = "http" /\ m.rid # waiting.rid THEN out
                         ELSE Append(out, [rid |-> m.rid, of |-> m.of, kind |-> kind])
  BY DEF Answer
<1>3. Counters'
  BY <1>1 DEF PassInv, Counters, Asks
<1>4. Asks' = Asks /\ Awaited' = Awaited /\ AwaitedLsp' = AwaitedLsp
  BY <1>1 DEF Asks, Awaited, AwaitedLsp, Current, LspBound, PerLang, expect_reject
<1>5. ASSUME IdsApart
      PROVE  IdsUsed' /\ (Asks => OneAwaited') /\ LeftIsCancelled' /\ ~mixed'
  <2> DEFINE a == [rid |-> m.rid, of |-> m.of, kind |-> kind]
  <2>1. IdsUsed /\ (Asks => OneAwaited) /\ LeftIsCancelled /\ ~mixed
    BY <1>5 DEF PassInv
  <2>2. a.rid = m.rid /\ a.of = m.of
    OBVIOUS
  <2>3. /\ \E S : out' \in Seq(S)
        /\ \A i \in 1..Len(out') : out'[i] = a \/ \E j \in 1..Len(out) : out'[i] = out[j]
    <3>1. PICK S : out \in Seq(S)
      BY <2>1 DEF IdsUsed
    <3>2. out \in Seq(S \cup {a}) /\ a \in S \cup {a}
      BY <3>1
    <3> HIDE DEF a
    <3>3. CASE out' = out
      BY <3>1, <3>3
    <3>4. CASE out' = Append(out, a)
      <4>1. /\ out' \in Seq(S \cup {a}) /\ Len(out') = Len(out) + 1 /\ Len(out) \in Nat
            /\ \A i \in 1..Len(out) : out'[i] = out[i]
            /\ out'[Len(out) + 1] = a
        BY <3>2, <3>4
      <4>2. QED
        BY <4>1
    <3>5. QED
      BY <1>2, <3>3, <3>4 DEF a
  <2> HIDE DEF a
  <2>4. IdsUsed'
    BY <1>1, <2>1, <2>2, <2>3 DEF IdsUsed
  <2>5. ASSUME Asks PROVE OneAwaited'
    <3>1. OneAwaited
      BY <2>1, <2>5
    <3>2. \A n \in inflight' : n \in inflight /\ n # m
      BY <1>1
    <3>3. a.rid = waiting.rid => a.of = Awaited /\ \A n \in inflight' : n.rid # waiting.rid
      BY <1>1, <2>2, <3>1, <3>2 DEF OneAwaited
    <3>4. QED
      BY <1>1, <1>4, <2>3, <3>1, <3>2, <3>3 DEF OneAwaited
  <2>6. LeftIsCancelled'
    BY <1>1, <1>4, <2>1 DEF LeftIsCancelled
  <2>7. QED
    BY <1>1, <2>1, <2>4, <2>5, <2>6
<1>6. IdsApart' = IdsApart
  BY <1>1 DEF IdsApart
<1>7. QED
  BY <1>3, <1>4, <1>5, <1>6 DEF PassInv

\* When pharos dies nothing is in flight.
LEMMA DieKeeps ==
  ASSUME PassInv, Die
  PROVE  PassInv'
<1>1. /\ inflight' = {} /\ out' = out /\ mixed' = mixed
      /\ opt' = opt /\ plan' = plan /\ exit' = exit
      /\ rid' = rid /\ poll_rid' = poll_rid /\ waiting' = waiting
  BY DEF Die, pass, ids, counts
<1>2. Asks' = Asks /\ Awaited' = Awaited /\ IdsApart' = IdsApart
  BY <1>1 DEF Asks, Awaited, Current, IdsApart
<1>3. Counters'
  BY <1>1, <1>2 DEF PassInv, Counters
<1>4. IdsApart => IdsUsed' /\ (Asks => OneAwaited') /\ LeftIsCancelled' /\ ~mixed'
  BY <1>1, <1>2 DEF PassInv, IdsUsed, OneAwaited, LeftIsCancelled
<1>5. QED
  BY <1>2, <1>3, <1>4 DEF PassInv

-----------------------------------------------------------------------------
(* The plan.                                                                *)

Flattens(ss, n, g) == g = [i \in 1..n |-> IF i = 1 THEN ss[i] ELSE g[i - 1] \o ss[i]]

\* The recursion of FlattenSeq defines a function.
LEMMA FlattenDefined ==
  ASSUME NEW ss, Len(ss) \in Nat \ {0}
  PROVE  \E g : Flattens(ss, Len(ss), g) /\ FlattenSeq(ss) = g[Len(ss)]
<1> DEFINE T == {n \in 0..Len(ss) : \E g : Flattens(ss, n, g)}
<1>1. 0 \in T
  <2>1. Flattens(ss, 0, [i \in 1..0 |-> <<>>])
    BY DEF Flattens
  <2>2. QED
    BY <2>1
<1>2. ASSUME NEW n \in 1..Len(ss), n - 1 \in T PROVE n \in T
  <2>1. PICK g : Flattens(ss, n - 1, g)
    BY <1>2
  <2> DEFINE last == IF n = 1 THEN ss[n] ELSE g[n - 1] \o ss[n]
             h == [i \in 1..n |-> IF i = n THEN last ELSE g[i]]
  <2> HIDE DEF last
  <2>2. \A i \in 1..(n - 1) : h[i] = g[i]
    OBVIOUS
  <2>3. h[n] = last
    OBVIOUS
  <2>4. ASSUME NEW i \in 1..n
        PROVE  h[i] = IF i = 1 THEN ss[i] ELSE h[i - 1] \o ss[i]
    <3>1. CASE i = n
      <4>1. n # 1 => n - 1 \in 1..(n - 1)
        OBVIOUS
      <4>2. n # 1 => h[n - 1] = g[n - 1]
        BY <4>1, <2>2
      <4> HIDE DEF h
      <4>3. QED
        BY <3>1, <4>2, <2>3 DEF last
    <3>2. CASE i # n
      <4>1. i \in 1..(n - 1) /\ (i # 1 => i - 1 \in 1..(n - 1))
        BY <3>2
      <4>2. g[i] = IF i = 1 THEN ss[i] ELSE g[i - 1] \o ss[i]
        BY <4>1, <2>1 DEF Flattens
      <4> HIDE DEF h
      <4>3. QED
        BY <4>1, <4>2, <2>2
    <3>3. QED
      BY <3>1, <3>2
  <2>5. Flattens(ss, n, h)
    BY <2>4 DEF Flattens
  <2>6. QED
    BY <2>5
<1>3. Len(ss) \in T
  <2> HIDE DEF T
  <2>1. \A i \in 0..Len(ss) : i \in T
    BY <1>1, <1>2, SetInduction
  <2>2. QED
    BY <2>1
<1>4. \E g : Flattens(ss, Len(ss), g)
  BY <1>3
<1>5. QED
  BY <1>4 DEF FlattenSeq, Flattens

\* A sequence of sequences is flattened to one of their elements.
LEMMA FlattenIsSeq ==
  ASSUME NEW S, NEW ss \in Seq(Seq(S))
  PROVE  FlattenSeq(ss) \in Seq(S)
<1>1. CASE Len(ss) = 0
  BY <1>1 DEF FlattenSeq
<1>2. CASE Len(ss) # 0
  <2>1. Len(ss) \in Nat \ {0}
    BY <1>2
  <2>2. PICK g : Flattens(ss, Len(ss), g) /\ FlattenSeq(ss) = g[Len(ss)]
    BY <2>1, FlattenDefined
  <2>3. \A i \in 1..Len(ss) : g[i] = IF i = 1 THEN ss[i] ELSE g[i - 1] \o ss[i]
    BY <2>2 DEF Flattens
  <2> DEFINE T == {0} \cup {n \in 1..Len(ss) : g[n] \in Seq(S)}
  <2>4. 0 \in T
    OBVIOUS
  <2>5. ASSUME NEW n \in 1..Len(ss), n - 1 \in T PROVE n \in T
    <3>1. ss[n] \in Seq(S)
      OBVIOUS
    <3>2. CASE n = 1
      <4>1. g[n] = ss[n]
        BY <2>3, <3>2
      <4>2. QED
        BY <3>1, <4>1
    <3>3. CASE n # 1
      <4>1. g[n] = g[n - 1] \o ss[n]
        BY <2>3, <3>3
      <4>2. g[n - 1] \in Seq(S)
        BY <2>5, <3>3
      <4>3. g[n] \in Seq(S)
        BY <3>1, <4>1, <4>2
      <4>4. QED
        BY <4>3
    <3>4. QED
      BY <3>2, <3>3
  <2>6. \A i \in 0..Len(ss) : i \in T
    <3> HIDE DEF T
    <3>1. QED
      BY <2>1, <2>4, <2>5, SetInduction
  <2>7. QED
    BY <2>1, <2>2, <2>6
<1>3. QED
  BY <1>1, <1>2

\* The cells there are.
MemoryTools == {MemoryCells[i].tool : i \in 1..Len(MemoryCells)}
AllCells == [lang : Languages, tool : STRING] \cup [lang : {"(global)"}, tool : ToSet(GLOBAL_TOOLS)]
            \cup [lang : {"(memory)"}, tool : MemoryTools]

LEMMA CellsAre ==
  ASSUME NEW S, NEW tools \in Seq(S), NEW l, NEW L, l \in L
  PROVE  Cells(l, tools) \in Seq([lang : L, tool : S])
BY DEF Cells, Cell

LEMMA WiderSeq ==
  ASSUME NEW S, NEW T, S \subseteq T, NEW s \in Seq(S)
  PROVE  s \in Seq(T)
OBVIOUS

\* A cell is of its place.
LEMMA CellPlaces ==
  ASSUME NEW c \in AllCells
  PROVE  /\ c.lang \in Languages \cup {"(memory)", "(global)"}
         /\ c.lang = "(global)" => c.tool \in ToSet(GLOBAL_TOOLS)
         /\ c.lang = "(memory)" => c.tool \in MemoryTools
         /\ c = Cell(c.lang, c.tool)
<1>1. "(memory)" \notin Languages /\ "(global)" \notin Languages
  BY DogfoodAssumption DEF Languages
<1>2. QED
  BY <1>1 DEF AllCells, Cell

\* The blocks of the plan: one per language that is chosen.
Blocks(o) == [i \in 1..Len(TARGETS) |->
               IF i \in Chosen(o) THEN Cells(TARGETS[i].id, PER_LANG_TOOLS) ELSE <<>>]
MemoryBlock == Cells("(memory)", [i \in 1..Len(MemoryCells) |-> MemoryCells[i].tool])
GlobalBlock == Cells("(global)", GLOBAL_TOOLS)

LEMMA PlanParts ==
  ASSUME NEW o
  PROVE  \/ Plan(o) = <<>> \o <<>>
         \/ Plan(o) = MemoryBlock \o <<>>
         \/ Plan(o) = <<>> \o (FlattenSeq(Blocks(o)) \o GlobalBlock)
         \/ Plan(o) = MemoryBlock \o (FlattenSeq(Blocks(o)) \o GlobalBlock)
BY DEF Plan, Probe, Blocks, MemoryBlock, GlobalBlock

LEMMA PartsAre ==
  ASSUME NEW o
  PROVE  /\ MemoryBlock \in Seq([lang : {"(memory)"}, tool : MemoryTools])
         /\ GlobalBlock \in Seq([lang : {"(global)"}, tool : ToSet(GLOBAL_TOOLS)])
         /\ Blocks(o) \in Seq(Seq([lang : Languages, tool : STRING]))
<1>1. /\ Len(TARGETS) \in Nat /\ Len(MemoryCells) \in Nat
      /\ PER_LANG_TOOLS \in Seq(STRING) /\ GLOBAL_TOOLS \in Seq(STRING)
  BY DogfoodAssumption
<1>2. MemoryBlock \in Seq([lang : {"(memory)"}, tool : MemoryTools])
  <2> DEFINE tools == [i \in 1..Len(MemoryCells) |-> MemoryCells[i].tool]
  <2>1. \A i \in 1..Len(MemoryCells) : MemoryCells[i].tool \in MemoryTools
    BY DEF MemoryTools
  <2>2. tools \in Seq(MemoryTools)
    BY <1>1, <2>1
  <2>3. MemoryBlock = Cells("(memory)", tools)
    BY DEF MemoryBlock
  <2> HIDE DEF tools
  <2>4. QED
    BY <2>2, <2>3, CellsAre
<1>3. GlobalBlock \in Seq([lang : {"(global)"}, tool : ToSet(GLOBAL_TOOLS)])
  <2>1. GLOBAL_TOOLS \in Seq(ToSet(GLOBAL_TOOLS))
    BY <1>1 DEF ToSet
  <2>2. QED
    BY <2>1, CellsAre DEF GlobalBlock
<1>4. Blocks(o) \in Seq(Seq([lang : Languages, tool : STRING]))
  <2> DEFINE A == [lang : Languages, tool : STRING]
  <2>1. \A i \in 1..Len(TARGETS) : TARGETS[i].id \in Languages
    BY DEF Languages
  <2>2. \A i \in 1..Len(TARGETS) : Cells(TARGETS[i].id, PER_LANG_TOOLS) \in Seq(A)
    BY <1>1, <2>1, CellsAre
  <2> HIDE DEF A
  <2>3. \A i \in 1..Len(TARGETS) :
          (IF i \in Chosen(o) THEN Cells(TARGETS[i].id, PER_LANG_TOOLS) ELSE <<>>) \in Seq(A)
    BY <2>2
  <2>4. Blocks(o) \in Seq(Seq(A))
    BY <1>1, <2>3 DEF Blocks
  <2>5. QED
    BY <2>4 DEF A
<1>5. QED
  BY <1>2, <1>3, <1>4

\* The plan is made of the cells there are.
LEMMA PlanIs ==
  ASSUME NEW o
  PROVE  Plan(o) \in Seq(AllCells)
<1>1. /\ [lang : Languages, tool : STRING] \subseteq AllCells
      /\ [lang : {"(global)"}, tool : ToSet(GLOBAL_TOOLS)] \subseteq AllCells
      /\ [lang : {"(memory)"}, tool : MemoryTools] \subseteq AllCells
  BY DEF AllCells
<1>2. MemoryBlock \in Seq(AllCells) /\ GlobalBlock \in Seq(AllCells)
  BY <1>1, PartsAre, WiderSeq
<1>3. FlattenSeq(Blocks(o)) \in Seq(AllCells)
  <2> DEFINE A == [lang : Languages, tool : STRING]
  <2>1. Blocks(o) \in Seq(Seq(A))
    BY PartsAre
  <2>2. A \subseteq AllCells
    BY <1>1
  <2> HIDE DEF A
  <2>3. QED
    BY <2>1, <2>2, FlattenIsSeq, WiderSeq
<1>4. FlattenSeq(Blocks(o)) \o GlobalBlock \in Seq(AllCells)
  BY <1>2, <1>3
<1>5. <<>> \in Seq(AllCells)
  OBVIOUS
<1> DEFINE rest == FlattenSeq(Blocks(o)) \o GlobalBlock
<1> HIDE DEF rest
<1>6. \A a, b \in Seq(AllCells) : a \o b \in Seq(AllCells)
  OBVIOUS
<1>7. QED
  BY <1>2, <1>4, <1>5, <1>6, PlanParts DEF rest

-----------------------------------------------------------------------------
(* Types, and the ids a plan takes.                                         *)

CellsInv == /\ opt \in Options /\ plan \in Seq(AllCells)
            /\ now \in Languages \cup {"none", "(memory)", "(global)", "(end)"}
LanguageInv == /\ timeouts \in Nat /\ lsp_broken \in BOOLEAN
               /\ lsp_broken <=> timeouts >= BROKEN_LSP_THRESHOLD
               /\ prepared \subseteq {"call", "type", "symbol"}
RowsInv == /\ \E S : rows \in Seq(S)
           /\ \A i \in 1..Len(rows) : rows[i].ok \in BOOLEAN
OtherTypes == /\ exit \in {"running", "0", "1", "fatal", "raised"} /\ server \in {"up", "dead"}
              /\ waiting.rid \in Nat /\ mixed \in BOOLEAN

\* A language that is given up is not called.
CallsGoOut == Asks => plan # <<>> /\ ~lsp_broken

\* The cells that are done and the one under way have taken three ids each at most.
Taken(for) == IF for = "call" THEN 1 ELSE IF for = "bump" THEN 2 ELSE IF for = "retry" THEN 3 ELSE 0
IdsCounted == rid + 3 * Len(plan) <= RidStart + 3 * Len(Plan(opt)) + Taken(waiting.for)

PlanInv == Counters /\ CellsInv /\ LanguageInv /\ RowsInv /\ OtherTypes /\ CallsGoOut /\ IdsCounted

\* A row is added, and its cell is off the plan.
LEMMA Recorded ==
  ASSUME CellsInv, RowsInv, plan # <<>>, NEW ok \in BOOLEAN, NEW note, Record(ok, note)
  PROVE  RowsInv' /\ plan' \in Seq(AllCells) /\ Len(plan') = Len(plan) - 1 /\ Len(plan) \in Nat \ {0}
<1> DEFINE r == Row(Current, ok, note)
<1>1. r.ok \in BOOLEAN
  BY DEF Row
<1>2. rows' = Append(rows, r) /\ plan' = Tail(plan)
  BY DEF Record
<1> HIDE DEF r
<1>3. PICK S : rows \in Seq(S)
  BY DEF RowsInv
<1>4. rows \in Seq(S \cup {r}) /\ r \in S \cup {r}
  BY <1>3
<1>5. /\ rows' \in Seq(S \cup {r}) /\ Len(rows') = Len(rows) + 1 /\ Len(rows) \in Nat
      /\ \A i \in 1..Len(rows) : rows'[i] = rows[i]
      /\ rows'[Len(rows) + 1] = r
  BY <1>2, <1>4
<1>6. \A i \in 1..Len(rows') : i \in 1..Len(rows) \/ i = Len(rows) + 1
  BY <1>5
<1>7. RowsInv'
  BY <1>1, <1>5, <1>6 DEF RowsInv
<1>8. plan' \in Seq(AllCells) /\ Len(plan') = Len(plan) - 1 /\ Len(plan) \in Nat \ {0}
  BY <1>2 DEF CellsInv
<1>9. QED
  BY <1>7, <1>8

\* A cell that is done keeps the invariant.
LEMMA DoneKeeps ==
  ASSUME PlanInv, Counters', plan # <<>>, NEW ok \in BOOLEAN, NEW note, Record(ok, note),
         LanguageInv', OtherTypes', waiting'.for = "none",
         rid' = rid \/ (rid' = rid + 1 /\ ~Asks), UNCHANGED <<opt, now>>
  PROVE  PlanInv'
<1>1. /\ RowsInv' /\ plan' \in Seq(AllCells) /\ Len(plan') = Len(plan) - 1
      /\ Len(plan) \in Nat \ {0}
  BY Recorded DEF PlanInv
<1>2. ~Asks'
  BY DEF Asks
<1>3. /\ Taken(waiting'.for) = 0 /\ Taken(waiting.for) \in 0..3
      /\ ~Asks => Taken(waiting.for) = 0
  BY DEF Taken, Asks
<1>4. Len(Plan(opt)) \in Nat /\ rid \in Nat /\ RidStart \in Nat
  BY PlanIs DEF PlanInv, Counters, RidStart
<1>5. IdsCounted'
  <2>1. rid + 3 * Len(plan) <= RidStart + 3 * Len(Plan(opt)) + Taken(waiting.for)
    BY DEF PlanInv, IdsCounted
  <2>2. rid' + 3 * Len(plan') <= RidStart + 3 * Len(Plan(opt)) + Taken(waiting'.for)
    BY <1>1, <1>3, <1>4, <2>1
  <2>3. QED
    BY <2>2 DEF IdsCounted
<1>6. QED
  BY <1>1, <1>2, <1>5 DEF PlanInv, CellsInv, CallsGoOut

\* So does a request that goes out.
Goes(for) == /\ waiting' = [for |-> for, rid |-> rid + 1] /\ rid' = rid + 1
             /\ UNCHANGED <<opt, plan, language, rows, exit>>
LEMMA GoKeeps ==
  ASSUME PlanInv, Counters', plan # <<>>, ~lsp_broken, NEW for, Goes(for),
         Taken(for) = Taken(waiting.for) + 1, UNCHANGED server, mixed' \in BOOLEAN
  PROVE  PlanInv'
<1>1. waiting'.for = for /\ waiting'.rid = rid + 1
  BY DEF Goes
<1>2. /\ opt' = opt /\ plan' = plan /\ now' = now /\ prepared' = prepared /\ timeouts' = timeouts
      /\ lsp_broken' = lsp_broken /\ rows' = rows /\ exit' = exit /\ rid' = rid + 1
  BY DEF Goes, language
<1>3. rid \in Nat
  BY DEF PlanInv, Counters
<1>4. IdsCounted'
  <2>1. /\ Len(Plan(opt)) \in Nat /\ Len(plan) \in Nat /\ RidStart \in Nat
        /\ Taken(waiting.for) \in Nat
    BY PlanIs DEF PlanInv, CellsInv, RidStart, Taken
  <2>2. rid + 3 * Len(plan) <= RidStart + 3 * Len(Plan(opt)) + Taken(waiting.for)
    BY DEF PlanInv, IdsCounted
  <2>3. rid' + 3 * Len(plan') <= RidStart + 3 * Len(Plan(opt)) + Taken(waiting'.for)
    BY <1>1, <1>2, <1>3, <2>1, <2>2
  <2>4. QED
    BY <1>2, <2>3 DEF IdsCounted
<1>5. OtherTypes'
  BY <1>1, <1>2, <1>3 DEF PlanInv, OtherTypes
<1>6. CellsInv' /\ LanguageInv' /\ RowsInv'
  BY <1>2 DEF PlanInv, CellsInv, LanguageInv, RowsInv
<1>7. QED
  BY <1>2, <1>4, <1>5, <1>6 DEF PlanInv, CallsGoOut

\* And a write that raises.
LEMMA RaiseKeepsPlan ==
  ASSUME PlanInv, Raise, UNCHANGED server, mixed' \in BOOLEAN
  PROVE  PlanInv'
<1>1. /\ opt' = opt /\ plan' = plan /\ now' = now /\ prepared' = prepared /\ timeouts' = timeouts
      /\ lsp_broken' = lsp_broken /\ rows' = rows /\ exit' = "raised"
      /\ rid' = rid /\ poll_rid' = poll_rid /\ waiting' = waiting
  BY DEF Raise, language, ids
<1>2. Asks' = Asks
  BY <1>1 DEF Asks
<1>3. Counters' /\ CellsInv' /\ LanguageInv' /\ RowsInv'
  BY <1>1, <1>2 DEF PlanInv, Counters, CellsInv, LanguageInv, RowsInv
<1>4. OtherTypes' /\ CallsGoOut' /\ IdsCounted'
  BY <1>1, <1>2 DEF PlanInv, OtherTypes, CallsGoOut, IdsCounted
<1>5. QED
  BY <1>3, <1>4 DEF PlanInv

-----------------------------------------------------------------------------
(* What is made of an answer.                                               *)

LEMMA ClassifyIs ==
  ASSUME NEW kind, NEW expected
  PROVE  classify(kind, expected).ok \in BOOLEAN
BY DEF classify, Outcome

\* A memory cell has something that is wanted of it.
LEMMA ExpectedIs ==
  ASSUME CellsInv, plan # <<>>, NEW o, o.ok \in BOOLEAN, NEW kind
  PROVE  Expected(o, kind) \in BOOLEAN
<1>1. Current \in AllCells
  BY DEF Current, CellsInv
<1>2. CASE Current.lang # "(memory)"
  BY <1>2 DEF Expected
<1>3. CASE Current.lang = "(memory)"
  <2>1. "(memory)" \notin Languages
    BY DogfoodAssumption DEF Languages
  <2>2. Current.tool \in MemoryTools
    BY <1>1, <1>3, <2>1 DEF AllCells
  <2>3. \E i \in 1..Len(MemoryCells) : MemoryCells[i].tool = Current.tool
    BY <2>2 DEF MemoryTools
  <2> DEFINE i == CHOOSE j \in 1..Len(MemoryCells) : MemoryCells[j].tool = Current.tool
  <2>4. i \in 1..Len(MemoryCells)
    BY <2>3
  <2> HIDE DEF i
  <2>5. MemoryCells[i].want \in {"ok", "error", "payload"}
    <3> DEFINE M == [tool : STRING, want : {"ok", "error", "payload"}]
    <3>1. MemoryCells \in Seq(M)
      BY DogfoodAssumption
    <3>2. \A m \in M : m.want \in {"ok", "error", "payload"}
      OBVIOUS
    <3> HIDE DEF M
    <3>3. MemoryCells[i] \in M
      BY <2>4, <3>1
    <3>4. QED
      BY <3>2, <3>3
  <2>6. Want(Current.tool) \in {"ok", "error", "payload"}
    BY <2>5 DEF Want, i
  <2>7. QED
    BY <1>3, <2>6 DEF Expected
<1>4. QED
  BY <1>2, <1>3

LEMMA ChainedIs ==
  ASSUME NEW o, NEW kind, prepared \subseteq {"call", "type", "symbol"}, Chained(o, kind)
  PROVE  prepared' \subseteq {"call", "type", "symbol"}
<1>1. \A t \in DOMAIN Gives : Gives[t] \in {"call", "type", "symbol"}
  BY DEF Gives
<1>2. QED
  BY <1>1 DEF Chained

LEMMA TimedOutIs ==
  ASSUME LanguageInv, TimedOut
  PROVE  timeouts' \in Nat /\ lsp_broken' \in BOOLEAN /\ (lsp_broken' <=> timeouts' >= BROKEN_LSP_THRESHOLD)
<1>1. BROKEN_LSP_THRESHOLD \in Nat /\ timeouts \in Nat
  BY DogfoodAssumption DEF LanguageInv
<1>2. timeouts' = timeouts + 1 /\ lsp_broken' = (timeouts + 1 >= BROKEN_LSP_THRESHOLD)
  BY DEF TimedOut
<1>3. (timeouts + 1 >= BROKEN_LSP_THRESHOLD) \in BOOLEAN
  BY <1>1
<1>4. lsp_broken' \in BOOLEAN /\ (lsp_broken' <=> timeouts' >= BROKEN_LSP_THRESHOLD)
  BY <1>2, <1>3, Zenon
<1>5. QED
  BY <1>1, <1>2, <1>4

\* The language's count after a cell.
LEMMA FinishKeeps ==
  ASSUME PlanInv, Counters', Asks, NEW o, o.ok \in BOOLEAN, NEW kind, NEW before,
         Finish(o, kind, before), UNCHANGED server, mixed' \in BOOLEAN
  PROVE  PlanInv'
<1>1. plan # <<>> /\ ~lsp_broken /\ CellsInv /\ LanguageInv
  BY DEF PlanInv, CallsGoOut
<1>2. Expected(o, kind) \in BOOLEAN
  BY <1>1, ExpectedIs
<1>3. Record(Expected(o, kind), o.note) /\ opt' = opt /\ now' = now /\ exit' = exit /\ rid' = rid
  BY DEF Finish
<1>4. LanguageInv'
  <2>1. prepared' \subseteq {"call", "type", "symbol"}
    BY <1>1, ChainedIs DEF Finish, LanguageInv
  <2>2. CASE LspBound /\ is_timeout_summary(o.note)
    <3>1. TimedOut
      BY <2>2 DEF Finish
    <3>2. QED
      BY <1>1, <2>1, <3>1, TimedOutIs DEF LanguageInv
  <2>3. CASE ~(LspBound /\ is_timeout_summary(o.note))
    <3>1. (timeouts' = 0 \/ timeouts' = timeouts) /\ lsp_broken' = lsp_broken
      BY <2>3 DEF Finish
    <3>2. BROKEN_LSP_THRESHOLD \in Nat \ {0}
      BY DogfoodAssumption
    <3>3. QED
      BY <1>1, <2>1, <3>1, <3>2 DEF LanguageInv
  <2>4. QED
    BY <2>2, <2>3
<1>5. waiting' = Idle
  BY DEF Finish, MayPoll, Poll, NoPoll
<1>6. waiting'.for = "none" /\ OtherTypes'
  BY <1>3, <1>5 DEF Idle, PlanInv, OtherTypes
<1>7. QED
  BY <1>1, <1>2, <1>3, <1>4, <1>6, DoneKeeps

\* The next request of a cell.
LEMMA ProceedsKeeps ==
  ASSUME PlanInv, Counters', Asks, NEW for, NEW of, NEW lsp, NEW before,
         Proceeds(for, rid + 1, of, lsp, before), Taken(for) = Taken(waiting.for) + 1,
         UNCHANGED server, mixed' \in BOOLEAN
  PROVE  PlanInv'
<1>1. CASE Reachable
  <2>1. Goes(for)
    BY <1>1 DEF Proceeds, Goes, Send
  <2>2. QED
    BY <2>1, GoKeeps DEF PlanInv, CallsGoOut
<1>2. CASE ~Reachable
  BY <1>2, RaiseKeepsPlan DEF Proceeds
<1>3. QED
  BY <1>1, <1>2

LEMMA AfterKeepsPlan ==
  ASSUME PlanInv, Asking, NEW kind, After(kind), UNCHANGED server, mixed' \in BOOLEAN
  PROVE  PlanInv'
<1>1. Asks /\ Counters /\ plan # <<>> /\ ~lsp_broken /\ CellsInv /\ LanguageInv
  BY DEF Asking, Asks, PlanInv, Counters, CallsGoOut
<1>2. Counters'
  BY <1>1, AfterMoves, MovesCount
<1>3. CASE AfterCall(kind)
  <2> DEFINE o == classify(kind, expect_reject(Current.tool))
             t == LspBound /\ is_timeout_summary(o.note)
  <2>1. o.ok \in BOOLEAN
    BY ClassifyIs
  <2>2. waiting.for = "call"
    BY <1>3 DEF AfterCall
  <2>3. Taken("bump") = Taken(waiting.for) + 1
    BY <2>2 DEF Taken
  <2>4. \/ Proceeds("bump", rid + 1, Of(Current, "bump"), FALSE, cancel(rid))
        \/ Finish(o, kind, IF t THEN cancel(rid) ELSE inflight)
    BY <1>3 DEF AfterCall
  <2> HIDE DEF o, t
  <2>5. CASE Proceeds("bump", rid + 1, Of(Current, "bump"), FALSE, cancel(rid))
    BY <1>1, <1>2, <2>3, <2>5, ProceedsKeeps
  <2>6. CASE Finish(o, kind, IF t THEN cancel(rid) ELSE inflight)
    BY <1>1, <1>2, <2>1, <2>6, FinishKeeps
  <2>7. QED
    BY <2>4, <2>5, <2>6
<1>4. CASE AfterBump(kind)
  <2> DEFINE o == Outcome(FALSE, "no response")
  <2>1. o.ok \in BOOLEAN
    BY DEF Outcome
  <2>2. waiting.for = "bump"
    BY <1>4 DEF AfterBump
  <2>3. Taken("retry") = Taken(waiting.for) + 1
    BY <2>2 DEF Taken
  <2>4. \/ Proceeds("retry", rid + 1, Of(Current, "retry"), TRUE, inflight)
        \/ Finish(o, kind, inflight)
    BY <1>4 DEF AfterBump
  <2> HIDE DEF o
  <2>5. CASE Proceeds("retry", rid + 1, Of(Current, "retry"), TRUE, inflight)
    BY <1>1, <1>2, <2>3, <2>5, ProceedsKeeps
  <2>6. CASE Finish(o, kind, inflight)
    BY <1>1, <1>2, <2>1, <2>6, FinishKeeps
  <2>7. QED
    BY <2>4, <2>5, <2>6
<1>5. CASE AfterRetry(kind)
  <2> DEFINE o == classify(kind, FALSE)
             note == IF o.ok THEN "retried" ELSE IF o.note = "quoted" THEN "exhausted, quoted" ELSE "exhausted"
  <2>1. o.ok \in BOOLEAN
    BY ClassifyIs
  <2>2. /\ Record(o.ok, note) /\ Chained(o, kind)
        /\ IF o.ok THEN UNCHANGED <<timeouts, lsp_broken>> ELSE TimedOut
        /\ waiting' = Idle /\ opt' = opt /\ now' = now /\ exit' = exit /\ rid' = rid
    BY <1>5 DEF AfterRetry, NoPoll
  <2> HIDE DEF o, note
  <2>3. prepared' \subseteq {"call", "type", "symbol"}
    BY <1>1, <2>2, ChainedIs DEF LanguageInv
  <2>4. LanguageInv'
    <3>1. CASE o.ok
      BY <1>1, <2>2, <2>3, <3>1 DEF LanguageInv
    <3>2. CASE ~o.ok
      BY <1>1, <2>2, <2>3, <3>2, TimedOutIs DEF LanguageInv
    <3>3. QED
      BY <3>1, <3>2
  <2>5. waiting'.for = "none" /\ OtherTypes'
    BY <2>2 DEF Idle, PlanInv, OtherTypes
  <2>6. QED
    BY <1>1, <1>2, <2>1, <2>2, <2>4, <2>5, DoneKeeps
<1>6. QED
  BY <1>3, <1>4, <1>5 DEF After

LEMMA SkipKeepsPlan ==
  ASSUME PlanInv, SkipLanguage
  PROVE  PlanInv'
<1> DEFINE n == Len(PER_LANG_TOOLS)
           skipped == [i \in 1..n |-> Row(plan[i], FALSE, "skipped")]
<1>1. /\ rows' = rows \o skipped /\ plan' = SubSeq(plan, n + 1, Len(plan))
      /\ opt' = opt /\ now' = now /\ prepared' = prepared /\ timeouts' = timeouts
      /\ lsp_broken' = lsp_broken /\ exit' = exit /\ server' = server /\ mixed' = mixed
      /\ rid' = rid /\ poll_rid' = poll_rid /\ waiting' = waiting
  BY DEF SkipLanguage, language, ids, pharos, counts
<1>2. waiting.for = "none"
  BY DEF SkipLanguage, Turn
<1>3. ~Asks /\ ~Asks' /\ Taken(waiting.for) = 0 /\ Taken(waiting'.for) = 0
  BY <1>1, <1>2 DEF Asks, Taken
<1>4. n \in Nat
  BY DogfoodAssumption
<1>5. RowsInv'
  <2> DEFINE T == {skipped[i] : i \in 1..n}
  <2>1. \A i \in 1..n : skipped[i].ok = FALSE
    BY DEF Row
  <2>2. skipped \in Seq(T) /\ Len(skipped) = n
    <3>1. skipped \in [1..n -> T]
      OBVIOUS
    <3> HIDE DEF T, skipped, n
    <3>2. skipped \in Seq(T)
      BY <1>4, <3>1
    <3>3. QED
      BY <1>4, <3>1, <3>2
  <2> HIDE DEF T, skipped
  <2>3. PICK S : rows \in Seq(S)
    BY DEF PlanInv, RowsInv
  <2>4. rows \in Seq(S \cup T) /\ skipped \in Seq(S \cup T)
    BY <2>2, <2>3
  <2>5. /\ rows' \in Seq(S \cup T) /\ Len(rows') = Len(rows) + n /\ Len(rows) \in Nat
        /\ \A i \in 1..Len(rows) : rows'[i] = rows[i]
        /\ \A i \in 1..n : rows'[Len(rows) + i] = skipped[i]
    <3>1. rows' = rows \o skipped
      BY <1>1
    <3> DEFINE U == S \cup T
    <3>2. rows \in Seq(U) /\ skipped \in Seq(U)
      BY <2>4
    <3> HIDE DEF n, U
    <3>3. /\ rows \o skipped \in Seq(U)
          /\ Len(rows \o skipped) = Len(rows) + Len(skipped) /\ Len(rows) \in Nat
          /\ \A i \in 1..Len(rows) : (rows \o skipped)[i] = rows[i]
          /\ \A i \in 1..Len(skipped) : (rows \o skipped)[Len(rows) + i] = skipped[i]
      BY <3>2, Concatenated
    <3>4. QED
      BY <2>2, <3>1, <3>3 DEF U
  <2>6. \A i \in 1..Len(rows') : i \in 1..Len(rows) \/ (i - Len(rows) \in 1..n /\ i = Len(rows) + (i - Len(rows)))
    BY <1>4, <2>5
  <2>7. \A i \in 1..Len(rows') : rows'[i].ok \in BOOLEAN
    <3>1. \A i \in 1..Len(rows) : rows'[i].ok \in BOOLEAN
      BY <2>5 DEF PlanInv, RowsInv
    <3>2. \A i \in 1..n : rows'[Len(rows) + i].ok \in BOOLEAN
      BY <2>1, <2>5
    <3>3. QED
      BY <2>6, <3>1, <3>2
  <2>8. QED
    BY <2>5, <2>7 DEF RowsInv
<1> HIDE DEF n, skipped
<1>6. plan' \in Seq(AllCells) /\ Len(plan') \in Nat /\ Len(plan) \in Nat /\ Len(plan') <= Len(plan)
  BY <1>1, <1>4 DEF PlanInv, CellsInv
<1>7. IdsCounted'
  <2>1. Len(Plan(opt)) \in Nat /\ rid \in Nat /\ RidStart \in Nat
    BY PlanIs DEF PlanInv, Counters, RidStart
  <2>2. rid + 3 * Len(plan) <= RidStart + 3 * Len(Plan(opt))
    BY <1>3, <2>1, <1>6 DEF PlanInv, IdsCounted
  <2>3. rid' + 3 * Len(plan') <= RidStart + 3 * Len(Plan(opt)) + Taken(waiting'.for)
    BY <1>1, <1>3, <1>6, <2>1, <2>2
  <2>4. QED
    BY <1>1, <2>3 DEF IdsCounted
<1>8. Counters' /\ CellsInv' /\ LanguageInv' /\ OtherTypes' /\ CallsGoOut'
  BY <1>1, <1>3, <1>6 DEF PlanInv, Counters, CellsInv, LanguageInv, OtherTypes, CallsGoOut
<1>9. QED
  BY <1>5, <1>7, <1>8 DEF PlanInv

\* A cell that is not called takes an id.
LEMMA UncalledKeepsPlan ==
  ASSUME PlanInv, MyTurn, rid' = rid + 1, NEW note, Record(FALSE, note), Uncalled
  PROVE  PlanInv'
<1>1. /\ plan # <<>> /\ waiting.for = "none" /\ rid \in Nat
      /\ opt' = opt /\ now' = now /\ prepared' = prepared /\ timeouts' = timeouts
      /\ lsp_broken' = lsp_broken /\ exit' = exit /\ server' = server /\ mixed' = mixed
      /\ poll_rid' = poll_rid /\ waiting' = waiting
  BY DEF MyTurn, Turn, Uncalled, language, pharos, counts, PlanInv, Counters
<1>2. ~Asks /\ ~Asks' /\ waiting'.for = "none"
  BY <1>1 DEF Asks
<1>3. Counters'
  BY <1>1, <1>2 DEF PlanInv, Counters
<1>4. LanguageInv' /\ OtherTypes'
  BY <1>1 DEF PlanInv, LanguageInv, OtherTypes
<1>5. QED
  BY <1>1, <1>2, <1>3, <1>4, DoneKeeps

LEMMA StartKeepsPlan ==
  ASSUME PlanInv, Start
  PROVE  PlanInv'
<1>1. /\ now' = Stage /\ prepared' = {} /\ timeouts' = 0 /\ lsp_broken' = FALSE
      /\ Poll(inflight) \/ NoPoll(inflight)
      /\ opt' = opt /\ plan' = plan /\ rows' = rows /\ exit' = exit /\ rid' = rid
      /\ server' = server /\ mixed' = mixed /\ waiting.for = "none"
  BY DEF Start, behind, Turn
<1>2. waiting' = Idle
  BY <1>1 DEF Poll, NoPoll
<1>3. waiting'.for = "none" /\ waiting'.rid = 0 /\ ~Asks'
  BY <1>2 DEF Idle, Asks
<1>4. Counters'
  <2>1. Counters
    BY DEF PlanInv
  <2>2. Rests(inflight)
    BY <1>1, <2>1, PollRests
  <2>3. QED
    BY <2>1, <2>2, MovesCount DEF Moves
<1>5. Stage \in Languages \cup {"none", "(memory)", "(global)", "(end)"}
  <2>1. plan # <<>> => Current \in AllCells
    BY DEF Current, PlanInv, CellsInv
  <2>2. QED
    BY <2>1 DEF Stage, AllCells
<1>6. CellsInv' /\ RowsInv' /\ OtherTypes' /\ CallsGoOut'
  BY <1>1, <1>3, <1>5 DEF PlanInv, CellsInv, RowsInv, OtherTypes, CallsGoOut
<1>7. LanguageInv'
  <2>1. BROKEN_LSP_THRESHOLD \in Nat \ {0}
    BY DogfoodAssumption
  <2>2. ~(0 >= BROKEN_LSP_THRESHOLD)
    BY <2>1
  <2>3. prepared' = {} /\ timeouts' = 0 /\ lsp_broken' = FALSE
    BY <1>1
  <2>4. QED
    BY <2>2, <2>3 DEF LanguageInv
<1>8. IdsCounted'
  BY <1>1, <1>3 DEF PlanInv, IdsCounted
<1>9. QED
  BY <1>4, <1>6, <1>7, <1>8 DEF PlanInv

LEMMA CallKeepsPlan ==
  ASSUME PlanInv, Call
  PROVE  PlanInv'
<1>1. /\ Callable /\ plan # <<>> /\ waiting.for = "none" /\ server' = server /\ mixed' = mixed
  BY DEF Call, MyTurn, Turn, behind
<1>2. ~lsp_broken /\ mixed' \in BOOLEAN /\ Taken("call") = Taken(waiting.for) + 1
  BY <1>1 DEF Callable, PlanInv, OtherTypes, Taken
<1>3. Proceeds("call", rid + 1, Of(Current, "call"), LspBound, inflight)
  BY DEF Call, Proceeds
<1>4. CASE Reachable
  <2>1. Goes("call")
    BY <1>3, <1>4 DEF Proceeds, Goes, Send
  <2>2. Sends(inflight) \/ Raise
    <3>1. LspBound \in BOOLEAN
      BY DEF LspBound, PerLang
    <3>2. QED
      BY <1>3, <3>1, ProceedsMoves
  <2>3. Counters'
    BY <2>2, MovesCount DEF Moves, PlanInv
  <2>4. QED
    BY <1>1, <1>2, <2>1, <2>3, GoKeeps
<1>5. CASE ~Reachable
  BY <1>1, <1>2, <1>3, <1>5, RaiseKeepsPlan DEF Proceeds
<1>6. QED
  BY <1>4, <1>5

\* A step that only ends, or only pharos takes.
LEMMA RestKeepsPlan ==
  ASSUME PlanInv, OtherTypes', UNCHANGED <<opt, plan, language, rows, rid, poll_rid>>,
         waiting' = waiting \/ (waiting' = Idle /\ waiting.for \in {"none", "initialize"})
  PROVE  PlanInv'
<1>1. /\ opt' = opt /\ plan' = plan /\ now' = now /\ prepared' = prepared /\ timeouts' = timeouts
      /\ lsp_broken' = lsp_broken /\ rows' = rows /\ rid' = rid /\ poll_rid' = poll_rid
  BY DEF language
<1>2. /\ Taken(waiting'.for) = Taken(waiting.for) /\ Asks' = Asks
      /\ waiting'.for \in {"none", "initialize", "call", "bump", "retry"}
      /\ Asks => waiting' = waiting
  BY DEF Taken, Asks, Idle, PlanInv, Counters
<1>3. Counters' /\ CellsInv' /\ LanguageInv' /\ RowsInv' /\ CallsGoOut' /\ IdsCounted'
  BY <1>1, <1>2 DEF PlanInv, Counters, CellsInv, LanguageInv, RowsInv, CallsGoOut, IdsCounted
<1>4. QED
  BY <1>3 DEF PlanInv

LEMMA PlanInit ==
  ASSUME Init
  PROVE  PlanInv
<1>1. /\ opt \in Options /\ plan = Plan(opt) /\ now = "none" /\ rows = <<>> /\ exit = "running"
      /\ prepared = {} /\ timeouts = 0 /\ lsp_broken = FALSE
      /\ waiting = [for |-> "initialize", rid |-> 1] /\ server = "up"
      /\ rid = RidStart /\ poll_rid = PollRidStart /\ mixed = FALSE
  BY DEF Init
<1>2. waiting.for = "initialize" /\ waiting.rid = 1
  BY <1>1
<1>3. Counters /\ ~Asks /\ Taken(waiting.for) = 0
  BY <1>1, <1>2, SMT DEF Counters, Asks, PollRidStart, RidStart, Taken
<1>4. CellsInv
  BY <1>1, PlanIs DEF CellsInv
<1>5. LanguageInv /\ OtherTypes
  <2>1. BROKEN_LSP_THRESHOLD \in Nat \ {0}
    BY DogfoodAssumption
  <2>2. ~(0 >= BROKEN_LSP_THRESHOLD)
    BY <2>1
  <2>3. prepared = {} /\ timeouts = 0 /\ lsp_broken = FALSE
    BY <1>1
  <2>4. LanguageInv
    BY <2>2, <2>3 DEF LanguageInv
  <2>5. exit = "running" /\ server = "up" /\ mixed = FALSE
    BY <1>1
  <2>6. mixed \in BOOLEAN
    BY <2>5, Zenon
  <2>7. QED
    BY <1>2, <2>4, <2>5, <2>6 DEF OtherTypes
<1>6. RowsInv
  <2>1. rows \in Seq({}) /\ \A i \in 1..Len(rows) : FALSE
    BY <1>1
  <2>2. QED
    BY <2>1 DEF RowsInv
<1>7. IdsCounted
  <2>1. Len(Plan(opt)) \in Nat
    BY PlanIs
  <2>2. RidStart \in Nat
    BY DEF RidStart
  <2>3. QED
    BY <1>1, <1>3, <2>1, <2>2 DEF IdsCounted
<1>8. QED
  BY <1>3, <1>4, <1>5, <1>6, <1>7 DEF PlanInv, CallsGoOut

LEMMA PlanNext ==
  ASSUME PlanInv, [Next]_vars
  PROVE  PlanInv'
<1>1. OtherTypes
  BY DEF PlanInv
<1>2. CASE Initialize
  <2>1. OtherTypes'
    BY <1>1, <1>2 DEF Initialize, OtherTypes, Idle, pharos, counts
  <2>2. QED
    BY <1>2, <2>1, RestKeepsPlan DEF Initialize
<1>3. CASE SkipLanguage
  BY <1>3, SkipKeepsPlan
<1>4. CASE Start
  BY <1>4, StartKeepsPlan
<1>5. CASE ShortCircuit
  BY <1>5, UncalledKeepsPlan DEF ShortCircuit
<1>6. CASE NoArguments
  BY <1>6, UncalledKeepsPlan DEF NoArguments
<1>7. CASE Call
  BY <1>7, CallKeepsPlan
<1>8. CASE Receive
  <2>1. PICK i \in Mine : After(out[i].kind) /\ mixed' = (mixed \/ out[i].of # Awaited)
    BY <1>8 DEF Receive
  <2>2. Asking /\ server' = server
    BY <1>8 DEF Receive
  <2>3. mixed' \in BOOLEAN
    BY <2>1
  <2>4. QED
    BY <2>1, <2>2, <2>3, AfterKeepsPlan
<1>9. CASE Nothing
  <2>1. PICK kind : After(kind)
    BY <1>9 DEF Nothing
  <2>2. Asking /\ server' = server /\ mixed' = mixed
    BY <1>9 DEF Nothing, behind
  <2>3. mixed' \in BOOLEAN
    BY <1>1, <2>2 DEF OtherTypes
  <2>4. QED
    BY <2>1, <2>2, <2>3, AfterKeepsPlan
<1>10. CASE Report
  <2>1. OtherTypes'
    BY <1>1, <1>10 DEF Report, OtherTypes, ids, pharos, counts
  <2>2. QED
    BY <1>10, <2>1, RestKeepsPlan DEF Report, ids
<1>11. CASE Die
  <2>1. OtherTypes'
    BY <1>1, <1>11 DEF Die, OtherTypes, pass, ids, counts
  <2>2. QED
    BY <1>11, <2>1, RestKeepsPlan DEF Die, pass, ids, language
<1>12. CASE \E m \in inflight : Answer(m)
  <2>1. UNCHANGED <<pass, ids, server, mixed>>
    BY <1>12 DEF Answer
  <2>2. OtherTypes'
    BY <1>1, <2>1 DEF OtherTypes, pass, ids
  <2>3. QED
    BY <2>1, <2>2, RestKeepsPlan DEF pass, ids, language
<1>13. CASE UNCHANGED vars
  <2>1. OtherTypes'
    BY <1>1, <1>13 DEF OtherTypes, vars
  <2>2. QED
    BY <1>13, <2>1, RestKeepsPlan DEF vars, language
<1>14. QED
  BY <1>2, <1>3, <1>4, <1>5, <1>6, <1>7, <1>8, <1>9, <1>10, <1>11, <1>12, <1>13
  DEF Next, Harness

LEMMA SameTruth ==
  ASSUME NEW a \in BOOLEAN, NEW b \in BOOLEAN, a <=> b
  PROVE  a = b
OBVIOUS

LEMMA PlanAlways == Spec => []PlanInv
BY PlanInit, PlanNext, PTL DEF Spec

\* Every variable of the pass, the poller and pharos keeps its type; the count of
\* timeouts and the flag that gives a language up never fall out (run_pass).
THEOREM DogfoodTypes == Spec => []TypeOK
<1>1. PlanInv => TypeOK
  <2>1. ASSUME PlanInv PROVE lsp_broken = (timeouts >= BROKEN_LSP_THRESHOLD)
    <3>1. lsp_broken \in BOOLEAN /\ (lsp_broken <=> timeouts >= BROKEN_LSP_THRESHOLD)
      BY <2>1 DEF PlanInv, LanguageInv
    <3>2. (timeouts >= BROKEN_LSP_THRESHOLD) \in BOOLEAN
      OBVIOUS
    <3>3. QED
      BY <3>1, <3>2, SameTruth
  <2>2. QED
    BY <2>1 DEF PlanInv, Counters, CellsInv, LanguageInv, RowsInv, OtherTypes, TypeOK
<1>2. QED
  BY <1>1, PlanAlways, PTL

\* A plan is never so long that the ids of the pass reach the poller's.
LEMMA IdsStayApart ==
  ASSUME PlanInv
  PROVE  IdsApart
<1>1. opt \in Options /\ RidStart + 3 * Len(Plan(opt)) < PollRidStart
  BY IdsFit DEF PlanInv, CellsInv
<1>2. Len(Plan(opt)) \in Nat /\ rid \in Nat /\ RidStart \in Nat /\ PollRidStart \in Nat
  BY PlanIs DEF PlanInv, Counters, RidStart, PollRidStart
<1>3. Len(plan) \in Nat /\ (plan # <<>> => Len(plan) >= 1)
  BY DEF PlanInv, CellsInv
<1>4. Taken(waiting.for) <= 3 * Len(plan) /\ Taken(waiting.for) \in Nat
  BY <1>3 DEF PlanInv, CallsGoOut, Taken, Asks
<1>5. QED
  BY <1>1, <1>2, <1>3, <1>4 DEF PlanInv, IdsCounted, IdsApart

\* Nor does the next call's.
LEMMA NextIdApart ==
  ASSUME PlanInv, plan # <<>>, waiting.for = "none"
  PROVE  rid + 1 < PollRidStart
<1>1. opt \in Options /\ RidStart + 3 * Len(Plan(opt)) < PollRidStart
  BY IdsFit DEF PlanInv, CellsInv
<1>2. Len(Plan(opt)) \in Nat /\ rid \in Nat /\ RidStart \in Nat /\ PollRidStart \in Nat
  BY PlanIs DEF PlanInv, Counters, RidStart, PollRidStart
<1>3. Len(plan) \in Nat /\ Len(plan) >= 1
  BY DEF PlanInv, CellsInv
<1>4. rid + 3 * Len(plan) <= RidStart + 3 * Len(Plan(opt)) + 0
  BY DEF PlanInv, IdsCounted, Taken
<1>5. QED
  BY <1>1, <1>2, <1>3, <1>4

-----------------------------------------------------------------------------
(* The answers.                                                             *)

LEMMA PassInit ==
  ASSUME Init
  PROVE  PassInv
<1>1. /\ waiting = [for |-> "initialize", rid |-> 1] /\ inflight = {} /\ out = <<>>
      /\ rid = 100 /\ poll_rid = 900000 /\ mixed = FALSE
  BY DEF Init, RidStart, PollRidStart
<1>2. waiting.for = "initialize"
  BY <1>1
<1>3. Counters /\ ~Asks
  BY <1>1, <1>2 DEF Counters, Asks, PollRidStart
<1>4. IdsUsed
  <2>1. out \in Seq({}) /\ \A i \in 1..Len(out) : FALSE
    BY <1>1
  <2>2. QED
    BY <1>1, <2>1 DEF IdsUsed
<1>5. QED
  BY <1>1, <1>3, <1>4 DEF PassInv, LeftIsCancelled

LEMMA PassNext ==
  ASSUME PassInv, [Next]_vars
  PROVE  PassInv'
<1>1. Counters /\ rid \in Nat
  BY DEF PassInv, Counters
<1>2. CASE Initialize
  <2>1. /\ waiting.for = "initialize" /\ exit = "running" /\ waiting' = Idle /\ opt' = opt
        /\ rid' = rid /\ poll_rid' = poll_rid /\ inflight' = inflight /\ out' = out /\ mixed' = mixed
    BY <1>2 DEF Initialize, pharos, counts
  <2>2. ~Asks
    BY <2>1 DEF Asks
  <2>3. Rests(inflight)
    <3>1. NoPoll(inflight) \/ odd' # odd
      BY <2>1 DEF NoPoll
    <3>2. odd' = odd
      BY <1>2 DEF Initialize, counts
    <3>3. QED
      BY <1>1, <2>1, <3>1, <3>2, PollRests
  <2>4. IdsApart => Based(inflight) /\ Fewer /\ ~mixed'
    BY <2>1, <2>2, QuietBase, OutUnchanged DEF PassInv
  <2>5. QED
    BY <2>3, <2>4, MovesKeep DEF Moves
<1>3. CASE SkipLanguage
  BY <1>1, <1>3, LoopKeeps DEF SkipLanguage, ids, pharos, counts
<1>4. CASE Start
  <2>1. /\ Turn /\ rid' = rid /\ opt' = opt /\ out' = out /\ mixed' = mixed
        /\ Poll(inflight) \/ NoPoll(inflight)
    BY <1>4 DEF Start, behind
  <2>2. ~Asks /\ exit = "running"
    BY <2>1 DEF Turn, Asks
  <2>3. Rests(inflight)
    BY <1>1, <2>1, PollRests
  <2>4. IdsApart => Based(inflight) /\ Fewer /\ ~mixed'
    BY <2>1, <2>2, QuietBase, OutUnchanged DEF PassInv
  <2>5. QED
    BY <2>3, <2>4, MovesKeep DEF Moves
<1>5. CASE ShortCircuit
  BY <1>1, <1>5, LoopKeeps DEF ShortCircuit, MyTurn, Uncalled, pharos, counts
<1>6. CASE NoArguments
  <2>1. Turn /\ rid' = rid + 1 /\ Uncalled
    BY <1>6 DEF NoArguments, MyTurn
  <2>2. QED
    BY <1>1, <2>1, LoopKeeps DEF Uncalled, pharos, counts
<1>7. CASE Call
  <2>1. Turn /\ out' = out /\ mixed' = mixed
    BY <1>7 DEF Call, MyTurn, behind
  <2>2. ~Asks /\ exit = "running"
    BY <2>1 DEF Turn, Asks
  <2>3. Sends(inflight) \/ Raise
    <3>1. LspBound \in BOOLEAN
      BY DEF LspBound, PerLang
    <3>2. Proceeds("call", rid + 1, Of(Current, "call"), LspBound, inflight)
      BY <1>7 DEF Call, Proceeds
    <3>3. QED
      BY <3>1, <3>2, ProceedsMoves
  <2>4. IdsApart => Based(inflight) /\ Fewer /\ ~mixed'
    BY <2>1, <2>2, QuietBase, OutUnchanged DEF PassInv
  <2>5. QED
    BY <2>3, <2>4, MovesKeep DEF Moves
<1>8. CASE Receive
  BY <1>8, ReceiveKeeps
<1>9. CASE Nothing
  BY <1>9, NothingKeeps
<1>10. CASE Report
  BY <1>1, <1>10, LoopKeeps DEF Report, ids, pharos, counts
<1>11. CASE Die
  BY <1>11, DieKeeps
<1>12. CASE \E m \in inflight : Answer(m)
  BY <1>12, AnswerKeeps
<1>13. CASE UNCHANGED vars
  <2>1. /\ opt' = opt /\ plan' = plan /\ exit' = exit /\ rid' = rid /\ poll_rid' = poll_rid
        /\ waiting' = waiting /\ inflight' = inflight /\ out' = out /\ mixed' = mixed
    BY <1>13 DEF vars
  <2>2. Asks' = Asks /\ Awaited' = Awaited /\ AwaitedLsp' = AwaitedLsp /\ IdsApart' = IdsApart
    BY <2>1 DEF Asks, Awaited, AwaitedLsp, Current, LspBound, PerLang, expect_reject, IdsApart
  <2>3. Counters' = Counters /\ IdsUsed' = IdsUsed /\ OneAwaited' = OneAwaited
        /\ LeftIsCancelled' = LeftIsCancelled
    BY <2>1, <2>2 DEF Counters, IdsUsed, OneAwaited, LeftIsCancelled
  <2>4. QED
    BY <2>1, <2>2, <2>3 DEF PassInv
<1>14. QED
  BY <1>2, <1>3, <1>4, <1>5, <1>6, <1>7, <1>8, <1>9, <1>10, <1>11, <1>12, <1>13
  DEF Next, Harness

\* No answer is taken for another request, and over stdio no call to a language
\* server is left that was not answered or cancelled, however late pharos is and
\* whatever the poller leaves behind (the harness's send, cancel and run_pass).
THEOREM AnswersAreNotMixedUp == Spec => []CallsAreSettled
<1>1. PassInv /\ PlanInv => CallsAreSettled
  BY IdsStayApart DEF PassInv, LeftIsCancelled, CallsAreSettled
<1>2. Spec => []PassInv
  BY PassInit, PassNext, PTL DEF Spec
<1>3. QED
  BY <1>1, <1>2, PlanAlways, PTL

-----------------------------------------------------------------------------
(* The report.                                                              *)

\* A language's cells are one block: as many as there are tools, and the cell
\* after them is another language's.
Opens(p, i) == i = 1 \/ p[i - 1].lang # p[i].lang
Block(p, i, n) == /\ i + n - 1 <= Len(p)
                  /\ \A k \in i..(i + n - 1) : p[k].lang = p[i].lang
                  /\ i + n <= Len(p) => p[i + n].lang # p[i].lang
InBlocks(p) == \A i \in 1..Len(p) : PerLang(p[i]) /\ Opens(p, i) => Block(p, i, Len(PER_LANG_TOOLS))

\* Parts that share no language are in blocks together.
LEMMA BlocksJoin ==
  ASSUME NEW S, NEW s \in Seq(S), NEW t \in Seq(S), InBlocks(s), InBlocks(t),
         \A i \in 1..Len(s), j \in 1..Len(t) : s[i].lang # t[j].lang
  PROVE  InBlocks(s \o t)
<1> DEFINE p == s \o t
           m == Len(PER_LANG_TOOLS)
           n == Len(s)
<1>1. /\ Len(p) = n + Len(t) /\ n \in Nat /\ Len(t) \in Nat
      /\ \A k \in 1..n : p[k] = s[k]
      /\ \A k \in 1..Len(t) : p[n + k] = t[k]
  BY Concatenated
<1>2. m \in Nat
  BY DogfoodAssumption
<1> HIDE DEF p, m, n
<1>3. ASSUME NEW i \in 1..n, PerLang(p[i]), Opens(p, i) PROVE Block(p, i, m)
  <2>1. p[i] = s[i] /\ (i # 1 => p[i - 1] = s[i - 1])
    BY <1>1
  <2>2. PerLang(s[i]) /\ Opens(s, i)
    BY <1>3, <2>1 DEF Opens
  <2>3. /\ i + m - 1 <= n
        /\ \A k \in i..(i + m - 1) : s[k].lang = s[i].lang
        /\ i + m <= n => s[i + m].lang # s[i].lang
    BY <2>2 DEF InBlocks, Block, m, n
  <2>4. i + m - 1 <= Len(p)
    BY <1>1, <1>2, <2>3
  <2>5. \A k \in i..(i + m - 1) : p[k].lang = p[i].lang
    BY <1>1, <1>2, <2>1, <2>3
  <2>6. ASSUME i + m <= Len(p) PROVE p[i + m].lang # p[i].lang
    <3>1. CASE i + m <= n
      BY <1>1, <1>2, <2>1, <2>3, <3>1
    <3>2. CASE i + m > n
      <4>1. i \in Nat /\ i + m - 1 <= n /\ i + m <= Len(p) /\ i + m > n /\ Len(p) = n + Len(t)
        BY <1>1, <2>3, <2>6, <3>2
      <4>2. i + m = n + 1 /\ Len(t) >= 1
        BY <1>1, <1>2, <4>1
      <4>3. 1 \in 1..Len(t)
        BY <1>1, <4>2
      <4>4. p[i + m] = t[1]
        BY <1>1, <4>2, <4>3
      <4>5. s[i].lang # t[1].lang
        BY <4>3 DEF n
      <4>6. QED
        BY <2>1, <4>4, <4>5
    <3>3. QED
      BY <1>1, <1>2, <3>1, <3>2
  <2>7. QED
    BY <2>4, <2>5, <2>6 DEF Block
<1>4. ASSUME NEW j \in 1..Len(t), PerLang(p[n + j]), Opens(p, n + j) PROVE Block(p, n + j, m)
  <2>1. p[n + j] = t[j] /\ (j # 1 => p[n + j - 1] = t[j - 1])
    <3>1. j # 1 => j - 1 \in 1..Len(t) /\ n + j - 1 = n + (j - 1)
      BY <1>1
    <3>2. QED
      BY <1>1, <3>1
  <2>2. PerLang(t[j]) /\ Opens(t, j)
    BY <1>1, <1>4, <2>1 DEF Opens
  <2>3. /\ j + m - 1 <= Len(t)
        /\ \A k \in j..(j + m - 1) : t[k].lang = t[j].lang
        /\ j + m <= Len(t) => t[j + m].lang # t[j].lang
    BY <2>2 DEF InBlocks, Block, m
  <2>4. n + j + m - 1 <= Len(p)
    BY <1>1, <1>2, <2>3
  <2>5. \A k \in (n + j)..(n + j + m - 1) : p[k].lang = p[n + j].lang
    <3>1. SUFFICES ASSUME NEW k \in (n + j)..(n + j + m - 1) PROVE p[k].lang = p[n + j].lang
      OBVIOUS
    <3>2. k - n \in j..(j + m - 1) /\ k - n \in 1..Len(t) /\ k = n + (k - n)
      <4>1. j + m - 1 <= Len(t)
        BY <2>3
      <4>2. QED
        BY <1>1, <1>2, <4>1
    <3>3. p[k] = t[k - n]
      BY <1>1, <3>2
    <3>4. QED
      BY <2>1, <2>3, <3>2, <3>3
  <2>6. ASSUME n + j + m <= Len(p) PROVE p[n + j + m].lang # p[n + j].lang
    <3>1. j + m \in 1..Len(t) /\ n + j + m = n + (j + m)
      BY <1>1, <1>2, <2>6
    <3>2. p[n + j + m] = t[j + m]
      BY <1>1, <3>1
    <3>3. QED
      BY <2>1, <2>3, <3>1, <3>2
  <2>7. QED
    BY <2>4, <2>5, <2>6 DEF Block
<1>5. SUFFICES ASSUME NEW i \in 1..Len(p), PerLang(p[i]), Opens(p, i) PROVE Block(p, i, m)
  BY DEF InBlocks, p, m
<1>6. CASE i <= n
  BY <1>1, <1>3, <1>5, <1>6
<1>7. CASE i > n
  <2>1. i - n \in 1..Len(t) /\ i = n + (i - n)
    BY <1>1, <1>7
  <2>2. Block(p, n + (i - n), m)
    <3> DEFINE j == i - n
    <3>1. j \in 1..Len(t) /\ i = n + j
      BY <2>1
    <3> HIDE DEF j
    <3>2. QED
      BY <1>4, <1>5, <3>1 DEF j
  <2>3. QED
    BY <2>1, <2>2
<1>8. QED
  BY <1>1, <1>6, <1>7

\* And no cell of a language is there twice.
OnceEach(p) == \A i, j \in 1..Len(p) : PerLang(p[i]) /\ p[i] = p[j] => i = j
Neat(p) == InBlocks(p) /\ OnceEach(p)

LEMMA NeatJoin ==
  ASSUME NEW S, NEW s \in Seq(S), NEW t \in Seq(S), Neat(s), Neat(t),
         \A i \in 1..Len(s), j \in 1..Len(t) : s[i].lang # t[j].lang
  PROVE  Neat(s \o t)
<1> DEFINE p == s \o t
           n == Len(s)
<1>1. /\ Len(p) = n + Len(t) /\ n \in Nat /\ Len(t) \in Nat
      /\ \A k \in 1..n : p[k] = s[k]
      /\ \A k \in 1..Len(t) : p[n + k] = t[k]
  BY Concatenated
<1>2. InBlocks(p)
  BY BlocksJoin DEF Neat
<1> HIDE DEF p
<1>3. \A i \in 1..Len(p) : i \in 1..n \/ (i - n \in 1..Len(t) /\ p[i] = t[i - n])
  <2>1. SUFFICES ASSUME NEW i \in 1..Len(p), i \notin 1..n PROVE i - n \in 1..Len(t) /\ p[i] = t[i - n]
    OBVIOUS
  <2>2. i - n \in 1..Len(t) /\ n + (i - n) = i
    BY <1>1, <2>1
  <2>3. QED
    BY <1>1, <2>2
<1>4. OnceEach(p)
  <2>1. SUFFICES ASSUME NEW i \in 1..Len(p), NEW j \in 1..Len(p), PerLang(p[i]), p[i] = p[j] PROVE i = j
    BY DEF OnceEach
  <2>2. CASE i \in 1..n /\ j \in 1..n
    BY <1>1, <2>1, <2>2 DEF Neat, OnceEach
  <2>3. CASE i \notin 1..n /\ j \notin 1..n
    <3>1. i - n \in 1..Len(t) /\ j - n \in 1..Len(t) /\ PerLang(t[i - n]) /\ t[i - n] = t[j - n]
      BY <1>3, <2>1, <2>3
    <3>2. i - n = j - n
      BY <3>1 DEF Neat, OnceEach
    <3>3. QED
      BY <1>1, <3>2
  <2>4. CASE i \in 1..n /\ j \notin 1..n
    <3>1. p[i] = s[i] /\ j - n \in 1..Len(t) /\ p[j] = t[j - n]
      BY <1>1, <1>3, <2>4
    <3>2. QED
      BY <2>1, <2>4, <3>1
  <2>5. CASE i \notin 1..n /\ j \in 1..n
    <3>1. p[j] = s[j] /\ i - n \in 1..Len(t) /\ p[i] = t[i - n]
      BY <1>1, <1>3, <2>5
    <3>2. QED
      BY <2>1, <2>5, <3>1
  <2>6. QED
    BY <2>2, <2>3, <2>4, <2>5
<1>5. QED
  BY <1>2, <1>4 DEF Neat, p

\* What is of no language is neat, and so are the cells of one.
LEMMA NoLanguage ==
  ASSUME NEW L, NEW T, NEW s \in Seq([lang : L, tool : T]), L \cap Languages = {}
  PROVE  Neat(s)
<1>1. \A i \in 1..Len(s) : s[i].lang \in L
  <2> DEFINE A == [lang : L, tool : T]
  <2>1. \A a \in A : a.lang \in L
    OBVIOUS
  <2>2. s \in Seq(A)
    OBVIOUS
  <2> HIDE DEF A
  <2>3. \A i \in 1..Len(s) : s[i] \in A
    BY <2>2
  <2>4. QED
    BY <2>1, <2>3
<1>2. QED
  BY <1>1 DEF Neat, OnceEach, InBlocks, PerLang

LEMMA OneBlock ==
  ASSUME NEW l
  PROVE  InBlocks(Cells(l, PER_LANG_TOOLS))
<1> DEFINE b == Cells(l, PER_LANG_TOOLS)
           m == Len(PER_LANG_TOOLS)
<1>1. m \in Nat
  BY DogfoodAssumption
<1>2. Len(b) = m /\ \A i \in 1..m : b[i].lang = l
  BY <1>1 DEF Cells, Cell
<1> HIDE DEF b, m
<1>3. SUFFICES ASSUME NEW i \in 1..m, Opens(b, i) PROVE Block(b, i, m)
  BY <1>2 DEF InBlocks, b, m
<1>4. i = 1
  <2>1. i # 1 => i - 1 \in 1..m
    BY <1>1
  <2>2. QED
    BY <1>2, <1>3, <2>1 DEF Opens
<1>5. QED
  BY <1>1, <1>2, <1>4 DEF Block

LEMMA OneIsNeat ==
  ASSUME NEW l
  PROVE  Neat(Cells(l, PER_LANG_TOOLS))
<1> DEFINE b == Cells(l, PER_LANG_TOOLS)
<1>1. PER_LANG_TOOLS \in Seq(STRING)
  BY DogfoodAssumption
<1>2. \A i, j \in 1..Len(PER_LANG_TOOLS) : PER_LANG_TOOLS[i] = PER_LANG_TOOLS[j] => i = j
  BY DogfoodAssumption
<1>3. Len(b) = Len(PER_LANG_TOOLS) /\ \A i \in 1..Len(PER_LANG_TOOLS) : b[i].tool = PER_LANG_TOOLS[i]
  BY <1>1 DEF Cells, Cell
<1> HIDE DEF b
<1>4. OnceEach(b)
  BY <1>2, <1>3 DEF OnceEach
<1>5. QED
  BY <1>4, OneBlock DEF Neat, b

\* The blocks of the chosen languages, one after another: no two share a language.
LEMMA BlocksFlatten ==
  ASSUME NEW o
  PROVE  Neat(FlattenSeq(Blocks(o)))
<1> DEFINE ss == Blocks(o)
           n == Len(TARGETS)
           A == [lang : Languages, tool : STRING]
<1>1. n \in Nat /\ PER_LANG_TOOLS \in Seq(STRING)
  BY DogfoodAssumption
<1>2. /\ ss \in Seq(Seq(A)) /\ Len(ss) = n
      /\ \A k \in 1..n : ss[k] = IF k \in Chosen(o) THEN Cells(TARGETS[k].id, PER_LANG_TOOLS) ELSE <<>>
  <2>1. ss \in Seq(Seq(A))
    BY PartsAre
  <2>2. /\ DOMAIN ss = 1..n
        /\ \A k \in 1..n : ss[k] = IF k \in Chosen(o) THEN Cells(TARGETS[k].id, PER_LANG_TOOLS) ELSE <<>>
    BY DEF Blocks
  <2> HIDE DEF ss, A
  <2>3. Len(ss) = n
    BY <1>1, <2>1, <2>2
  <2>4. QED
    BY <2>1, <2>2, <2>3
<1> DEFINE Ok(k) == /\ Neat(ss[k]) /\ ss[k] \in Seq(A)
                    /\ \A i \in 1..Len(ss[k]) : ss[k][i].lang = TARGETS[k].id
<1>3. ASSUME NEW k \in 1..n PROVE Ok(k)
  <2>0. ss[k] \in Seq(A)
    BY <1>1, <1>2
  <2>1. CASE k \in Chosen(o)
    <3>1. ss[k] = Cells(TARGETS[k].id, PER_LANG_TOOLS)
      BY <1>2, <2>1
    <3>2. \A i \in 1..Len(ss[k]) : ss[k][i].lang = TARGETS[k].id
      BY <1>1, <3>1 DEF Cells, Cell
    <3>3. QED
      BY <2>0, <3>1, <3>2, OneIsNeat
  <2>2. CASE k \notin Chosen(o)
    <3>1. ss[k] = <<>>
      BY <1>2, <2>2
    <3>2. \A i \in 1..Len(<<>>) : FALSE
      OBVIOUS
    <3>3. QED
      BY <2>0, <3>1, <3>2 DEF Neat, OnceEach, InBlocks
  <2>3. QED
    BY <2>1, <2>2
<1> HIDE DEF ss, A
<1>4. CASE n = 0
  <2>1. FlattenSeq(ss) = <<>> /\ \A i \in 1..Len(<<>>) : FALSE
    BY <1>2, <1>4 DEF FlattenSeq
  <2>2. QED
    BY <2>1 DEF Neat, OnceEach, InBlocks, ss
<1>5. CASE n # 0
  <2>1. Len(ss) \in Nat \ {0}
    BY <1>1, <1>2, <1>5
  <2>2. PICK g : Flattens(ss, Len(ss), g) /\ FlattenSeq(ss) = g[Len(ss)]
    BY <2>1, FlattenDefined
  <2>3. \A i \in 1..n : g[i] = IF i = 1 THEN ss[i] ELSE g[i - 1] \o ss[i]
    BY <1>2, <2>2 DEF Flattens
  <2> DEFINE Of1(k) == \A i \in 1..Len(g[k]) : \E j \in 1..k : g[k][i].lang = TARGETS[j].id
             T == {0} \cup {k \in 1..n : g[k] \in Seq(A) /\ Neat(g[k]) /\ Of1(k)}
  <2>4. ASSUME NEW k \in 1..n, k - 1 \in T PROVE k \in T
    <3>1. Ok(k)
      BY <1>3
    <3>2. CASE k = 1
      <4>1. g[k] = ss[k]
        BY <2>3, <3>2
      <4>2. Of1(k)
        BY <3>1, <3>2, <4>1
      <4>3. QED
        BY <3>1, <4>1, <4>2
    <3>3. CASE k # 1
      <4>1. g[k] = g[k - 1] \o ss[k]
        BY <2>3, <3>3
      <4>2. g[k - 1] \in Seq(A) /\ Neat(g[k - 1]) /\ Of1(k - 1) /\ k - 1 \in 1..n
        BY <2>4, <3>3
      <4> DEFINE s == g[k - 1]
                 t == ss[k]
      <4>3. s \in Seq(A) /\ t \in Seq(A) /\ Neat(s) /\ Neat(t) /\ g[k] = s \o t
        BY <3>1, <4>1, <4>2
      <4>4. \A i \in 1..Len(s) : \E j \in 1..(k - 1) : s[i].lang = TARGETS[j].id
        BY <4>2
      <4>5. \A i \in 1..Len(t) : t[i].lang = TARGETS[k].id
        BY <3>1
      <4> HIDE DEF s, t, T, Ok
      <4>6. \A j \in 1..(k - 1) : TARGETS[j].id # TARGETS[k].id
        BY <1>1, <4>2, DogfoodAssumption
      <4>7. Neat(s \o t)
        <5>1. \A i \in 1..Len(s), j \in 1..Len(t) : s[i].lang # t[j].lang
          BY <4>4, <4>5, <4>6
        <5>2. QED
          BY <4>3, <5>1, NeatJoin
      <4>8. s \o t \in Seq(A)
        BY <4>3
      <4>9. ASSUME NEW i \in 1..Len(s \o t) PROVE \E j \in 1..k : (s \o t)[i].lang = TARGETS[j].id
        <5>1. /\ Len(s \o t) = Len(s) + Len(t) /\ Len(s) \in Nat /\ Len(t) \in Nat
              /\ \A m \in 1..Len(s) : (s \o t)[m] = s[m]
              /\ \A m \in 1..Len(t) : (s \o t)[Len(s) + m] = t[m]
          BY <4>3, Concatenated
        <5>2. CASE i <= Len(s)
          <6>1. i \in 1..Len(s)
            BY <5>1, <5>2
          <6>2. PICK j \in 1..(k - 1) : s[i].lang = TARGETS[j].id
            BY <4>4, <6>1
          <6>3. j \in 1..k
            OBVIOUS
          <6>4. QED
            BY <5>1, <6>1, <6>2, <6>3
        <5>3. CASE i > Len(s)
          <6>1. i - Len(s) \in 1..Len(t) /\ i = Len(s) + (i - Len(s))
            BY <5>1, <5>3
          <6>2. (s \o t)[i] = t[i - Len(s)]
            BY <5>1, <6>1
          <6>3. QED
            BY <4>5, <6>1, <6>2
        <5>4. QED
          BY <5>1, <5>2, <5>3
      <4>10. Of1(k)
        BY <4>3, <4>9
      <4>11. g[k] \in Seq(A) /\ Neat(g[k])
        BY <4>3, <4>7, <4>8
      <4>12. QED
        BY <4>10, <4>11 DEF T
    <3>4. QED
      BY <3>2, <3>3
  <2>5. 0 \in T
    OBVIOUS
  <2> HIDE DEF T
  <2>6. \A i \in 0..n : i \in T
    BY <1>1, <2>4, <2>5, SetInduction
  <2>7. n \in T
    BY <1>1, <2>6
  <2>8. Neat(g[n])
    BY <1>5, <2>7 DEF T
  <2>9. QED
    BY <1>2, <2>2, <2>8 DEF ss
<1>6. QED
  BY <1>4, <1>5

LEMMA PlanIsNeat ==
  ASSUME NEW o
  PROVE  Neat(Plan(o))
<1> DEFINE A == [lang : Languages, tool : STRING]
           G == [lang : {"(global)"}, tool : ToSet(GLOBAL_TOOLS)]
           M == [lang : {"(memory)"}, tool : MemoryTools]
           langs == FlattenSeq(Blocks(o))
           rest == langs \o GlobalBlock
<1>1. /\ \A a \in A : a.lang \in Languages
      /\ \A a \in G : a.lang = "(global)"
      /\ \A a \in M : a.lang = "(memory)"
  OBVIOUS
<1>2. "(global)" \notin Languages /\ "(memory)" \notin Languages
  BY DogfoodAssumption DEF Languages
<1>3. langs \in Seq(A) /\ Neat(langs)
  <2>1. Blocks(o) \in Seq(Seq(A))
    BY PartsAre
  <2> HIDE DEF A
  <2>2. QED
    BY <2>1, FlattenIsSeq, BlocksFlatten
<1>4. /\ GlobalBlock \in Seq(G) /\ Neat(GlobalBlock)
      /\ MemoryBlock \in Seq(M) /\ Neat(MemoryBlock)
  <2>1. {"(global)"} \cap Languages = {} /\ {"(memory)"} \cap Languages = {}
    BY <1>2
  <2>2. QED
    BY <2>1, PartsAre, NoLanguage
<1>5. <<>> \in Seq(M) /\ <<>> \in Seq(A \cup G) /\ Neat(<<>>)
  <2>1. \A i \in 1..Len(<<>>) : FALSE
    OBVIOUS
  <2>2. Neat(<<>>)
    BY <2>1 DEF Neat, OnceEach, InBlocks
  <2> HIDE DEF A, G, M
  <2>3. <<>> \in Seq(M) /\ <<>> \in Seq(A \cup G)
    OBVIOUS
  <2>4. QED
    BY <2>2, <2>3
<1> HIDE DEF A, G, M, langs
<1>6. rest \in Seq(A \cup G) /\ Neat(rest)
  <2>1. langs \in Seq(A \cup G) /\ GlobalBlock \in Seq(A \cup G)
    BY <1>3, <1>4
  <2>2. /\ \A i \in 1..Len(langs) : langs[i] \in A
        /\ \A i \in 1..Len(GlobalBlock) : GlobalBlock[i] \in G
    BY <1>3, <1>4
  <2>3. \A i \in 1..Len(langs), j \in 1..Len(GlobalBlock) : langs[i].lang # GlobalBlock[j].lang
    BY <1>1, <1>2, <2>2
  <2>4. QED
    BY <1>3, <1>4, <2>1, <2>3, NeatJoin
<1> HIDE DEF rest
<1>7. ASSUME NEW s \in Seq(M), NEW t \in Seq(A \cup G), Neat(s), Neat(t)
      PROVE  Neat(s \o t)
  <2>1. (\A i \in 1..Len(s) : s[i] \in M) /\ (\A j \in 1..Len(t) : t[j] \in A \cup G)
    OBVIOUS
  <2>2. \A i \in 1..Len(s), j \in 1..Len(t) : s[i].lang # t[j].lang
    <3>1. \A a \in M, b \in A \cup G : a.lang # b.lang
      BY <1>1, <1>2
    <3>2. QED
      BY <2>1, <3>1
  <2>3. s \in Seq(M \cup A \cup G) /\ t \in Seq(M \cup A \cup G)
    OBVIOUS
  <2>4. QED
    BY <1>7, <2>2, <2>3, NeatJoin
<1>8. \E s \in Seq(M), t \in Seq(A \cup G) : Plan(o) = s \o t /\ Neat(s) /\ Neat(t)
  BY <1>4, <1>5, <1>6, PlanParts DEF rest, langs
<1>9. QED
  BY <1>7, <1>8

\* The report and what is left of the plan are the plan, and a language that is
\* left out is met at its first cell.
OnPlan(rs, p, whole) ==
  /\ Len(rs) \in Nat /\ Len(p) \in Nat /\ Len(rs) + Len(p) = Len(whole)
  /\ \A i \in 1..Len(rs) : Cell(rs[i].lang, rs[i].tool) = whole[i]
  /\ \A i \in 1..Len(p) : p[i] = whole[Len(rs) + i]
MetFirst(p, whole, n) ==
  p # <<>> /\ p[1].lang \in Languages /\ Absent(p[1].lang) => Opens(whole, n + 1)
Reported ==
  /\ exit \in {"0", "1"} => plan = <<>>
  /\ OnPlan(rows, plan, Plan(opt)) /\ MetFirst(plan, Plan(opt), Len(rows))

\* What is called is of the language under way; only a call to its server is made again.
InTurn ==
  /\ now \in Languages => ~Absent(now)
  /\ Asks => now = Current.lang
  /\ waiting.for \in {"bump", "retry"} => LspBound

\* A tool that should not be there is refused, or leaks, or its answer cannot be read.
Refusals == {"not enabled", "not found", "content", "silence"}
Refused ==
  waiting.for = "call" /\ expect_reject(Current.tool) =>
    \A i \in 1..Len(out) : out[i].rid = waiting.rid => out[i].kind \in Refusals

\* The timeouts of l among the first m of the rows rs, since the last plain success.
Timed(rs, m, l) == {j \in 1..m : /\ rs[j].lang = l /\ TimeoutRow(rs[j])
                                 /\ \A k \in j + 1..m : ~PlainPass(rs[k])}
ShortEarned(rs, i) ==
  rs[i].note = "short" => BROKEN_LSP_THRESHOLD <= Cardinality(Timed(rs, i - 1, rs[i].lang))
ShortsEarned ==
  /\ timeouts <= Cardinality(Timed(rows, Len(rows), now))
  /\ now \notin Languages => timeouts = 0
  /\ \A i \in 1..Len(rows) : ShortEarned(rows, i)

\* What is prepared has been got from a call that passed.
Uncalls == {"short", "skipped", "no arguments"}
PassedIn(rs, l, t, n) == \E j \in 1..n : rs[j].lang = l /\ rs[j].tool = t /\ rs[j].ok
ChainEarned(rs, i) ==
  \A t \in DOMAIN Gives :
    rs[i].tool \in DOMAIN Needs /\ Needs[rs[i].tool] = Gives[t] /\ rs[i].note \notin Uncalls
      => PassedIn(rs, rs[i].lang, t, i - 1)
HasItem == Current.tool \in DOMAIN Needs => Needs[Current.tool] \in prepared
ChainsEarned ==
  /\ \A t \in DOMAIN Gives : Gives[t] \in prepared => PassedIn(rows, now, t, Len(rows))
  /\ Asks => HasItem
  /\ \A i \in 1..Len(rows) : ChainEarned(rows, i)

\* What is said only of a pass.
Passes == {"gap", "filtered", "retried"}
NoteEarned(r) == r.lang \in Languages /\ r.note \in Passes => r.ok
NotesEarned == \A i \in 1..Len(rows) : NoteEarned(rows[i])

EarnedInv == Reported /\ InTurn /\ Refused /\ ShortsEarned /\ ChainsEarned /\ NotesEarned

\* Rows are only added.
Longer(rs, qs) == /\ Len(rs) \in Nat /\ Len(qs) \in Nat /\ Len(rs) <= Len(qs)
                  /\ \A i \in 1..Len(rs) : qs[i] = rs[i]

LEMMA TimedStays ==
  ASSUME NEW rs, NEW qs, Longer(rs, qs), NEW m \in Nat, m <= Len(rs), NEW l
  PROVE  Timed(qs, m, l) = Timed(rs, m, l)
<1> DEFINE n == Len(rs)
<1>1. n \in Nat /\ m <= n /\ \A i \in 1..n : qs[i] = rs[i]
  BY DEF Longer
<1> HIDE DEF n
<1>2. \A i \in 1..m : qs[i] = rs[i]
  BY <1>1
<1>3. \A j \in 1..m : \A k \in (j + 1)..m : k \in 1..m
  OBVIOUS
<1>4. ASSUME NEW j \in 1..m
      PROVE  (\A k \in j + 1..m : ~PlainPass(qs[k])) <=> (\A k \in j + 1..m : ~PlainPass(rs[k]))
  BY <1>2, <1>3
<1>5. QED
  BY <1>2, <1>4 DEF Timed

LEMMA FiniteTimed ==
  ASSUME NEW rs, NEW m \in Nat, NEW l
  PROVE  IsFiniteSet(Timed(rs, m, l))
<1>1. Timed(rs, m, l) \subseteq 1..m
  BY DEF Timed
<1>2. IsFiniteSet(1..m)
  BY FS_Interval
<1>3. QED
  BY <1>1, <1>2, FS_Subset

LEMMA TimedGrows ==
  ASSUME NEW rs, NEW qs, Longer(rs, qs), NEW l,
         \A k \in (Len(rs) + 1)..Len(qs) : ~PlainPass(qs[k])
  PROVE  /\ Timed(rs, Len(rs), l) \subseteq Timed(qs, Len(qs), l)
         /\ Cardinality(Timed(rs, Len(rs), l)) <= Cardinality(Timed(qs, Len(qs), l))
         /\ Cardinality(Timed(rs, Len(rs), l)) \in Nat /\ Cardinality(Timed(qs, Len(qs), l)) \in Nat
         /\ IsFiniteSet(Timed(rs, Len(rs), l))
<1> DEFINE n == Len(rs)
           m == Len(qs)
           X == Timed(rs, n, l)
           Y == Timed(qs, m, l)
<1>1. n \in Nat /\ m \in Nat /\ n <= m /\ \A i \in 1..n : qs[i] = rs[i]
  BY DEF Longer
<1> HIDE DEF n, m
<1>2. ASSUME NEW j \in X PROVE j \in Y
  <2>1. j \in 1..n /\ rs[j].lang = l /\ TimeoutRow(rs[j]) /\ \A k \in j + 1..n : ~PlainPass(rs[k])
    BY DEF Timed
  <2>2. j \in 1..m /\ qs[j] = rs[j]
    BY <1>1, <2>1
  <2>3. ASSUME NEW k \in j + 1..m PROVE ~PlainPass(qs[k])
    <3>1. CASE k <= n
      <4>1. k \in 1..n /\ k \in j + 1..n
        BY <1>1, <2>1, <3>1
      <4>2. QED
        BY <1>1, <2>1, <4>1
    <3>2. CASE k > n
      <4>1. k \in (n + 1)..m
        BY <1>1, <2>1, <3>2
      <4>2. QED
        BY <4>1 DEF n, m
    <3>3. QED
      BY <1>1, <2>1, <3>1, <3>2
  <2>4. QED
    BY <2>1, <2>2, <2>3 DEF Timed
<1>3. IsFiniteSet(X) /\ IsFiniteSet(Y)
  BY <1>1, FiniteTimed
<1> HIDE DEF X, Y
<1>4. X \subseteq Y
  BY <1>2
<1>5. Cardinality(X) \in Nat /\ Cardinality(Y) \in Nat /\ Cardinality(X) <= Cardinality(Y)
  BY <1>3, <1>4, FS_Subset, FS_CardinalityType
<1>6. QED
  BY <1>3, <1>4, <1>5 DEF X, Y, n, m

\* One more timeout.
LEMMA TimedAdds ==
  ASSUME NEW rs, NEW qs, Longer(rs, qs), NEW l, Len(qs) = Len(rs) + 1, ~PlainPass(qs[Len(qs)]),
         TimeoutRow(qs[Len(qs)]), qs[Len(qs)].lang = l
  PROVE  Cardinality(Timed(rs, Len(rs), l)) + 1 <= Cardinality(Timed(qs, Len(qs), l))
<1> DEFINE n == Len(rs)
           m == Len(qs)
           X == Timed(rs, n, l)
           Y == Timed(qs, m, l)
<1>1. n \in Nat /\ m = n + 1
  BY DEF Longer
<1>2. \A k \in (n + 1)..m : ~PlainPass(qs[k])
  BY <1>1
<1>3. X \subseteq Y /\ IsFiniteSet(X) /\ Cardinality(X) \in Nat
  BY <1>2, TimedGrows
<1>4. m \notin X
  BY <1>1 DEF Timed
<1>5. m \in Y
  BY <1>1 DEF Timed
<1>6. IsFiniteSet(Y)
  <2>1. m \in Nat
    BY <1>1
  <2>2. QED
    BY <2>1, FiniteTimed
<1> HIDE DEF X, Y, n, m
<1>7. Cardinality(X \cup {m}) = Cardinality(X) + 1
  BY <1>3, <1>4, FS_AddElement
<1>8. Cardinality(X \cup {m}) <= Cardinality(Y)
  BY <1>3, <1>5, <1>6, FS_Subset
<1>9. QED
  BY <1>7, <1>8 DEF X, Y, n, m

\* What the rows so far have shown stays so.
LEMMA OldRows ==
  ASSUME NEW rs, NEW qs, Longer(rs, qs), NEW i \in 1..Len(rs)
  PROVE  /\ ShortEarned(rs, i) => ShortEarned(qs, i)
         /\ ChainEarned(rs, i) => ChainEarned(qs, i)
<1>1. qs[i] = rs[i] /\ i - 1 \in Nat /\ i - 1 <= Len(rs) /\ Len(rs) \in Nat
  BY DEF Longer
<1>2. Timed(qs, i - 1, rs[i].lang) = Timed(rs, i - 1, rs[i].lang)
  BY <1>1, TimedStays
<1>3. \A t : PassedIn(rs, rs[i].lang, t, i - 1) => PassedIn(qs, rs[i].lang, t, i - 1)
  <2>1. \A j \in 1..(i - 1) : j \in 1..Len(rs) /\ qs[j] = rs[j]
    BY <1>1 DEF Longer
  <2>2. QED
    BY <2>1 DEF PassedIn
<1>4. ShortEarned(rs, i) => ShortEarned(qs, i)
  BY <1>1, <1>2 DEF ShortEarned
<1>5. ChainEarned(rs, i) => ChainEarned(qs, i)
  BY <1>1, <1>3 DEF ChainEarned
<1>6. QED
  BY <1>4, <1>5

LEMMA OldPasses ==
  ASSUME NEW rs, NEW qs, Longer(rs, qs), NEW l, NEW t, PassedIn(rs, l, t, Len(rs))
  PROVE  PassedIn(qs, l, t, Len(qs))
<1>1. PICK j \in 1..Len(rs) : rs[j].lang = l /\ rs[j].tool = t /\ rs[j].ok
  BY DEF PassedIn
<1>2. j \in 1..Len(qs) /\ qs[j] = rs[j]
  BY DEF Longer
<1>3. QED
  BY <1>1, <1>2 DEF PassedIn

\* A cell's row, and the plan after it.
LEMMA RowAdded ==
  ASSUME PlanInv, plan # <<>>, NEW ok, NEW note, Record(ok, note)
  PROVE  /\ Longer(rows, rows') /\ Len(rows') = Len(rows) + 1 /\ Len(rows) \in Nat
         /\ rows'[Len(rows')] = Row(Current, ok, note)
         /\ Len(plan) \in Nat \ {0} /\ Len(plan') = Len(plan) - 1 /\ plan' \in Seq(AllCells)
         /\ \A i \in 1..Len(plan') : plan'[i] = plan[i + 1]
         /\ Current = plan[1] /\ Current \in AllCells
<1> DEFINE r == Row(Current, ok, note)
<1>1. rows' = Append(rows, r) /\ plan' = Tail(plan)
  BY DEF Record
<1> HIDE DEF r
<1>2. PICK S : rows \in Seq(S)
  BY DEF PlanInv, RowsInv
<1>3. rows \in Seq(S \cup {r}) /\ r \in S \cup {r}
  BY <1>2
<1>4. OneMore(rows, r, rows') /\ Len(rows) \in Nat
  <2> DEFINE U == S \cup {r}
  <2>1. rows \in Seq(U) /\ r \in U
    BY <1>3
  <2> HIDE DEF U
  <2>2. QED
    BY <1>1, <2>1, AppendedOne
<1>5. /\ Longer(rows, rows') /\ Len(rows') = Len(rows) + 1 /\ rows'[Len(rows')] = r
  BY <1>4 DEF OneMore, Longer
<1>6. plan \in Seq(AllCells) /\ plan # <<>>
  BY DEF PlanInv, CellsInv
<1>7. /\ Len(plan) \in Nat \ {0} /\ Len(plan') = Len(plan) - 1 /\ plan' \in Seq(AllCells)
      /\ \A i \in 1..Len(plan') : plan'[i] = plan[i + 1]
  BY <1>1, <1>6
<1>8. Current = plan[1] /\ Current \in AllCells
  BY <1>6 DEF Current
<1>9. QED
  BY <1>4, <1>5, <1>7, <1>8 DEF r

\* The report goes on along the plan.
LEMMA MovedPlaces ==
  ASSUME NEW m \in Nat, NEW k \in Nat, NEW n \in Nat, n <= k
  PROVE  /\ m + n \in Nat /\ k - n \in Nat /\ (m + n) + (k - n) = m + k
         /\ \A i \in 1..(k - n) : n + i \in 1..k /\ m + (n + i) = (m + n) + i
  OBVIOUS

MovesTo(rs, p, n, qs, q) ==
  /\ n <= Len(p) /\ Longer(rs, qs) /\ Len(qs) = Len(rs) + n
  /\ \A k \in 1..n : Cell(qs[Len(rs) + k].lang, qs[Len(rs) + k].tool) = p[k]
  /\ Len(q) = Len(p) - n /\ \A i \in 1..Len(q) : q[i] = p[n + i]

LEMMA MovedOn ==
  ASSUME NEW rs, NEW p, NEW whole, OnPlan(rs, p, whole), NEW n \in Nat,
         NEW qs, NEW q, MovesTo(rs, p, n, qs, q)
  PROVE  OnPlan(qs, q, whole)
<1> DEFINE m == Len(rs)
<1>0. /\ n <= Len(p) /\ Longer(rs, qs) /\ Len(qs) = Len(rs) + n
      /\ \A k \in 1..n : Cell(qs[Len(rs) + k].lang, qs[Len(rs) + k].tool) = p[k]
      /\ Len(q) = Len(p) - n /\ \A i \in 1..Len(q) : q[i] = p[n + i]
  BY DEF MovesTo
<1>1. /\ m \in Nat /\ Len(p) \in Nat /\ m + Len(p) = Len(whole)
      /\ \A i \in 1..m : Cell(rs[i].lang, rs[i].tool) = whole[i]
      /\ \A i \in 1..Len(p) : p[i] = whole[m + i]
      /\ \A i \in 1..m : qs[i] = rs[i]
  BY <1>0 DEF OnPlan, Longer
<1>2. /\ Len(qs) = m + n /\ Len(q) = Len(p) - n /\ n <= Len(p)
      /\ \A k \in 1..n : Cell(qs[m + k].lang, qs[m + k].tool) = p[k]
  BY <1>0
<1> HIDE DEF m
<1>3. Len(qs) \in Nat /\ Len(q) \in Nat /\ Len(qs) + Len(q) = Len(whole)
  <2>1. m + n \in Nat /\ Len(p) - n \in Nat /\ (m + n) + (Len(p) - n) = m + Len(p)
    BY <1>1, <1>2, MovedPlaces
  <2>2. QED
    BY <1>1, <1>2, <2>1, Zenon
<1>4. ASSUME NEW i \in 1..Len(qs) PROVE Cell(qs[i].lang, qs[i].tool) = whole[i]
  <2>1. CASE i <= m
    <3>1. i \in 1..m
      BY <1>1, <2>1
    <3>2. QED
      BY <1>1, <3>1
  <2>2. CASE i > m
    <3> DEFINE k == i - m
    <3>1. k \in 1..n /\ k \in 1..Len(p) /\ i = m + k
      BY <1>1, <1>2, <2>2
    <3> HIDE DEF k
    <3>2. QED
      BY <1>1, <1>2, <3>1
  <2>3. QED
    BY <1>1, <1>2, <2>1, <2>2
<1>5. ASSUME NEW i \in 1..Len(q) PROVE q[i] = whole[Len(qs) + i]
  <2>1. i \in 1..(Len(p) - n)
    BY <1>2
  <2>2. n + i \in 1..Len(p) /\ m + (n + i) = (m + n) + i
    BY <1>1, <1>2, <2>1, MovedPlaces
  <2>3. q[i] = p[n + i]
    BY <1>0
  <2>4. p[n + i] = whole[(m + n) + i]
    BY <1>1, <2>2, Zenon
  <2>5. QED
    BY <1>2, <2>3, <2>4, Zenon
<1>6. QED
  BY <1>3, <1>4, <1>5 DEF OnPlan

LEMMA RowReported ==
  ASSUME PlanInv, Reported, plan # <<>>, NEW ok, NEW note, Record(ok, note),
         now = Current.lang, now \in Languages => ~Absent(now), opt' = opt, exit' = "running"
  PROVE  Reported'
<1> DEFINE P == Plan(opt)
           n == Len(rows)
           r == Row(Current, ok, note)
<1>1. /\ Longer(rows, rows') /\ Len(rows') = n + 1 /\ n \in Nat /\ rows'[n + 1] = r
      /\ Len(plan) \in Nat \ {0} /\ Len(plan') = Len(plan) - 1
      /\ \A i \in 1..Len(plan') : plan'[i] = plan[i + 1]
      /\ Current = plan[1] /\ Current \in AllCells /\ plan' \in Seq(AllCells)
  <2>1. rows'[Len(rows')] = r /\ Len(rows') = n + 1
    BY RowAdded
  <2>2. QED
    BY <2>1, RowAdded
<1>2. OnPlan(rows, plan, P)
  BY DEF Reported
<1>3. Cell(r.lang, r.tool) = plan[1] /\ r.lang = now
  <2>1. Current = Cell(Current.lang, Current.tool)
    BY <1>1, CellPlaces
  <2>2. r.lang = Current.lang /\ r.tool = Current.tool
    BY DEF Row
  <2>3. QED
    BY <1>1, <2>1, <2>2
<1> HIDE DEF r
<1>4. OnPlan(rows', plan', P)
  <2>1. \A k \in 1..1 : Cell(rows'[Len(rows) + k].lang, rows'[Len(rows) + k].tool) = plan[k]
    BY <1>1, <1>3
  <2>2. \A i \in 1..Len(plan') : plan'[i] = plan[1 + i]
    <3>1. \A i \in 1..Len(plan') : i + 1 = 1 + i
      OBVIOUS
    <3>2. QED
      BY <1>1, <3>1
  <2>3. 1 \in Nat /\ 1 <= Len(plan)
    BY <1>1
  <2>4. MovesTo(rows, plan, 1, rows', plan')
    BY <1>1, <2>1, <2>2, <2>3 DEF MovesTo
  <2> HIDE DEF P
  <2>5. QED
    BY <1>2, <2>3, <2>4, MovedOn
<1>5. ASSUME plan' # <<>>, plan'[1].lang \in Languages, Absent(plan'[1].lang)
      PROVE  Opens(P, n + 2)
  <2>1. Len(plan') \in Nat /\ Len(plan') # 0
    BY <1>1, <1>5
  <2>2. 1 \in 1..Len(plan') /\ 1 \in 1..Len(plan) /\ Len(rows') + 1 = n + 2 /\ n + 2 - 1 = n + 1
    BY <1>1, <2>1
  <2>3. plan'[1] = P[n + 2]
    BY <1>4, <2>2 DEF OnPlan
  <2>4. plan[1] = P[n + 1]
    BY <1>2, <2>2 DEF OnPlan
  <2>5. plan'[1].lang # plan[1].lang
    BY <1>1, <1>5
  <2>6. P[n + 2 - 1].lang # P[n + 2].lang
    BY <2>2, <2>3, <2>4, <2>5
  <2>7. QED
    BY <2>6 DEF Opens
<1>6. MetFirst(plan, Plan(opt), Len(rows))'
  <2>1. Absent(plan[1].lang)' => Absent(plan'[1].lang)
    BY DEF Absent
  <2>2. Len(rows') + 1 = n + 2
    BY <1>1
  <2>3. (plan # <<>> /\ plan[1].lang \in Languages /\ Absent(plan[1].lang) => Opens(Plan(opt), Len(rows) + 1))'
    BY <1>5, <2>1, <2>2
  <2>4. QED
    BY <2>3 DEF MetFirst
<1>7. OnPlan(rows, plan, Plan(opt))'
  BY <1>4
<1>8. QED
  BY <1>6, <1>7 DEF Reported

\* The count of timeouts stays below what the rows show.
CountedRow(r) ==
  \/ timeouts' = 0
  \/ timeouts' = timeouts /\ ~PlainPass(r)
  \/ timeouts' = timeouts + 1 /\ ~PlainPass(r) /\ TimeoutRow(r) /\ r.lang = now

LEMMA RowShorts ==
  ASSUME ShortsEarned, timeouts \in Nat, timeouts' \in Nat, NEW r, now' = now,
         Longer(rows, rows'), Len(rows') = Len(rows) + 1, rows'[Len(rows')] = r,
         CountedRow(r), r.lang = now, now \notin Languages => timeouts' = 0,
         r.note = "short" => timeouts >= BROKEN_LSP_THRESHOLD
  PROVE  ShortsEarned'
<1> DEFINE n == Len(rows)
           C == Cardinality(Timed(rows, n, now))
           D == Cardinality(Timed(rows', Len(rows'), now))
<1>1. n \in Nat /\ timeouts <= C /\ BROKEN_LSP_THRESHOLD \in Nat
  BY DogfoodAssumption DEF ShortsEarned, Longer
<1>2. C \in Nat /\ D \in Nat
  <2>1. Len(rows') \in Nat
    BY <1>1
  <2>2. QED
    BY <1>1, <2>1, FiniteTimed, FS_CardinalityType
<1>3. timeouts' <= D
  <2>1. CASE timeouts' = 0
    BY <1>2, <2>1
  <2>2. CASE timeouts' = timeouts /\ ~PlainPass(r)
    <3>1. \A k \in (Len(rows) + 1)..Len(rows') : ~PlainPass(rows'[k])
      BY <1>1, <2>2
    <3>2. C <= D
      BY <3>1, TimedGrows
    <3>3. QED
      BY <1>1, <1>2, <2>2, <3>2
  <2>3. CASE timeouts' = timeouts + 1 /\ ~PlainPass(r) /\ TimeoutRow(r) /\ r.lang = now
    <3>1. C + 1 <= D
      BY <2>3, TimedAdds
    <3>2. QED
      BY <1>1, <1>2, <2>3, <3>1
  <2>4. QED
    BY <2>1, <2>2, <2>3 DEF CountedRow
<1>4. ASSUME NEW i \in 1..Len(rows') PROVE ShortEarned(rows', i)
  <2>1. CASE i \in 1..n
    BY <2>1, OldRows DEF ShortsEarned
  <2>2. CASE i \notin 1..n
    <3>1. i = Len(rows') /\ i - 1 = n
      BY <1>1, <2>2
    <3>2. Timed(rows', n, now) = Timed(rows, n, now)
      BY <1>1, TimedStays
    <3>3. r.note = "short" => BROKEN_LSP_THRESHOLD <= C
      <4>1. timeouts >= BROKEN_LSP_THRESHOLD => BROKEN_LSP_THRESHOLD <= C
        BY <1>1, <1>2
      <4>2. QED
        BY <4>1
    <3>4. QED
      BY <3>1, <3>2, <3>3 DEF ShortEarned
  <2>3. QED
    BY <2>1, <2>2
<1>5. QED
  BY <1>3, <1>4 DEF ShortsEarned

\* An item that is prepared has its row.
LEMMA RowChains ==
  ASSUME ChainsEarned, NEW ok, NEW note, HasItem \/ note \in Uncalls, now' = now,
         Longer(rows, rows'), Len(rows') = Len(rows) + 1, rows'[Len(rows')] = Row(Current, ok, note),
         Current.lang = now, ~Asks',
         \A t \in DOMAIN Gives : Gives[t] \in prepared' => Gives[t] \in prepared \/ (t = Current.tool /\ ok)
  PROVE  ChainsEarned'
<1> DEFINE n == Len(rows)
           r == Row(Current, ok, note)
<1>1. n \in Nat /\ Len(rows') \in 1..Len(rows') /\ Len(rows') - 1 = n
  BY DEF Longer
<1>2. r.lang = now /\ r.tool = Current.tool /\ r.ok = ok /\ r.note = note
  BY DEF Row
<1> HIDE DEF r
<1>3. ASSUME NEW t \in DOMAIN Gives, Gives[t] \in prepared'
      PROVE  PassedIn(rows', now, t, Len(rows'))
  <2>1. CASE Gives[t] \in prepared
    BY <2>1, OldPasses DEF ChainsEarned
  <2>2. CASE t = Current.tool /\ ok
    BY <1>1, <1>2, <2>2 DEF PassedIn, r
  <2>3. QED
    BY <1>3, <2>1, <2>2
<1>4. ASSUME NEW i \in 1..Len(rows') PROVE ChainEarned(rows', i)
  <2>1. CASE i \in 1..n
    BY <2>1, OldRows DEF ChainsEarned
  <2>2. CASE i \notin 1..n
    <3>1. i = Len(rows') /\ i - 1 = n
      BY <1>1, <2>2
    <3>2. rows'[i] = r
      BY <3>1 DEF r
    <3>3. SUFFICES ASSUME NEW t \in DOMAIN Gives, r.tool \in DOMAIN Needs,
                          Needs[r.tool] = Gives[t], r.note \notin Uncalls
                   PROVE  PassedIn(rows', now, t, n)
      BY <1>2, <3>1, <3>2 DEF ChainEarned
    <3>4. Gives[t] \in prepared
      BY <1>2, <3>3 DEF HasItem
    <3>5. PassedIn(rows, now, t, n)
      BY <3>4 DEF ChainsEarned
    <3>6. \A j \in 1..n : rows'[j] = rows[j]
      BY DEF Longer
    <3>7. QED
      BY <3>5, <3>6 DEF PassedIn
  <2>3. QED
    BY <2>1, <2>2
<1>5. QED
  BY <1>3, <1>4 DEF ChainsEarned

LEMMA RowsNoted ==
  ASSUME NotesEarned, Longer(rows, rows'),
         \A k \in (Len(rows) + 1)..Len(rows') : NoteEarned(rows'[k])
  PROVE  NotesEarned'
<1>1. /\ Len(rows) \in Nat /\ Len(rows') \in Nat /\ \A i \in 1..Len(rows) : rows'[i] = rows[i]
  BY DEF Longer
<1>2. \A i \in 1..Len(rows') : i \in 1..Len(rows) \/ i \in (Len(rows) + 1)..Len(rows')
  BY <1>1
<1>3. \A i \in 1..Len(rows') : NoteEarned(rows'[i])
  BY <1>1, <1>2 DEF NotesEarned
<1>4. QED
  BY <1>3 DEF NotesEarned, NoteEarned

\* A cell that gets its row.
LEMMA RowEarned ==
  ASSUME PlanInv, PlanInv', EarnedInv, plan # <<>>, now = Current.lang, exit = "running",
         NEW ok, NEW note, Record(ok, note), opt' = opt, now' = now, exit' = exit, waiting'.for = "none",
         CountedRow(Row(Current, ok, note)), now \notin Languages => timeouts' = 0,
         note = "short" => timeouts >= BROKEN_LSP_THRESHOLD, HasItem \/ note \in Uncalls,
         PerLang(Current) /\ note \in Passes => ok,
         \A t \in DOMAIN Gives : Gives[t] \in prepared' => Gives[t] \in prepared \/ (t = Current.tool /\ ok)
  PROVE  EarnedInv'
<1> DEFINE r == Row(Current, ok, note)
<1>1. r.lang = now /\ r.note = note
  BY DEF Row
<1>2. Longer(rows, rows') /\ Len(rows') = Len(rows) + 1 /\ rows'[Len(rows')] = r
  BY RowAdded
<1>3. timeouts \in Nat /\ timeouts' \in Nat
  BY DEF PlanInv, LanguageInv
<1>4. ~Asks'
  BY DEF Asks
<1>5. Reported'
  BY RowReported DEF EarnedInv, InTurn
<1>6. ChainsEarned'
  BY <1>2, <1>4, RowChains DEF EarnedInv
<1> HIDE DEF r
<1>7. ShortsEarned'
  <2>1. CountedRow(r)
    BY DEF r
  <2>2. QED
    BY <1>1, <1>2, <1>3, <2>1, RowShorts DEF EarnedInv
<1>8. InTurn' /\ Refused'
  BY <1>4 DEF EarnedInv, InTurn, Refused, Absent
<1>9. NotesEarned'
  <2>1. NoteEarned(r)
    BY DEF NoteEarned, Row, PerLang, r
  <2>2. \A k \in (Len(rows) + 1)..Len(rows') : NoteEarned(rows'[k])
    <3>1. \A k \in (Len(rows) + 1)..Len(rows') : k = Len(rows')
      BY <1>2 DEF Longer
    <3>2. QED
      BY <1>2, <2>1, <3>1
  <2>3. QED
    BY <1>2, <2>2, RowsNoted DEF EarnedInv
<1>10. QED
  BY <1>5, <1>6, <1>7, <1>8, <1>9 DEF EarnedInv

\* The chained tools are of a language, and they are not filtered.
LEMMA ChainedPlace ==
  ASSUME PlanInv, plan # <<>>, Current.tool \in DOMAIN Gives \cup DOMAIN Needs
  PROVE  PerLang(Current) /\ ~expect_reject(Current.tool) /\ Current.lang # "(memory)"
<1> DEFINE t == Current.tool
<1>1. Current \in AllCells
  BY DEF PlanInv, CellsInv, Current
<1>2. /\ t \notin DEFAULT_FILTERED_TOOLS \cup ToSet(GLOBAL_TOOLS)
      /\ \A i \in 1..Len(MemoryCells) : MemoryCells[i].tool # t
  BY ChainedAssumption
<1> HIDE DEF t
<1>3. t \notin MemoryTools /\ t \notin ToSet(GLOBAL_TOOLS)
  BY <1>2 DEF MemoryTools
<1>4. Current.lang \in Languages
  BY <1>1, <1>3, CellPlaces DEF t
<1>5. "(memory)" \notin Languages
  BY DogfoodAssumption DEF Languages
<1>6. ~expect_reject(t)
  BY <1>2 DEF expect_reject
<1>7. QED
  BY <1>4, <1>5, <1>6 DEF PerLang, t

LEMMA ItemsEarned ==
  ASSUME PlanInv, plan # <<>>, NEW o, NEW kind, Chained(o, kind), NEW t \in DOMAIN Gives, Gives[t] \in prepared'
  PROVE  Gives[t] \in prepared \/ (t = Current.tool /\ o.ok /\ Current.lang # "(memory)")
<1>1. CASE o.ok /\ kind = "item" /\ Current.tool \in DOMAIN Gives
  <2>1. prepared' = prepared \cup {Gives[Current.tool]}
    BY <1>1 DEF Chained
  <2>2. Gives[t] = Gives[Current.tool] => t = Current.tool
    BY <1>1 DEF Gives
  <2>3. Current.lang # "(memory)"
    BY <1>1, ChainedPlace
  <2>4. QED
    BY <1>1, <2>1, <2>2, <2>3
<1>2. CASE ~(o.ok /\ kind = "item" /\ Current.tool \in DOMAIN Gives)
  BY <1>2 DEF Chained
<1>3. QED
  BY <1>1, <1>2

\* A call that is done.
LEMMA FinishEarned ==
  ASSUME PlanInv, PlanInv', EarnedInv, Asks, exit = "running", NEW o, o.ok \in BOOLEAN,
         NEW kind, NEW before, Finish(o, kind, before),
         is_timeout_summary(o.note) => ~o.ok, o.note # "short", o.note \in Passes => o.ok,
         PerLang(Current) /\ ~LspBound /\ o.ok => o.note = "filtered"
  PROVE  EarnedInv'
<1> DEFINE ok == Expected(o, kind)
           r == Row(Current, ok, o.note)
<1>1. plan # <<>> /\ now = Current.lang /\ HasItem /\ (now \notin Languages => timeouts = 0)
  BY DEF PlanInv, CallsGoOut, EarnedInv, InTurn, ChainsEarned, ShortsEarned
<1>2. /\ Record(ok, o.note) /\ opt' = opt /\ now' = now /\ exit' = exit /\ Chained(o, kind)
      /\ MayPoll(before) \/ NoPoll(before)
  BY DEF Finish
<1>3. waiting'.for = "none"
  BY <1>2 DEF MayPoll, Poll, NoPoll, Idle
<1>4. Current.lang # "(memory)" => ok = o.ok
  BY DEF Expected
<1>5. PerLang(Current) <=> now \in Languages
  BY <1>1 DEF PerLang
<1>6. PerLang(Current) => ok = o.ok
  <2>1. "(memory)" \notin Languages
    BY DogfoodAssumption DEF Languages
  <2>2. QED
    BY <1>4, <2>1 DEF PerLang
<1> HIDE DEF ok
<1>7. r.ok = ok /\ r.note = o.note /\ r.lang = Current.lang
  BY DEF Row
<1> HIDE DEF r
<1>8. CountedRow(r) /\ (now \notin Languages => timeouts' = 0)
  <2>1. CASE LspBound /\ is_timeout_summary(o.note)
    <3>1. timeouts' = timeouts + 1
      BY <2>1 DEF Finish, TimedOut
    <3>2. PerLang(Current) /\ ~r.ok
      BY <1>6, <1>7, <2>1 DEF LspBound
    <3>3. ~PlainPass(r) /\ TimeoutRow(r)
      BY <1>7, <2>1, <3>2 DEF PlainPass, TimeoutRow, is_timeout_summary
    <3>4. QED
      BY <1>1, <1>5, <1>7, <3>1, <3>2, <3>3 DEF CountedRow
  <2>2. CASE ~(LspBound /\ is_timeout_summary(o.note))
    <3>1. timeouts' = (IF LspBound /\ o.ok THEN 0 ELSE timeouts)
      BY <2>2 DEF Finish
    <3>2. CASE LspBound /\ o.ok
      BY <3>1, <3>2 DEF CountedRow
    <3>3. CASE ~(LspBound /\ o.ok) /\ PerLang(Current)
      <4>1. timeouts' = timeouts /\ r.ok = o.ok
        BY <1>6, <1>7, <3>1, <3>3
      <4>2. ~PlainPass(r)
        BY <1>7, <3>3, <4>1 DEF PlainPass
      <4>3. QED
        BY <1>5, <3>3, <4>1, <4>2 DEF CountedRow
    <3>4. CASE ~(LspBound /\ o.ok) /\ ~PerLang(Current)
      <4>1. timeouts' = timeouts /\ timeouts = 0
        BY <1>1, <1>5, <3>1, <3>4
      <4>2. QED
        BY <4>1 DEF CountedRow
    <3>5. QED
      BY <3>2, <3>3, <3>4
  <2>3. QED
    BY <2>1, <2>2
<1>9. ASSUME NEW t \in DOMAIN Gives, Gives[t] \in prepared'
      PROVE  Gives[t] \in prepared \/ (t = Current.tool /\ ok)
  <2>1. Gives[t] \in prepared \/ (t = Current.tool /\ o.ok /\ Current.lang # "(memory)")
    BY <1>1, <1>2, <1>9, ItemsEarned
  <2>2. QED
    BY <1>4, <2>1
<1>10. CountedRow(Row(Current, ok, o.note))
  BY <1>8 DEF r
<1>11. QED
  BY <1>1, <1>2, <1>3, <1>6, <1>8, <1>9, <1>10, RowEarned

\* What is said of an answer: a timeout is never a pass, and a tool that should
\* not be there passes only by being refused.
LEMMA ClassifyNotes ==
  ASSUME NEW kind, NEW expected
  PROVE  /\ is_timeout_summary(classify(kind, expected).note) => ~classify(kind, expected).ok
         /\ classify(kind, expected).note # "short"
         /\ classify(kind, expected).note \in Passes => classify(kind, expected).ok
         /\ expected /\ kind \in Refusals \cup {"transport"} /\ classify(kind, expected).ok
              => classify(kind, expected).note = "filtered"
BY DEF classify, Outcome, is_timeout_summary, Refusals, Passes

\* Where neither the report nor the language's state changes.
LEMMA StillEarned ==
  ASSUME EarnedInv, opt' = opt, plan' = plan, rows' = rows, now' = now, prepared' = prepared,
         timeouts' = timeouts, exit' \in {"0", "1"} => plan = <<>>, Refused',
         Asks' => now = Current.lang /\ HasItem, waiting'.for \in {"bump", "retry"} => LspBound
  PROVE  EarnedInv'
<1>1. Current' = Current /\ LspBound' = LspBound /\ HasItem' = HasItem
  BY DEF Current, LspBound, PerLang, expect_reject, HasItem
<1>2. Reported'
  BY DEF EarnedInv, Reported, MetFirst, Absent
<1>3. InTurn'
  BY <1>1 DEF EarnedInv, InTurn, Absent
<1>4. ShortsEarned'
  BY DEF EarnedInv, ShortsEarned
<1>5. ChainsEarned'
  BY <1>1 DEF EarnedInv, ChainsEarned
<1>6. NotesEarned'
  BY DEF EarnedInv, NotesEarned, NoteEarned
<1>7. QED
  BY <1>2, <1>3, <1>4, <1>5, <1>6 DEF EarnedInv

\* A request that goes out. Nothing that is on its way can answer a call that has
\* only just been made.
LEMMA GoEarned ==
  ASSUME PlanInv, EarnedInv, exit = "running", NEW for, Goes(for), now = Current.lang, HasItem,
         for \in {"bump", "retry"} => LspBound,
         for = "call" => IdsUsed /\ rid + 1 < PollRidStart /\ out' = out
  PROVE  EarnedInv'
<1>1. /\ opt' = opt /\ plan' = plan /\ now' = now /\ prepared' = prepared /\ timeouts' = timeouts
      /\ rows' = rows /\ exit' = exit /\ rid' = rid + 1
      /\ waiting'.for = for /\ waiting'.rid = rid + 1
  BY DEF Goes, language
<1>2. Refused'
  <2>1. SUFFICES ASSUME for = "call", NEW i \in 1..Len(out'), out'[i].rid = rid + 1 PROVE FALSE
    BY <1>1 DEF Refused
  <2>2. Used(out[i].rid, rid) /\ out[i].rid = rid + 1
    BY <2>1 DEF IdsUsed
  <2>3. rid \in Nat /\ rid + 1 < PollRidStart
    BY <2>1 DEF PlanInv, Counters
  <2>4. QED
    BY <2>2, <2>3, FreshId
<1>3. QED
  BY <1>1, <1>2, StillEarned

\* A write that raises.
LEMMA RaiseEarned ==
  ASSUME EarnedInv, Raise, \A i \in 1..Len(out') : \E j \in 1..Len(out) : out'[i] = out[j]
  PROVE  EarnedInv'
<1>1. /\ opt' = opt /\ plan' = plan /\ now' = now /\ prepared' = prepared /\ timeouts' = timeouts
      /\ rows' = rows /\ exit' = "raised" /\ waiting' = waiting
  BY DEF Raise, language, ids
<1>2. Asks' = Asks /\ Current' = Current /\ expect_reject(Current.tool)' = expect_reject(Current.tool)
  BY <1>1 DEF Asks, Current, expect_reject
<1>3. Refused'
  BY <1>1, <1>2 DEF EarnedInv, Refused
<1>4. QED
  BY <1>1, <1>2, <1>3, StillEarned DEF EarnedInv, InTurn, ChainsEarned

LEMMA ProceedsEarned ==
  ASSUME PlanInv, EarnedInv, Asks, exit = "running", NEW for \in {"bump", "retry"}, LspBound,
         NEW of, NEW lsp, NEW before, Proceeds(for, rid + 1, of, lsp, before),
         \A i \in 1..Len(out') : \E j \in 1..Len(out) : out'[i] = out[j]
  PROVE  EarnedInv'
<1>1. CASE Reachable
  <2>1. Goes(for)
    BY <1>1 DEF Proceeds, Goes, Send
  <2>2. now = Current.lang /\ HasItem
    BY DEF EarnedInv, InTurn, ChainsEarned
  <2>3. QED
    BY <2>1, <2>2, GoEarned
<1>2. CASE ~Reachable
  BY <1>2, RaiseEarned DEF Proceeds
<1>3. QED
  BY <1>1, <1>2

\* What comes for a call, or instead of it.
LEMMA AfterEarned ==
  ASSUME PlanInv, PlanInv', EarnedInv, Asking, NEW kind, After(kind),
         \A i \in 1..Len(out') : \E j \in 1..Len(out) : out'[i] = out[j],
         waiting.for = "call" /\ expect_reject(Current.tool)
           => kind \in Refusals \cup {"transport"}
  PROVE  EarnedInv'
<1>1. Asks /\ exit = "running"
  BY DEF Asking, Asks, PlanInv, Counters
<1>2. CASE AfterCall(kind)
  <2> DEFINE o == classify(kind, expect_reject(Current.tool))
             t == LspBound /\ is_timeout_summary(o.note)
             left == IF t THEN cancel(rid) ELSE inflight
  <2>1. /\ o.ok \in BOOLEAN /\ o.note # "short" /\ (o.note \in Passes => o.ok)
        /\ is_timeout_summary(o.note) => ~o.ok
        /\ expect_reject(Current.tool) /\ kind \in Refusals \cup {"transport"} /\ o.ok
             => o.note = "filtered"
    BY ClassifyIs, ClassifyNotes
  <2>2. waiting.for = "call"
    BY <1>2 DEF AfterCall
  <2>3. PerLang(Current) /\ ~LspBound /\ o.ok => o.note = "filtered"
    BY <2>1, <2>2 DEF LspBound
  <2>4. \/ t /\ Proceeds("bump", rid + 1, Of(Current, "bump"), FALSE, cancel(rid))
        \/ Finish(o, kind, left)
    BY <1>2 DEF AfterCall
  <2> HIDE DEF o, left
  <2>5. CASE t /\ Proceeds("bump", rid + 1, Of(Current, "bump"), FALSE, cancel(rid))
    BY <1>1, <2>5, ProceedsEarned
  <2>6. CASE Finish(o, kind, left)
    BY <1>1, <2>1, <2>3, <2>6, FinishEarned
  <2>7. QED
    BY <2>4, <2>5, <2>6
<1>3. CASE AfterBump(kind)
  <2> DEFINE o == Outcome(FALSE, "no response")
  <2>1. o.ok \in BOOLEAN /\ ~o.ok /\ o.note # "short" /\ o.note \notin Passes
    BY DEF Outcome, Passes
  <2>2. LspBound
    BY <1>3 DEF AfterBump, EarnedInv, InTurn
  <2>3. \/ Proceeds("retry", rid + 1, Of(Current, "retry"), TRUE, inflight)
        \/ Finish(o, kind, inflight)
    BY <1>3 DEF AfterBump
  <2> HIDE DEF o
  <2>4. CASE Proceeds("retry", rid + 1, Of(Current, "retry"), TRUE, inflight)
    BY <1>1, <2>2, <2>4, ProceedsEarned
  <2>5. CASE Finish(o, kind, inflight)
    BY <1>1, <2>1, <2>5, FinishEarned
  <2>6. QED
    BY <2>3, <2>4, <2>5
<1>4. CASE AfterRetry(kind)
  <2> DEFINE o == classify(kind, FALSE)
             note == IF o.ok THEN "retried" ELSE IF o.note = "quoted" THEN "exhausted, quoted" ELSE "exhausted"
             r == Row(Current, o.ok, note)
  <2>1. o.ok \in BOOLEAN
    BY ClassifyIs
  <2>2. /\ Record(o.ok, note) /\ Chained(o, kind)
        /\ IF o.ok THEN UNCHANGED <<timeouts, lsp_broken>> ELSE TimedOut
        /\ waiting' = Idle /\ opt' = opt /\ now' = now /\ exit' = exit
        /\ waiting.for = "retry"
    BY <1>4 DEF AfterRetry, NoPoll
  <2>3. /\ plan # <<>> /\ now = Current.lang /\ HasItem /\ LspBound
    BY <1>1, <2>2 DEF PlanInv, CallsGoOut, EarnedInv, InTurn, ChainsEarned
  <2>4. now \in Languages
    BY <2>3 DEF LspBound, PerLang
  <2>5. r.ok = o.ok /\ r.note = note /\ r.lang = now
    BY <2>3 DEF Row
  <2> HIDE DEF o, r
  <2>6. CountedRow(r)
    <3>1. CASE o.ok
      <4>1. timeouts' = timeouts /\ r.note = "retried"
        BY <2>2, <2>5, <3>1
      <4>2. QED
        BY <4>1 DEF CountedRow, PlainPass
    <3>2. CASE ~o.ok
      <4>1. timeouts' = timeouts + 1 /\ r.note \in {"exhausted", "exhausted, quoted"} /\ ~r.ok
        BY <2>2, <2>5, <3>2 DEF TimedOut
      <4>2. QED
        BY <2>5, <4>1 DEF CountedRow, PlainPass, TimeoutRow
    <3>3. QED
      BY <3>1, <3>2
  <2>7. ASSUME NEW t \in DOMAIN Gives, Gives[t] \in prepared'
        PROVE  Gives[t] \in prepared \/ (t = Current.tool /\ o.ok)
    BY <2>2, <2>3, <2>7, ItemsEarned
  <2>8. waiting'.for = "none" /\ note # "short" /\ (note \in Passes => o.ok)
    BY <2>2 DEF Idle, Passes
  <2> HIDE DEF note
  <2>9. CountedRow(Row(Current, o.ok, note))
    BY <2>6 DEF r
  <2>10. QED
    BY <1>1, <2>2, <2>3, <2>4, <2>7, <2>8, <2>9, RowEarned
<1>5. QED
  BY <1>2, <1>3, <1>4 DEF After

\* A cell that is not called.
LEMMA UncalledEarned ==
  ASSUME PlanInv, PlanInv', EarnedInv, MyTurn, NEW note \in Uncalls, Record(FALSE, note), Uncalled,
         note = "short" => lsp_broken
  PROVE  EarnedInv'
<1>1. /\ plan # <<>> /\ waiting.for = "none" /\ exit = "running" /\ now = Current.lang
      /\ opt' = opt /\ now' = now /\ prepared' = prepared /\ timeouts' = timeouts
      /\ exit' = exit /\ waiting' = waiting
  BY DEF MyTurn, Turn, Stage, Uncalled, language
<1> DEFINE r == Row(Current, FALSE, note)
<1>2. CountedRow(r)
  <2>1. ~r.ok
    BY DEF Row
  <2> HIDE DEF r
  <2>2. QED
    BY <1>1, <2>1 DEF CountedRow, PlainPass
<1>3. now \notin Languages => timeouts' = 0
  BY <1>1 DEF EarnedInv, ShortsEarned
<1>4. note = "short" => timeouts >= BROKEN_LSP_THRESHOLD
  BY DEF PlanInv, LanguageInv
<1>5. note \notin Passes
  BY DEF Uncalls, Passes
<1>6. QED
  BY <1>1, <1>2, <1>3, <1>4, <1>5, RowEarned

\* A language that is left out: its cells are the next of the plan, and all of them.
LEMMA SkipEarned ==
  ASSUME PlanInv, PlanInv', EarnedInv, SkipLanguage
  PROVE  EarnedInv'
<1> DEFINE m == Len(PER_LANG_TOOLS)
           n == Len(rows)
           P == Plan(opt)
           skipped == [i \in 1..m |-> Row(plan[i], FALSE, "skipped")]
<1>1. /\ rows' = rows \o skipped /\ plan' = SubSeq(plan, m + 1, Len(plan))
      /\ opt' = opt /\ now' = now /\ prepared' = prepared /\ timeouts' = timeouts
      /\ exit' = exit /\ waiting' = waiting /\ exit = "running" /\ waiting.for = "none"
      /\ plan # <<>> /\ PerLang(Current) /\ Absent(Current.lang)
  BY DEF SkipLanguage, language, ids, Turn
<1>2. ~Asks' /\ waiting'.for = "none"
  BY <1>1 DEF Asks
<1>3. m \in Nat
  BY DogfoodAssumption
<1>4. plan \in Seq(AllCells) /\ Len(plan) \in Nat \ {0} /\ plan[1] = Current
  BY <1>1 DEF PlanInv, CellsInv, Current
<1>5. /\ OnPlan(rows, plan, P) /\ n \in Nat /\ n + Len(plan) = Len(P)
      /\ \A i \in 1..Len(plan) : plan[i] = P[n + i]
  BY DEF EarnedInv, Reported, OnPlan
<1>6. Opens(P, n + 1) /\ P[n + 1] = plan[1] /\ PerLang(P[n + 1]) /\ n + 1 \in 1..Len(P)
  <2>1. Opens(P, n + 1)
    BY <1>1, <1>4 DEF EarnedInv, Reported, MetFirst, PerLang
  <2>2. P[n + 1] = plan[1] /\ n + 1 \in 1..Len(P)
    BY <1>4, <1>5
  <2>3. QED
    BY <1>1, <1>4, <2>1, <2>2
<1>7. Block(P, n + 1, m)
  BY <1>6, PlanIsNeat DEF Neat, InBlocks
<1>8. m <= Len(plan) /\ (m + 1 <= Len(plan) => m >= 1 /\ plan[m + 1].lang # plan[m].lang)
  <2>1. /\ n + 1 + m - 1 <= Len(P)
        /\ \A k \in (n + 1)..(n + 1 + m - 1) : P[k].lang = P[n + 1].lang
        /\ n + 1 + m <= Len(P) => P[n + 1 + m].lang # P[n + 1].lang
    BY <1>7 DEF Block
  <2> HIDE DEF m, n, P
  <2>2. m <= Len(plan)
    BY <1>3, <1>4, <1>5, <2>1
  <2>3. ASSUME m + 1 <= Len(plan) PROVE m >= 1 /\ plan[m + 1].lang # plan[m].lang
    <3>1. n + 1 + m <= Len(P) /\ m + 1 \in 1..Len(plan) /\ n + (m + 1) = n + 1 + m
      BY <1>3, <1>4, <1>5, <2>3
    <3>2. plan[m + 1].lang # P[n + 1].lang
      BY <1>5, <2>1, <3>1
    <3>3. m # 0
      <4>1. m = 0 => plan[m + 1] = P[n + 1]
        BY <1>6
      <4>2. QED
        BY <3>2, <4>1
    <3>4. m \in 1..Len(plan) /\ n + m \in (n + 1)..(n + 1 + m - 1)
      BY <1>3, <1>4, <1>5, <2>2, <3>3
    <3>5. plan[m].lang = P[n + 1].lang
      BY <1>5, <2>1, <3>4
    <3>6. QED
      BY <1>3, <3>2, <3>3, <3>5
  <2>4. QED
    BY <2>2, <2>3
<1>9. /\ Longer(rows, rows') /\ Len(rows') = n + m
      /\ \A k \in 1..m : rows'[n + k] = skipped[k]
  <2> DEFINE T == {skipped[i] : i \in 1..m}
  <2>1. skipped \in [1..m -> T]
    OBVIOUS
  <2>2. PICK S : rows \in Seq(S)
    BY DEF PlanInv, RowsInv
  <2> HIDE DEF T, skipped, m
  <2>3. skipped \in Seq(T) /\ Len(skipped) = m
    BY <1>3, <2>1
  <2> DEFINE U == S \cup T
  <2>4. rows \in Seq(U) /\ skipped \in Seq(U)
    BY <2>2, <2>3
  <2> HIDE DEF U
  <2>5. /\ Len(rows \o skipped) = Len(rows) + Len(skipped) /\ Len(rows) \in Nat
        /\ \A i \in 1..Len(rows) : (rows \o skipped)[i] = rows[i]
        /\ \A i \in 1..Len(skipped) : (rows \o skipped)[Len(rows) + i] = skipped[i]
    BY <2>4, Concatenated
  <2>6. Len(rows') \in Nat /\ Len(rows) <= Len(rows')
    BY <1>1, <1>3, <2>3, <2>5
  <2>7. QED
    BY <1>1, <2>3, <2>5, <2>6 DEF Longer
<1>10. \A k \in 1..m : /\ skipped[k].ok = FALSE /\ skipped[k].note = "skipped"
                       /\ Cell(skipped[k].lang, skipped[k].tool) = plan[k]
  <2>1. SUFFICES ASSUME NEW k \in 1..m
                 PROVE  /\ skipped[k].ok = FALSE /\ skipped[k].note = "skipped"
                        /\ Cell(skipped[k].lang, skipped[k].tool) = plan[k]
    OBVIOUS
  <2>2. skipped[k] = Row(plan[k], FALSE, "skipped")
    OBVIOUS
  <2>3. plan[k] \in AllCells
    <3>1. k \in 1..Len(plan)
      BY <1>3, <1>4, <1>8
    <3>2. QED
      BY <1>4, <3>1
  <2>4. plan[k] = Cell(plan[k].lang, plan[k].tool)
    BY <2>3, CellPlaces
  <2> HIDE DEF skipped
  <2>5. QED
    BY <2>2, <2>4 DEF Row
<1> HIDE DEF skipped, m, n, P
<1>11. /\ plan' \in Seq(AllCells) /\ Len(plan') = Len(plan) - m
       /\ \A i \in 1..Len(plan') : plan'[i] = plan[m + i]
  BY <1>1, <1>3, <1>4, <1>8
<1>12. Reported'
  <2>1. \A k \in 1..m : Cell(rows'[n + k].lang, rows'[n + k].tool) = plan[k]
    BY <1>9, <1>10
  <2>2. MovesTo(rows, plan, m, rows', plan')
    BY <1>8, <1>9, <1>11, <2>1 DEF n, MovesTo
  <2>3. OnPlan(rows', plan', P)
    <3>1. OnPlan(rows, plan, P)
      BY <1>5
    <3>2. QED
      BY <1>3, <2>2, <3>1, MovedOn
  <2>4. OnPlan(rows, plan, Plan(opt))'
    BY <1>1, <2>3 DEF P
  <2>5. plan' # <<>> => Opens(P, Len(rows') + 1)
    <3>1. SUFFICES ASSUME plan' # <<>> PROVE Opens(P, Len(rows') + 1)
      OBVIOUS
    <3>2. Len(plan') \in Nat /\ Len(plan') # 0
      BY <1>11, <3>1
    <3>3. m + 1 <= Len(plan) /\ m + 1 \in 1..Len(plan)
      BY <1>3, <1>4, <1>11, <3>2
    <3>4. m \in 1..Len(plan) /\ plan[m + 1].lang # plan[m].lang
      <4>1. m \in Nat /\ m >= 1 /\ m <= Len(plan) /\ plan[m + 1].lang # plan[m].lang
        BY <1>3, <1>8, <3>3
      <4>2. QED
        BY <1>4, <4>1
    <3>5. plan[m + 1] = P[n + (m + 1)] /\ plan[m] = P[n + m]
      BY <1>5, <3>3, <3>4
    <3> DEFINE k == n + (m + 1)
    <3>6. k - 1 = n + m /\ Len(rows') + 1 = k
      BY <1>3, <1>5, <1>9
    <3> HIDE DEF k
    <3>7. P[k - 1].lang # P[k].lang
      BY <3>4, <3>5, <3>6 DEF k
    <3>8. Opens(P, k)
      BY <3>7 DEF Opens
    <3>9. QED
      BY <3>6, <3>8
  <2>6. MetFirst(plan, Plan(opt), Len(rows))'
    BY <1>1, <2>5 DEF MetFirst, P
  <2>7. QED
    BY <1>1, <2>4, <2>6 DEF Reported
<1>13. \A k \in (n + 1)..Len(rows') : rows'[k].ok = FALSE /\ rows'[k].note = "skipped"
  <2>1. SUFFICES ASSUME NEW k \in (n + 1)..Len(rows') PROVE rows'[k].ok = FALSE /\ rows'[k].note = "skipped"
    OBVIOUS
  <2>2. k - n \in 1..m /\ k = n + (k - n)
    BY <1>3, <1>5, <1>9
  <2>3. rows'[k] = skipped[k - n]
    BY <1>9, <2>2
  <2>4. QED
    BY <1>10, <2>2, <2>3
<1>14. \A k \in (Len(rows) + 1)..Len(rows') : ~PlainPass(rows'[k])
  BY <1>13 DEF n, PlainPass
<1>15. \A i \in 1..Len(rows') : i \in 1..Len(rows) \/ i \in (n + 1)..Len(rows')
  BY <1>3, <1>5, <1>9 DEF n
<1>16. ShortsEarned'
  <2> DEFINE C == Cardinality(Timed(rows, Len(rows), now))
             D == Cardinality(Timed(rows', Len(rows'), now))
  <2>1. C <= D /\ C \in Nat /\ D \in Nat
    BY <1>9, <1>14, TimedGrows
  <2>2. timeouts <= C /\ timeouts \in Nat /\ (now \notin Languages => timeouts = 0)
    BY DEF EarnedInv, ShortsEarned, PlanInv, LanguageInv
  <2> HIDE DEF C, D
  <2>3. timeouts <= D
    BY <2>1, <2>2
  <2>4. \A i \in 1..Len(rows') : ShortEarned(rows', i)
    <3>1. SUFFICES ASSUME NEW i \in 1..Len(rows') PROVE ShortEarned(rows', i)
      OBVIOUS
    <3>2. CASE i \in 1..Len(rows)
      BY <1>9, <3>2, OldRows DEF EarnedInv, ShortsEarned
    <3>3. CASE i \in (n + 1)..Len(rows')
      BY <1>13, <3>3 DEF ShortEarned
    <3>4. QED
      BY <1>15, <3>2, <3>3
  <2>5. QED
    BY <1>1, <2>2, <2>3, <2>4 DEF ShortsEarned, D
<1>17. ChainsEarned'
  <2>1. \A t \in DOMAIN Gives : Gives[t] \in prepared => PassedIn(rows', now, t, Len(rows'))
    BY <1>9, OldPasses DEF EarnedInv, ChainsEarned
  <2>2. \A i \in 1..Len(rows') : ChainEarned(rows', i)
    <3>1. SUFFICES ASSUME NEW i \in 1..Len(rows') PROVE ChainEarned(rows', i)
      OBVIOUS
    <3>2. CASE i \in 1..Len(rows)
      BY <1>9, <3>2, OldRows DEF EarnedInv, ChainsEarned
    <3>3. CASE i \in (n + 1)..Len(rows')
      BY <1>13, <3>3 DEF ChainEarned, Uncalls
    <3>4. QED
      BY <1>15, <3>2, <3>3
  <2>3. QED
    BY <1>1, <1>2, <2>1, <2>2 DEF ChainsEarned
<1>18. InTurn' /\ Refused'
  BY <1>1, <1>2 DEF EarnedInv, InTurn, Refused, Absent
<1>19. NotesEarned'
  <2>1. \A k \in (Len(rows) + 1)..Len(rows') : NoteEarned(rows'[k])
    BY <1>13 DEF n, NoteEarned, Passes
  <2>2. QED
    BY <1>9, <2>1, RowsNoted DEF EarnedInv
<1>20. QED
  BY <1>12, <1>16, <1>17, <1>18, <1>19 DEF EarnedInv

\* A language that is begun.
LEMMA StartEarned ==
  ASSUME PlanInv, EarnedInv, Start
  PROVE  EarnedInv'
<1>1. /\ now' = Stage /\ prepared' = {} /\ timeouts' = 0
      /\ Poll(inflight) \/ NoPoll(inflight)
      /\ opt' = opt /\ plan' = plan /\ rows' = rows /\ exit' = exit /\ exit = "running"
      /\ Stage \in Languages => ~Absent(Stage)
  BY DEF Start, Turn
<1>2. waiting'.for = "none"
  BY <1>1 DEF Poll, NoPoll, Idle
<1>3. ~Asks' /\ Refused'
  BY <1>2 DEF Asks, Refused
<1>4. Reported'
  BY <1>1 DEF EarnedInv, Reported, MetFirst, Absent
<1>5. InTurn'
  BY <1>1, <1>2, <1>3 DEF InTurn, Absent
<1>6. ShortsEarned'
  <2>1. Len(rows) \in Nat
    BY DEF EarnedInv, Reported, OnPlan
  <2>2. Cardinality(Timed(rows, Len(rows), Stage)) \in Nat
    BY <2>1, FiniteTimed, FS_CardinalityType
  <2>3. 0 <= Cardinality(Timed(rows, Len(rows), Stage))
    BY <2>2
  <2>4. \A i \in 1..Len(rows) : ShortEarned(rows, i)
    BY DEF EarnedInv, ShortsEarned
  <2>5. (timeouts <= Cardinality(Timed(rows, Len(rows), now)))'
    BY <1>1, <2>3
  <2>6. (\A i \in 1..Len(rows) : ShortEarned(rows, i))'
    BY <1>1, <2>4
  <2>7. QED
    BY <1>1, <2>5, <2>6 DEF ShortsEarned
<1>7. ChainsEarned'
  <2>1. (\A i \in 1..Len(rows) : ChainEarned(rows, i))'
    BY <1>1 DEF EarnedInv, ChainsEarned
  <2>2. QED
    BY <1>1, <1>3, <2>1 DEF ChainsEarned
<1>8. NotesEarned'
  BY <1>1 DEF EarnedInv, NotesEarned, NoteEarned
<1>9. QED
  BY <1>3, <1>4, <1>5, <1>6, <1>7, <1>8 DEF EarnedInv

\* A call is made with the item it needs.
LEMMA CallEarned ==
  ASSUME PlanInv, PlanInv', PassInv, EarnedInv, Call
  PROVE  EarnedInv'
<1>1. /\ Callable /\ plan # <<>> /\ exit = "running" /\ now = Current.lang /\ out' = out
      /\ waiting.for = "none"
  BY DEF Call, MyTurn, Turn, Stage, behind
<1>2. HasItem
  <2>1. SUFFICES ASSUME Current.tool \in DOMAIN Needs PROVE Needs[Current.tool] \in prepared
    BY DEF HasItem
  <2>2. PerLang(Current) /\ ~expect_reject(Current.tool)
    BY <1>1, <2>1, ChainedPlace
  <2>3. build_args(Current.tool, Target(now))
    BY <1>1, <2>2 DEF Callable
  <2>4. QED
    BY <2>1, <2>3 DEF build_args
<1>3. CASE Reachable
  <2>1. Goes("call")
    <3>1. Proceeds("call", rid + 1, Of(Current, "call"), LspBound, inflight)
      BY DEF Call, Proceeds
    <3>2. QED
      BY <1>3, <3>1 DEF Proceeds, Goes, Send
  <2>2. IdsUsed /\ rid + 1 < PollRidStart
    BY <1>1, IdsStayApart, NextIdApart DEF PassInv
  <2>3. QED
    BY <1>1, <1>2, <2>1, <2>2, GoEarned
<1>4. CASE ~Reachable
  <2>1. Raise
    BY <1>4 DEF Call
  <2>2. \A i \in 1..Len(out') : \E j \in 1..Len(out) : out'[i] = out[j]
    BY <1>1
  <2>3. QED
    BY <2>1, <2>2, RaiseEarned
<1>5. QED
  BY <1>3, <1>4

\* An answer that comes while a tool that should not be there is called refuses
\* it, or is a leak: it is the answer to that very call.
LEMMA AnswerEarned ==
  ASSUME PlanInv, PassInv, EarnedInv, NEW m, Answer(m)
  PROVE  EarnedInv'
<1>1. /\ m \in inflight /\ opt' = opt /\ plan' = plan /\ now' = now /\ prepared' = prepared
      /\ timeouts' = timeouts /\ rows' = rows /\ exit' = exit /\ waiting' = waiting
  BY DEF Answer, pass, ids
<1>2. PICK kind \in Kinds(m) :
        out' = IF opt.transport = "http" /\ m.rid # waiting.rid THEN out
               ELSE Append(out, [rid |-> m.rid, of |-> m.of, kind |-> kind])
  BY DEF Answer
<1>3. Asks' = Asks /\ Current' = Current /\ expect_reject(Current.tool)' = expect_reject(Current.tool)
  BY <1>1 DEF Asks, Current, expect_reject
<1>4. Refused'
  <2>1. SUFFICES ASSUME waiting.for = "call", expect_reject(Current.tool)
                 PROVE  \A i \in 1..Len(out') : out'[i].rid = waiting.rid => out'[i].kind \in Refusals
    BY <1>1, <1>3 DEF Refused
  <2>2. \A i \in 1..Len(out) : out[i].rid = waiting.rid => out[i].kind \in Refusals
    BY <2>1 DEF EarnedInv, Refused
  <2>3. CASE out' = out
    BY <2>2, <2>3
  <2>4. CASE out' # out
    <3> DEFINE a == [rid |-> m.rid, of |-> m.of, kind |-> kind]
    <3>1. out' = Append(out, a)
      BY <1>2, <2>4
    <3>2. a.rid = m.rid /\ a.kind = kind
      OBVIOUS
    <3>3. Asks /\ IdsUsed /\ OneAwaited
      BY <2>1, IdsStayApart DEF Asks, PassInv
    <3>4. ASSUME m.rid = waiting.rid PROVE kind \in Refusals
      <4>1. m.of = Awaited
        BY <1>1, <3>3, <3>4 DEF OneAwaited
      <4>2. m.of.cell = Current /\ m.of.try = "call"
        BY <2>1, <4>1 DEF Awaited, Of
      <4>3. m.of.try # "poll" /\ m.of.try # "bump"
        BY <4>2
      <4>4. Kinds(m) \subseteq {"not enabled", "not found", "content", "silence"}
        BY <2>1, <3>4, <4>2, <4>3 DEF Kinds
      <4>5. QED
        BY <4>4 DEF Refusals
    <3> HIDE DEF a
    <3>5. PICK S : out \in Seq(S)
      BY <3>3 DEF IdsUsed
    <3> DEFINE U == S \cup {a}
    <3>6. out \in Seq(U) /\ a \in U
      BY <3>5
    <3> HIDE DEF U
    <3>7. OneMore(out, a, out') /\ Len(out) \in Nat
      BY <3>1, <3>6, AppendedOne
    <3>8. ASSUME NEW i \in 1..Len(out'), out'[i].rid = waiting.rid PROVE out'[i].kind \in Refusals
      <4>1. i \in 1..Len(out) \/ i = Len(out) + 1
        BY <3>7 DEF OneMore
      <4>2. CASE i \in 1..Len(out)
        BY <2>2, <3>7, <3>8, <4>2 DEF OneMore
      <4>3. CASE i = Len(out) + 1
        BY <3>2, <3>4, <3>7, <3>8, <4>3 DEF OneMore
      <4>4. QED
        BY <4>1, <4>2, <4>3
    <3>9. QED
      BY <3>8
  <2>5. QED
    BY <2>3, <2>4
<1>5. QED
  BY <1>1, <1>3, <1>4, StillEarned DEF EarnedInv, Reported, InTurn, ChainsEarned

\* What is received is still what was on its way.
LEMMA ReceiveEarned ==
  ASSUME PlanInv, PlanInv', PassInv, EarnedInv, Receive
  PROVE  EarnedInv'
<1>1. PICK i \in Mine : After(out[i].kind) /\ out' = SubSeq(out, i + 1, Len(out))
  BY DEF Receive
<1>2. Asking /\ i \in 1..Len(out) /\ out[i].rid = waiting.rid
  BY <1>1 DEF Receive, Mine
<1>3. \A k \in 1..Len(out') : \E j \in 1..Len(out) : out'[k] = out[j]
  BY <1>1, <1>2, OutReceived, IdsStayApart DEF Fewer
<1>4. waiting.for = "call" /\ expect_reject(Current.tool) => out[i].kind \in Refusals
  BY <1>2 DEF EarnedInv, Refused
<1>5. QED
  BY <1>1, <1>2, <1>3, <1>4, AfterEarned

LEMMA NothingEarned ==
  ASSUME PlanInv, PlanInv', EarnedInv, Nothing
  PROVE  EarnedInv'
<1> DEFINE kind == IF opt.transport = "http" THEN "transport" ELSE "silence"
<1>1. Asking /\ After(kind) /\ out' = out
  BY DEF Nothing, behind
<1>2. kind \in {"silence", "transport"}
  OBVIOUS
<1> HIDE DEF kind
<1>3. \A k \in 1..Len(out') : \E j \in 1..Len(out) : out'[k] = out[j]
  BY <1>1
<1>4. kind \in Refusals \cup {"transport"}
  BY <1>2 DEF Refusals
<1>5. QED
  BY <1>1, <1>3, <1>4, AfterEarned

LEMMA EarnedInit ==
  ASSUME Init
  PROVE  EarnedInv
<1>1. /\ plan = Plan(opt) /\ now = "none" /\ rows = <<>> /\ exit = "running" /\ out = <<>>
      /\ prepared = {} /\ timeouts = 0 /\ waiting = [for |-> "initialize", rid |-> 1]
  BY DEF Init
<1>2. waiting.for = "initialize" /\ ~Asks
  BY <1>1 DEF Asks
<1>3. Len(rows) = 0 /\ (\A i \in 1..Len(rows) : FALSE) /\ Len(Plan(opt)) \in Nat
  BY <1>1, PlanIs
<1>4. "none" \notin Languages
  BY DogfoodAssumption DEF Languages
<1>5. Reported
  <2>1. \A i \in 1..Len(plan) : plan[i] = Plan(opt)[Len(rows) + i]
    BY <1>1, <1>3
  <2>2. OnPlan(rows, plan, Plan(opt))
    BY <1>1, <1>3, <2>1 DEF OnPlan
  <2>3. MetFirst(plan, Plan(opt), Len(rows))
    BY <1>3 DEF MetFirst, Opens
  <2>4. QED
    BY <1>1, <2>2, <2>3 DEF Reported
<1>6. ShortsEarned
  <2>1. Cardinality(Timed(rows, Len(rows), now)) \in Nat
    BY <1>3, FiniteTimed, FS_CardinalityType
  <2>2. QED
    BY <1>1, <1>3, <2>1 DEF ShortsEarned
<1>7. ChainsEarned
  BY <1>1, <1>2, <1>3 DEF ChainsEarned
<1>8. InTurn /\ Refused
  BY <1>1, <1>2, <1>4 DEF InTurn, Refused
<1>9. NotesEarned
  BY <1>3 DEF NotesEarned
<1>10. QED
  BY <1>5, <1>6, <1>7, <1>8, <1>9 DEF EarnedInv

LEMMA EarnedNext ==
  ASSUME PlanInv, PlanInv', PassInv, EarnedInv, [Next]_vars
  PROVE  EarnedInv'
<1>1. CASE Initialize
  <2>1. /\ opt' = opt /\ plan' = plan /\ now' = now /\ prepared' = prepared /\ timeouts' = timeouts
        /\ rows' = rows /\ exit' \in {"fatal", "raised", "running"} /\ waiting' = Idle
    BY <1>1 DEF Initialize, language
  <2>2. waiting'.for = "none" /\ ~Asks' /\ Refused'
    BY <2>1 DEF Idle, Asks, Refused
  <2>3. QED
    BY <2>1, <2>2, StillEarned
<1>2. CASE SkipLanguage
  BY <1>2, SkipEarned
<1>3. CASE Start
  BY <1>3, StartEarned
<1>4. CASE ShortCircuit
  <2>1. "short" \in Uncalls
    BY DEF Uncalls
  <2>2. QED
    BY <1>4, <2>1, UncalledEarned DEF ShortCircuit
<1>5. CASE NoArguments
  <2>1. "no arguments" \in Uncalls
    BY DEF Uncalls
  <2>2. QED
    BY <1>5, <2>1, UncalledEarned DEF NoArguments
<1>6. CASE Call
  BY <1>6, CallEarned
<1>7. CASE Receive
  BY <1>7, ReceiveEarned
<1>8. CASE Nothing
  BY <1>8, NothingEarned
<1>9. CASE UNCHANGED <<opt, plan, language, rows, ids, out>> /\ (exit' = exit \/ plan = <<>>)
  <2>1. /\ opt' = opt /\ plan' = plan /\ now' = now /\ prepared' = prepared /\ timeouts' = timeouts
        /\ rows' = rows /\ waiting' = waiting /\ out' = out
    BY <1>9 DEF language, ids
  <2>2. Asks' = Asks /\ Current' = Current /\ expect_reject(Current.tool)' = expect_reject(Current.tool)
    BY <2>1 DEF Asks, Current, expect_reject
  <2>3. Refused'
    BY <2>1, <2>2 DEF EarnedInv, Refused
  <2>4. exit' \in {"0", "1"} => plan = <<>>
    BY <1>9 DEF EarnedInv, Reported
  <2>5. QED
    BY <2>1, <2>2, <2>3, <2>4, StillEarned DEF EarnedInv, InTurn, ChainsEarned
<1>10. CASE Report
  BY <1>9, <1>10 DEF Report, pharos
<1>11. CASE Die
  BY <1>9, <1>11 DEF Die, pass, language, counts
<1>12. CASE \E m \in inflight : Answer(m)
  BY <1>12, AnswerEarned
<1>13. CASE UNCHANGED vars
  BY <1>9, <1>13 DEF vars, language, ids
<1>14. QED
  BY <1>1, <1>2, <1>3, <1>4, <1>5, <1>6, <1>7, <1>8, <1>10, <1>11, <1>12, <1>13 DEF Next, Harness

LEMMA EarnedAlways == Spec => []EarnedInv
<1>1. PlanInv /\ PassInv /\ EarnedInv /\ [Next]_vars => PlanInv' /\ PassInv' /\ EarnedInv'
  BY PlanNext, PassNext, EarnedNext
<1>2. Init => PlanInv /\ PassInv /\ EarnedInv
  BY PlanInit, PassInit, EarnedInit
<1>3. QED
  BY <1>1, <1>2, PTL DEF Spec

\* The report has each cell of the plan once and in order, a language is given up
\* only for as many timeouts as the threshold says, and a chained tool is called
\* only after the tool before it has passed (run_pass).
THEOREM ReportIsEarned == Spec => []RowsAreEarned
<1>1. EarnedInv => RowsAreEarned
  <2>1. SUFFICES ASSUME EarnedInv PROVE RowsAreEarned
    OBVIOUS
  <2>2. ASSUME exit \in {"0", "1"}
        PROVE  [i \in 1..Len(rows) |-> Cell(rows[i].lang, rows[i].tool)] = Plan(opt)
    <3>1. plan = <<>> /\ OnPlan(rows, plan, Plan(opt))
      BY <2>1, <2>2 DEF EarnedInv, Reported
    <3>2. Len(plan) = 0
      BY <3>1
    <3>3. /\ Len(rows) = Len(Plan(opt)) /\ Len(rows) \in Nat
          /\ \A i \in 1..Len(rows) : Cell(rows[i].lang, rows[i].tool) = Plan(opt)[i]
      BY <3>1, <3>2 DEF OnPlan
    <3>4. Plan(opt) = [i \in 1..Len(Plan(opt)) |-> Plan(opt)[i]]
      BY PlanIs
    <3>5. QED
      BY <3>3, <3>4
  <2>3. \A i \in 1..Len(rows) : rows[i].note = "short" =>
          BROKEN_LSP_THRESHOLD <= Cardinality({j \in 1..i - 1 :
            /\ rows[j].lang = rows[i].lang /\ TimeoutRow(rows[j])
            /\ \A k \in j + 1..i - 1 : ~PlainPass(rows[k])})
    BY <2>1 DEF EarnedInv, ShortsEarned, ShortEarned, Timed
  <2>4. \A i \in 1..Len(rows), t \in DOMAIN Gives :
          (rows[i].tool \in DOMAIN Needs /\ Needs[rows[i].tool] = Gives[t]
             /\ rows[i].note \notin {"short", "skipped", "no arguments"}) => Passed(rows[i].lang, t, i - 1)
    BY <2>1 DEF EarnedInv, ChainsEarned, ChainEarned, PassedIn, Passed, Uncalls
  <2>5. QED
    BY <2>2, <2>3, <2>4 DEF RowsAreEarned
<1>2. QED
  BY <1>1, EarnedAlways, PTL

\* A row of the report is the only one of its language and tool.
LEMMA RowIsAlone ==
  ASSUME EarnedInv, NEW i \in 1..Len(rows), NEW j \in 1..Len(rows), rows[i].lang \in Languages,
         rows[i].lang = rows[j].lang, rows[i].tool = rows[j].tool
  PROVE  i = j
<1> DEFINE P == Plan(opt)
<1>1. /\ Len(rows) \in Nat /\ Len(plan) \in Nat /\ Len(rows) + Len(plan) = Len(P)
      /\ \A k \in 1..Len(rows) : Cell(rows[k].lang, rows[k].tool) = P[k]
  BY DEF EarnedInv, Reported, OnPlan
<1>2. OnceEach(P)
  BY PlanIsNeat DEF Neat
<1> HIDE DEF P
<1>3. i \in 1..Len(P) /\ j \in 1..Len(P) /\ P[i] = P[j]
  BY <1>1
<1>4. PerLang(P[i])
  <2>1. P[i] = Cell(rows[i].lang, rows[i].tool)
    BY <1>1
  <2>2. Cell(rows[i].lang, rows[i].tool).lang = rows[i].lang
    BY DEF Cell
  <2>3. QED
    BY <2>1, <2>2 DEF PerLang
<1>5. QED
  BY <1>2, <1>3, <1>4 DEF OnceEach

\* So its mark, where the parser takes it, is what its column gets of the tool.
LEMMA MarkShows ==
  ASSUME EarnedInv, NEW i \in 1..Len(rows), NEW col, rows[i].lang \in Languages, rows[i].tool \in col,
         NEW k \in {"OK", "GAP", "FAIL", "SKIP"}, mark(rows[i]) = k
  PROVE  k \in cell_results(rows[i].lang, col)
<1> DEFINE l == rows[i].lang
           t == rows[i].tool
           Of1 == {j \in 1..Len(rows) : rows[j].lang = l /\ rows[j].tool = t}
<1>1. Of1 = {i}
  BY RowIsAlone
<1>2. parsed(l, t) = {k}
  <2>1. parsed(l, t) = {mark(rows[j]) : j \in Of1} \cap {"OK", "GAP", "FAIL", "SKIP"}
    BY DEF parsed
  <2> HIDE DEF Of1, l, t
  <2>2. {mark(rows[j]) : j \in Of1} = {k}
    BY <1>1
  <2>3. QED
    BY <2>1, <2>2
<1> HIDE DEF Of1, l, t
<1>3. (IF parsed(l, t) = {} THEN "SKIP" ELSE CHOOSE m \in parsed(l, t) : TRUE) = k
  BY <1>2
<1>4. t \in col
  BY DEF t
<1>5. k \in cell_results(l, col)
  BY <1>3, <1>4 DEF cell_results
<1>6. QED
  BY <1>5 DEF l

\* What the matrix says of a column is so of every tool of it: a tick is a pass and
\* no gap, and no failure is hidden but one that quotes "server gap"
\* (pass-to-matrix.py).
THEOREM MatrixTellsTheTruth == Spec => []MatrixIsHonest
<1>1. PlanInv /\ EarnedInv => MatrixIsHonest
  <2>1. SUFFICES ASSUME PlanInv, EarnedInv, NEW l \in Sections, NEW col \in Columns
                 PROVE  LET symbol == collapse(cell_results(l, col)) IN
                          /\ symbol = "ok" => \A r \in RowsOf(l, col) : r.ok /\ r.note # "gap"
                          /\ symbol = "G" => \A r \in RowsOf(l, col) : r.ok \/ Quoted(r)
                          /\ (\E r \in RowsOf(l, col) : ~r.ok /\ ~Quoted(r)) => symbol = "F"
    BY DEF MatrixIsHonest
  <2> DEFINE results == cell_results(l, col)
  <2>2. ASSUME NEW r \in RowsOf(l, col)
        PROVE  /\ ~r.ok /\ ~Quoted(r) => "FAIL" \in results
               /\ r.note = "gap" \/ Quoted(r) => "GAP" \in results
    <3>1. PICK i \in 1..Len(rows) : rows[i] = r /\ r.lang = l /\ r.tool \in col
      BY <2>2 DEF RowsOf
    <3>2. l \in Languages
      BY DEF Sections
    <3>3. ASSUME ~r.ok, ~Quoted(r) PROVE "FAIL" \in results
      <4>1. r.note \notin Passes
        BY <2>1, <3>1, <3>2, <3>3 DEF EarnedInv, NotesEarned, NoteEarned
      <4>2. mark(r) = "FAIL"
        BY <3>3, <4>1 DEF mark, Passes, Quoted
      <4>3. QED
        BY <2>1, <3>1, <3>2, <4>2, MarkShows
    <3>4. ASSUME r.note = "gap" \/ Quoted(r) PROVE "GAP" \in results
      <4>1. mark(r) = "GAP"
        BY <3>4 DEF mark, Quoted
      <4>2. QED
        BY <2>1, <3>1, <3>2, <4>1, MarkShows
    <3>5. QED
      BY <3>3, <3>4
  <2> HIDE DEF results
  <2>3. "FAIL" \in results => collapse(results) = "F"
    BY DEF collapse
  <2>4. "GAP" \in results => collapse(results) # "ok"
    <3>1. "GAP" \in results => results # {"SKIP"}
      OBVIOUS
    <3>2. QED
      BY <3>1 DEF collapse
  <2>5. QED
    BY <2>2, <2>3, <2>4 DEF results
<1>2. QED
  BY <1>1, PlanAlways, EarnedAlways, PTL
=============================================================================
