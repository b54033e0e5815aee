------------------------------ MODULE Bench_proofs ------------------------------
(***************************************************************************)
(* Theorems about Bench, for every workspace, every order of the kinds and *)
(* the arms, every shuffle of the symbols, and whatever calls fail.        *)
(***************************************************************************)
EXTENDS Bench, SequenceTheorems, FiniteSetTheorems, WellFoundedInduction, TLAPS

-----------------------------------------------------------------------------
(* The inductive invariant.                                                 *)

\* A sequence, whatever its elements.
IsSeq(q) == Len(q) \in Nat /\ q = [i \in 1..Len(q) |-> q[i]]

Oracle == {"collect", "diagnose", "generate", "nothing"}
Passing == {"run", "done", "aborted"}

\* What is recorded of a file: as much as the server knew of it.
Readings == [file : STRING, count : Nat, full : BOOLEAN]
IsReading(r, f) ==
  r.file = f.name /\ r.count \in Nat /\ r.count <= f.diagnostics /\ (r.full => r.count = f.diagnostics)

\* What the variables hold.
Types ==
  /\ world \in Worlds /\ mode \in Modes /\ harness \in Harnesses
  /\ phase \in Oracle \cup Passing /\ server \in {"up", "dead"} /\ fails \in 0..MaxFail
  /\ file \in 1..Len(Files) + 1 /\ k \in 1..Len(KINDS) + 1 /\ s \in 1..Len(symbols) + 1
  /\ symbols \in Seq(world.symbols) /\ records \in Seq(Readings) /\ unseen \subseteq Paths
  /\ pool \subseteq 1..Len(records) /\ count \in 0..Target
  /\ IsSeq(bank) /\ IsSeq(todo) /\ IsSeq(results)

\* What the oracle has done when. Symbols are shuffled without repeats.
Stages ==
  /\ phase \in {"collect", "nothing"} => records = <<>>
  /\ phase \in {"collect", "nothing", "diagnose"} =>
       k = 1 /\ s = 1 /\ count = 0 /\ bank = <<>> /\ pool = {}
  /\ phase = "collect" /\ file = 1 => symbols = <<>>
  /\ phase \notin {"collect", "nothing"} =>
       \A i, j \in 1..Len(symbols) : symbols[i] = symbols[j] => i = j
  /\ phase \in Oracle => results = <<>> /\ todo = <<>>

\* The records are of files already asked about, each once.
Recorded ==
  \A i \in 1..Len(records) :
    /\ \E j \in 1..file - 1 : IsReading(records[i], Files[j])
    /\ \A j \in 1..Len(records) : records[i].file = records[j].file => i = j

\* Whose turn the diagnostics are: the pool is the end of what has any, and a
\* record whose turn has not come again since question i waits for it.
Faulty(r) == r \in 1..Len(records) /\ records[r].count > 0
AskedSince(i, r) == \E h \in i..Len(bank) : bank[h].kind = "diagnostics_count" /\ bank[h].anchor.file = records[r].file
Waits(m, r) == \/ r < m /\ (m \in pool => r \in pool)
               \/ m < r /\ m \notin pool /\ r \in pool
InTurn ==
  /\ \A p \in pool : Faulty(p) /\ \A r \in 1..Len(records) : Faulty(r) /\ p < r => r \in pool
  /\ \A i \in 1..Len(bank), m, r \in 1..Len(records) :
       (bank[i].kind = "diagnostics_count" /\ bank[i].anchor.file = records[m].file /\ Faulty(m) /\ Faulty(r) /\ m # r)
          => AskedSince(i, r) \/ Waits(m, r)
AgainInTurn ==
  \A i, j \in 1..Len(bank) :
    (i < j /\ bank[i].kind = "diagnostics_count" /\ bank[j].kind = "diagnostics_count" /\ bank[i].anchor.file = bank[j].anchor.file)
      => \A r \in 1..Len(records) : Faulty(r) =>
           \E h \in i..j - 1 : bank[h].kind = "diagnostics_count" /\ bank[h].anchor.file = records[r].file

\* Each question is of a symbol its kind has come past, but no other has its kind
\* and symbol; one of diagnostics is of a record.
Passed(q, t) ==
  /\ q.of = symbols[t]
  /\ mode = "round_robin" => t < s
  /\ mode = "per_kind" => \E l \in 1..Len(KINDS) : q.kind = KINDS[l] /\ (l < k \/ (l = k /\ t < s))
OfRecord(q) == \E m \in 1..Len(records) : Faulty(m) /\ q.anchor.file = records[m].file
Walked(q) ==
  /\ q.kind \in GENERATORS_BY_NAME /\ Sound(q)
  /\ q.kind # "diagnostics_count" => \E t \in 1..Len(symbols) : Passed(q, t)
  /\ q.kind = "diagnostics_count" => OfRecord(q)
  /\ mode = "per_kind" => \E l \in 1..Len(KINDS) : q.kind = KINDS[l] /\ l <= k
BankInv ==
  /\ \A i \in 1..Len(bank) : Walked(bank[i])
  /\ \A i, j \in 1..Len(bank) :
       (i # j /\ bank[i].kind = bank[j].kind /\ bank[i].kind # "diagnostics_count") => bank[i].of # bank[j].of

\* How many there are of each kind.
OfKind(kind) == {i \in 1..Len(bank) : bank[i].kind = kind}
Counted ==
  /\ mode = "round_robin" => k = 1 /\ count = Len(bank)
  /\ mode = "per_kind" =>
       /\ \A l \in 1..Len(KINDS) : Cardinality(OfKind(KINDS[l])) <= Target
       /\ k <= Len(KINDS) => Cardinality(OfKind(KINDS[k])) = count

\* The rows and what is to do are the runs, and the arms take turns.
RunOf(row) == [trial |-> row.trial, q |-> row.q, arm |-> row.arm]
OnPass == phase \in Passing =>
  /\ Len(results) + Len(todo) = Len(Runs)
  /\ \A i \in 1..Len(results) : RunOf(results[i]) = Runs[i]
  /\ \A i \in 1..Len(todo) : todo[i] = Runs[Len(results) + i]
ByTurns == Len(Arms) = 2 =>
  /\ Cardinality(Of(Arms[1])) \in {Cardinality(Of(Arms[2])), Cardinality(Of(Arms[2])) + 1}
  /\ Cardinality(Of(Arms[1])) = Cardinality(Of(Arms[2])) <=> Len(results) % 2 = 0
Ends ==
  /\ phase = "done" => todo = <<>>
  /\ phase = "aborted" => OnePharos /\ (results = <<>> \/ Head(todo).arm = "treatment")

BankedInv == Recorded /\ InTurn /\ AgainInTurn /\ BankInv /\ Counted
PassInv == OnPass /\ ByTurns /\ Ends
BenchInv == Types /\ Stages /\ BankedInv /\ PassInv

-----------------------------------------------------------------------------
(* Facts about data.                                                        *)

\* Every nonempty set of numbers has a least element.
LEMMA LeastElement ==
  ASSUME NEW T, T \subseteq Nat, T # {}
  PROVE  \E m \in T : \A l \in T : m <= l
<1> DEFINE Below == OpToRel(<, Nat)
<1>1. IsWellFoundedOn(Below, Nat)
  BY NatLessThanWellFounded
<1>2. \A y, x \in Nat : y < x => <<y, x>> \in Below
  BY DEF OpToRel
<1> HIDE DEF Below
<1>3. PICK x \in T : \A y \in T : ~ (<<y, x>> \in Below)
  BY <1>1, WFMin
<1>4. \A y \in T : ~ (y < x)
  BY <1>2, <1>3
<1>5. QED
  BY <1>4

\* What Min finds.
LEMMA MinIsLeast ==
  ASSUME NEW T, T \subseteq Nat, T # {}
  PROVE  Min(T) \in T /\ \A l \in T : Min(T) <= l
<1>1. \E m \in T : \A l \in T : m <= l
  BY LeastElement
<1>2. QED
  BY <1>1 DEF Min

\* One element more.
OneMore(q, x, r) ==
  /\ Len(q) \in Nat /\ Len(r) = Len(q) + 1 /\ r[Len(q) + 1] = x
  /\ \A i \in 1..Len(q) : r[i] = q[i]

\* A function on 1..n is a sequence.
LEMMA FunctionIsSeq ==
  ASSUME NEW n \in Nat, NEW f, f = [i \in 1..n |-> f[i]]
  PROVE  IsSeq(f) /\ Len(f) = n /\ f \in Seq({f[i] : i \in 1..n})
<1> DEFINE S == {f[i] : i \in 1..n}
<1>1. f \in [1..n -> S]
  OBVIOUS
<1> HIDE DEF S
<1>2. f \in Seq(S)
  BY <1>1, SeqDef
<1>3. Len(f) = n
  BY <1>1, <1>2, LenProperties
<1>4. QED
  BY <1>2, <1>3 DEF IsSeq, S

\* A sequence whatever its elements is one of any set that holds them.
LEMMA SeqOfItsElements ==
  ASSUME NEW q, IsSeq(q), NEW S, \A i \in 1..Len(q) : q[i] \in S
  PROVE  q \in Seq(S)
<1> DEFINE n == Len(q)
<1>1. n \in Nat /\ q = [i \in 1..n |-> q[i]] /\ \A i \in 1..n : q[i] \in S
  BY DEF IsSeq
<1> HIDE DEF n
<1>2. q \in [1..n -> S]
  BY <1>1
<1>3. QED
  BY <1>1, <1>2, SeqDef

LEMMA SeqIsSeq ==
  ASSUME NEW S, NEW q \in Seq(S)
  PROVE  IsSeq(q)
<1>1. Len(q) \in Nat /\ q \in [1..Len(q) -> S]
  BY LenProperties
<1>2. QED
  BY <1>1 DEF IsSeq

LEMMA Appended ==
  ASSUME NEW q, IsSeq(q), NEW x
  PROVE  IsSeq(Append(q, x)) /\ OneMore(q, x, Append(q, x))
<1> DEFINE S == {q[i] : i \in 1..Len(q)} \cup {x}
<1>1. q \in Seq(S)
  <2>1. \A i \in 1..Len(q) : q[i] \in S
    OBVIOUS
  <2> HIDE DEF S
  <2>2. QED
    BY <2>1, SeqOfItsElements
<1>2. x \in S
  OBVIOUS
<1> HIDE DEF S
<1>3. Append(q, x) \in Seq(S) /\ OneMore(q, x, Append(q, x))
  BY <1>1, <1>2, AppendProperties, LenProperties DEF OneMore
<1>4. QED
  BY <1>3, SeqIsSeq

LEMMA HeadAndTail ==
  ASSUME NEW q, IsSeq(q), q # <<>>
  PROVE  /\ IsSeq(Tail(q)) /\ Len(q) \in Nat /\ Len(q) >= 1 /\ Len(Tail(q)) = Len(q) - 1 /\ Head(q) = q[1]
         /\ \A i \in 1..Len(q) - 1 : Tail(q)[i] = q[i + 1]
<1> DEFINE S == {q[i] : i \in 1..Len(q)}
<1>1. q \in Seq(S)
  <2>1. \A i \in 1..Len(q) : q[i] \in S
    OBVIOUS
  <2> HIDE DEF S
  <2>2. QED
    BY <2>1, SeqOfItsElements
<1> HIDE DEF S
<1>2. /\ Tail(q) \in Seq(S) /\ Len(Tail(q)) = Len(q) - 1
      /\ \A i \in 1..Len(Tail(q)) : Tail(q)[i] = q[i + 1]
  BY <1>1, HeadTailProperties
<1>3. Len(q) \in Nat /\ Len(q) >= 1 /\ Head(q) = q[1]
  BY <1>1
<1>4. QED
  BY <1>2, <1>3, SeqIsSeq

\* The elements of a finite set in some order.
LEMMA SetInOrder ==
  ASSUME NEW T, IsFiniteSet(T)
  PROVE  SetToSeq(T) \in Seq(T)
<1> DEFINE n == Cardinality(T)
<1>1. n \in Nat /\ ExistsBijection(1..n, T)
  BY FS_CardinalityType
<1> HIDE DEF n
<1>2. PICK g \in [1..n -> T] : IsInjective(g)
  BY <1>1 DEF ExistsBijection, Bijection, Injection
<1>3. (CHOOSE f \in [1..n -> T] : IsInjective(f)) \in [1..n -> T]
  BY <1>2
<1>4. SetToSeq(T) \in [1..n -> T]
  BY <1>3 DEF SetToSeq, n
<1>5. QED
  BY <1>1, <1>4, SeqDef

LEMMA OneOfTheOrders ==
  ASSUME NEW T, IsFiniteSet(T), NEW q \in SetToSeqs(T)
  PROVE  q \in Seq(T) /\ \A i, j \in 1..Len(q) : q[i] = q[j] => i = j
<1> DEFINE n == Cardinality(T)
<1>1. n \in Nat
  BY FS_CardinalityType
<1>2. q \in [1..n -> T] /\ \A i, j \in 1..n : i # j => q[i] # q[j]
  BY DEF SetToSeqs
<1> HIDE DEF n
<1>3. q \in Seq(T)
  BY <1>1, <1>2, SeqDef
<1>4. Len(q) = n
  BY <1>1, <1>2, <1>3, LenProperties
<1>5. QED
  BY <1>2, <1>3, <1>4

\* The positions of a sequence where something holds, with one element more.
LEMMA OnePlace ==
  ASSUME NEW n \in Nat, NEW T \in SUBSET (1..n)
  PROVE  /\ IsFiniteSet(T) /\ Cardinality(T) \in Nat /\ Cardinality(T) <= n
         /\ Cardinality(T \cup {n + 1}) = Cardinality(T) + 1
<1>1. IsFiniteSet(1..n) /\ Cardinality(1..n) = n
  BY FS_Interval
<1>2. IsFiniteSet(T) /\ Cardinality(T) <= n /\ Cardinality(T) \in Nat
  BY <1>1, FS_Subset, FS_CardinalityType
<1>3. n + 1 \notin T
  OBVIOUS
<1>4. QED
  BY <1>2, <1>3, FS_AddElement

-----------------------------------------------------------------------------
(* The constants.                                                           *)

LEMMA OfTheWorkspace ==
  ASSUME world \in Worlds
  PROVE  /\ Len(Files) \in Nat /\ DOMAIN Files = 1..Len(Files) /\ IsFiniteSet(world.symbols)
         /\ \A i \in 1..Len(Files) : Files[i] \in WalkedFiles
         /\ \A i, j \in 1..Len(Files) : Files[i].name = Files[j].name => i = j
         /\ \A x \in world.symbols : IsSymbol(x)
         /\ \A x, y \in world.symbols : ToSet(x.refs) \cap ToSet(y.refs) # {} => x.file = y.file
<1>1. Files \in Seq(WalkedFiles)
  BY WorkspaceAssumption DEF Files
<1>2. Len(Files) \in Nat /\ DOMAIN Files = 1..Len(Files) /\ \A i \in 1..Len(Files) : Files[i] \in WalkedFiles
  BY <1>1, LenProperties
<1>3. QED
  BY <1>2, WorkspaceAssumption DEF Files

LEMMA OfTheKinds ==
  /\ Len(KINDS) \in Nat /\ Len(KINDS) >= 1 /\ DOMAIN KINDS = 1..Len(KINDS) /\ KINDS \in Seq(GENERATORS_BY_NAME)
  /\ \A i \in 1..Len(KINDS) : KINDS[i] \in GENERATORS_BY_NAME
  /\ \A i, j \in 1..Len(KINDS) : KINDS[i] = KINDS[j] => i = j
<1>1. KINDS \in Seq(GENERATORS_BY_NAME) /\ KINDS # <<>> /\ IsInjective(KINDS)
  BY BenchAssumption
<1>2. Len(KINDS) \in Nat /\ DOMAIN KINDS = 1..Len(KINDS) /\ \A i \in 1..Len(KINDS) : KINDS[i] \in GENERATORS_BY_NAME
  BY <1>1, LenProperties
<1>3. Len(KINDS) >= 1
  <2>1. Len(KINDS) # 0
    BY <1>1
  <2>2. QED
    BY <1>2, <2>1
<1>4. QED
  BY <1>1, <1>2, <1>3 DEF IsInjective

LEMMA OfTheArms ==
  /\ Len(Arms) \in 0..2 /\ DOMAIN Arms = 1..Len(Arms)
  /\ \A i, j \in 1..Len(Arms) : Arms[i] = Arms[j] => i = j
<1>1. Arms \in Seq({"control", "treatment"}) /\ IsInjective(Arms)
  BY BenchAssumption
<1>2. /\ Len(Arms) \in Nat /\ DOMAIN Arms = 1..Len(Arms)
      /\ \A i \in 1..Len(Arms) : Arms[i] = "control" \/ Arms[i] = "treatment"
  BY <1>1, LenProperties
<1>3. \A i, j \in 1..Len(Arms) : Arms[i] = Arms[j] => i = j
  BY <1>1, <1>2 DEF IsInjective
<1>4. ~(Len(Arms) >= 3)
  <2>1. SUFFICES ASSUME Len(Arms) >= 3 PROVE FALSE
    OBVIOUS
  <2>2. 1 \in 1..Len(Arms) /\ 2 \in 1..Len(Arms) /\ 3 \in 1..Len(Arms)
    BY <1>2, <2>1
  <2>3. Arms[1] # Arms[2] /\ Arms[2] # Arms[3] /\ Arms[1] # Arms[3]
    BY <1>3, <2>2
  <2>4. QED
    BY <1>2, <2>2, <2>3
<1>5. QED
  BY <1>2, <1>3, <1>4

-----------------------------------------------------------------------------
(* The invariant at the start.                                              *)

LEMMA BenchInit == Init => BenchInv
<1>1. SUFFICES ASSUME Init PROVE BenchInv
  OBVIOUS
<1>2. IsSeq(<<>>) /\ Len(<<>>) = 0 /\ \A S : <<>> \in Seq(S)
  BY DEF IsSeq
<1>3. Types
  <2>1. Len(Files) \in Nat
    BY <1>1, OfTheWorkspace DEF Init
  <2>2. Len(KINDS) \in Nat
    BY OfTheKinds
  <2>3. QED
    BY <1>1, <1>2, <2>1, <2>2, BenchAssumption DEF Init, Types, Oracle, Passing
<1>4. Stages
  BY <1>1 DEF Init, Stages
<1>5. BankedInv
  <2>1. Recorded /\ InTurn /\ AgainInTurn /\ BankInv
    BY <1>1, <1>2 DEF Init, Recorded, InTurn, AgainInTurn, BankInv
  <2>2. \A kind : Cardinality(OfKind(kind)) = 0
    <3>1. \A kind : OfKind(kind) = {}
      BY <1>1, <1>2 DEF Init, OfKind
    <3>2. \A kind : Cardinality(OfKind(kind)) = Cardinality({})
      BY <3>1, Zenon
    <3>3. QED
      BY <3>2, FS_EmptySet
  <2>3. Counted
    <3>1. Target \in Nat
      BY BenchAssumption
    <3>2. count = 0 /\ k = 1 /\ Len(bank) = 0
      BY <1>1, <1>2 DEF Init
    <3>3. QED
      BY <2>2, <3>1, <3>2 DEF Counted
  <2>4. QED
    BY <2>1, <2>3 DEF BankedInv
<1>6. PassInv
  <2>1. \A arm : Cardinality(Of(arm)) = 0
    <3>1. \A arm : Of(arm) = {}
      BY <1>1, <1>2 DEF Init, Of
    <3>2. \A arm : Cardinality(Of(arm)) = Cardinality({})
      BY <3>1, Zenon
    <3>3. QED
      BY <3>2, FS_EmptySet
  <2>2. OnPass /\ Ends
    BY <1>1 DEF Init, OnPass, Ends, Passing
  <2>3. ByTurns
    <3>1. Len(results) = 0
      BY <1>1, <1>2 DEF Init
    <3>2. QED
      BY <2>1, <3>1 DEF ByTurns
  <2>4. QED
    BY <2>2, <2>3 DEF PassInv
<1>7. QED
  BY <1>3, <1>4, <1>5, <1>6 DEF BenchInv

-----------------------------------------------------------------------------
(* Before the questions: the symbols and the diagnostics.                   *)

\* What holds while there is no question.
NoBank == bank = <<>> /\ results = <<>> /\ todo = <<>> /\ pool = {} /\ k = 1 /\ s = 1 /\ count = 0

LEMMA NoQuestionsYet == NoBank /\ phase \notin Passing /\ Recorded => BankedInv /\ PassInv
<1> SUFFICES ASSUME NoBank, phase \notin Passing, Recorded PROVE BankedInv /\ PassInv
  OBVIOUS
<1>1. bank = <<>> /\ results = <<>> /\ todo = <<>> /\ pool = {} /\ count = 0 /\ k = 1
  BY DEF NoBank
<1>2. Len(<<>>) = 0
  OBVIOUS
<1>3. InTurn /\ AgainInTurn /\ BankInv
  BY <1>1, <1>2 DEF InTurn, AgainInTurn, BankInv
<1>4. \A kind : Cardinality(OfKind(kind)) = 0
  <2>1. \A kind : OfKind(kind) = {}
    BY <1>1, <1>2 DEF OfKind
  <2>2. \A kind : Cardinality(OfKind(kind)) = Cardinality({})
    BY <2>1, Zenon
  <2>3. QED
    BY <2>2, FS_EmptySet
<1>5. Counted
  <2>1. Target \in Nat
    BY BenchAssumption
  <2>2. Len(bank) = 0
    BY <1>1, <1>2
  <2>3. QED
    BY <1>1, <1>4, <2>1, <2>2 DEF Counted
<1>6. \A arm : Cardinality(Of(arm)) = 0
  <2>1. \A arm : Of(arm) = {}
    BY <1>1, <1>2 DEF Of
  <2>2. \A arm : Cardinality(Of(arm)) = Cardinality({})
    BY <2>1, Zenon
  <2>3. QED
    BY <2>2, FS_EmptySet
<1>7. OnPass /\ Ends
  BY DEF OnPass, Ends, Passing
<1>8. ByTurns
  <2>1. Len(results) = 0
    BY <1>1, <1>2
  <2>2. QED
    BY <1>6, <2>1 DEF ByTurns
<1>9. QED
  BY <1>3, <1>5, <1>7, <1>8 DEF BankedInv, PassInv

LEMMA NoQuestionsNext == (NoBank /\ phase \notin Passing /\ Recorded)' => (BankedInv /\ PassInv)'
BY NoQuestionsYet, PTL

LEMMA CollectKeeps ==
  ASSUME BenchInv, collect_symbols
  PROVE  BenchInv'
<1>1. /\ phase = "collect" /\ file <= Len(Files) /\ file' = file + 1
      /\ UNCHANGED <<world, mode, harness, phase, records, pool, k, s, count, bank, todo, results, server, unseen>>
  BY DEF collect_symbols, started
<1>2. PICK ok \in BOOLEAN :
        Called(ok) /\ symbols' = (IF ok THEN symbols \o SymbolsOf(Files[file].name) ELSE symbols)
  BY DEF collect_symbols
<1>3. Types /\ Stages
  BY DEF BenchInv
<1>4. NoBank /\ records = <<>>
  BY <1>1, <1>3 DEF Stages, NoBank, Oracle
<1>5. Types'
  <2>1. world \in Worlds /\ Len(Files) \in Nat /\ IsFiniteSet(world.symbols) /\ Len(Files)' = Len(Files)
    BY <1>1, <1>3, OfTheWorkspace DEF Types, Files
  <2>2. symbols' \in Seq(world.symbols)
    <3>1. SymbolsOf(Files[file].name) \in Seq(world.symbols)
      <4> DEFINE T == {x \in world.symbols : x.file = Files[file].name /\ Files[file].name \notin unseen}
      <4>1. T \subseteq world.symbols /\ SymbolsOf(Files[file].name) = SetToSeq(T)
        BY DEF SymbolsOf
      <4> HIDE DEF T
      <4>2. IsFiniteSet(T)
        BY <2>1, <4>1, FS_Subset
      <4>3. SetToSeq(T) \in Seq(T)
        BY <4>2, SetInOrder
      <4>4. QED
        BY <4>1, <4>3, SeqMonotonic
    <3>2. symbols \in Seq(world.symbols)
      BY <1>3 DEF Types
    <3>3. symbols \o SymbolsOf(Files[file].name) \in Seq(world.symbols)
      BY <3>1, <3>2, ConcatProperties
    <3>4. QED
      BY <1>2, <3>2, <3>3
  <2>3. Len(symbols') \in Nat
    BY <2>2, LenProperties
  <2>4. fails' \in 0..MaxFail
    BY <1>2, <1>3, BenchAssumption DEF Called, Types
  <2>5. file' \in 1..Len(Files) + 1 /\ s' \in 1..Len(symbols') + 1
    BY <1>1, <1>3, <1>4, <2>1, <2>3 DEF Types, NoBank
  <2>6. symbols' \in Seq(world'.symbols) /\ file' \in 1..Len(Files)' + 1
    BY <1>1, <2>1, <2>2, <2>5
  <2>7. QED
    BY <1>1, <1>3, <2>4, <2>5, <2>6 DEF Types, Paths, Files
<1>6. Stages'
  <2>1. file' # 1
    BY <1>1, <1>3, OfTheWorkspace DEF Types
  <2>2. QED
    BY <1>1, <1>3, <2>1 DEF Stages, Oracle
<1>7. (NoBank /\ phase \notin Passing /\ Recorded)'
  <2>1. NoBank'
    BY <1>1, <1>4 DEF NoBank
  <2>2. Recorded'
    BY <1>1, <1>4 DEF Recorded
  <2>3. QED
    BY <1>1, <2>1, <2>2 DEF Passing
<1>8. QED
  BY <1>5, <1>6, <1>7, NoQuestionsNext DEF BenchInv

LEMMA PrepareKeeps ==
  ASSUME BenchInv, Prepare
  PROVE  BenchInv'
<1>1. /\ phase = "collect" /\ file > Len(Files)
      /\ UNCHANGED <<world, mode, harness, records, pool, k, s, count, bank, todo, results, server, unseen, fails>>
      /\ IF symbols = <<>> THEN phase' = "nothing" /\ UNCHANGED <<symbols, file>>
         ELSE phase' = "diagnose" /\ symbols' \in SetToSeqs(Kept) /\ file' = 1
  BY DEF Prepare, started
<1>2. Types /\ Stages
  BY DEF BenchInv
<1>3. NoBank /\ records = <<>>
  BY <1>1, <1>2 DEF Stages, NoBank, Oracle
<1>4. /\ symbols' \in Seq(world.symbols) /\ Len(symbols') \in Nat
      /\ phase' = "diagnose" => \A i, j \in 1..Len(symbols') : symbols'[i] = symbols'[j] => i = j
  <2>1. CASE symbols = <<>>
    <3>1. symbols \in Seq(world.symbols)
      BY <1>2 DEF Types
    <3>2. QED
      BY <1>1, <2>1, <3>1, LenProperties
  <2>2. CASE symbols # <<>>
    <3>1. world \in Worlds /\ symbols \in Seq(world.symbols)
      BY <1>2 DEF Types
    <3>2. IsFiniteSet(world.symbols)
      BY <3>1, OfTheWorkspace
    <3>3. Kept \subseteq world.symbols
      BY <3>1, LenProperties DEF Kept, ToSet
    <3>4. IsFiniteSet(Kept)
      BY <3>2, <3>3, FS_Subset
    <3>5. symbols' \in SetToSeqs(Kept)
      BY <1>1, <2>2
    <3>6. symbols' \in Seq(Kept) /\ \A i, j \in 1..Len(symbols') : symbols'[i] = symbols'[j] => i = j
      BY <3>4, <3>5, OneOfTheOrders
    <3>7. symbols' \in Seq(world.symbols)
      BY <3>3, <3>6, SeqMonotonic
    <3>8. QED
      BY <3>6, <3>7, LenProperties
  <2>3. QED
    BY <2>1, <2>2
<1>5. Types'
  <2>1. Len(Files) \in Nat /\ Len(Files)' = Len(Files) /\ world' = world
    BY <1>1, <1>2, OfTheWorkspace DEF Types, Files
  <2>2. file' \in 1..Len(Files)' + 1
    BY <1>1, <1>2, <2>1 DEF Types
  <2>3. s' \in 1..Len(symbols') + 1
    BY <1>1, <1>3, <1>4 DEF NoBank
  <2>4. symbols' \in Seq(world'.symbols)
    BY <1>4, <2>1
  <2>5. phase' \in Oracle \cup Passing
    BY <1>1 DEF Oracle
  <2>6. QED
    BY <1>1, <1>2, <2>2, <2>3, <2>4, <2>5 DEF Types, Paths, Files
<1>6. Stages'
  <2>1. CASE symbols = <<>>
    BY <1>1, <1>2, <2>1 DEF Stages, Oracle
  <2>2. CASE symbols # <<>>
    BY <1>1, <1>2, <1>4, <2>2 DEF Stages, Oracle
  <2>3. QED
    BY <2>1, <2>2
<1>7. (NoBank /\ phase \notin Passing /\ Recorded)'
  <2>1. NoBank'
    BY <1>1, <1>3 DEF NoBank
  <2>2. Recorded'
    BY <1>1, <1>3 DEF Recorded
  <2>3. phase' \notin Passing
    BY <1>1 DEF Passing
  <2>4. QED
    BY <2>1, <2>2, <2>3
<1>8. QED
  BY <1>5, <1>6, <1>7, NoQuestionsNext DEF BenchInv

\* Each file is recorded once, with no more than its diagnostics.
LEMMA DiagnosticsRecorded ==
  ASSUME Types, Recorded, file <= Len(Files), file' = file + 1, world' = world,
         records' = Append(records, Diagnosed(Files[file]))
  PROVE  Recorded' /\ records' \in Seq(Readings)
<1> DEFINE d == Diagnosed(Files[file])
<1>1. /\ file \in 1..Len(Files) /\ Len(Files) \in Nat /\ Files[file] \in WalkedFiles
      /\ \A i, j \in 1..Len(Files) : Files[i].name = Files[j].name => i = j
  <2>1. /\ Len(Files) \in Nat /\ \A i \in 1..Len(Files) : Files[i] \in WalkedFiles
        /\ \A i, j \in 1..Len(Files) : Files[i].name = Files[j].name => i = j
    BY OfTheWorkspace DEF Types
  <2>2. file \in 1..Len(Files)
    BY <2>1 DEF Types
  <2>3. QED
    BY <2>1, <2>2
<1>2. d \in Readings /\ IsReading(d, Files[file])
  <2> DEFINE f == Files[file]
             c == IF f.name \in unseen THEN 0 ELSE f.diagnostics
  <2>1. PICK b \in BOOLEAN : b = (unseen = {})
    OBVIOUS
  <2>2. d = [file |-> f.name, full |-> b, count |-> c]
    BY <2>1, Zenon DEF Diagnosed
  <2>3. b => c = f.diagnostics
    BY <2>1
  <2>4. f.name \in STRING /\ f.diagnostics \in Nat
    BY <1>1 DEF WalkedFiles
  <2>5. c \in Nat /\ c <= f.diagnostics
    BY <2>4
  <2> HIDE DEF d, c
  <2>6. QED
    BY <2>2, <2>3, <2>4, <2>5 DEF Readings, IsReading
<1>3. records \in Seq(Readings)
  BY DEF Types
<1>4. records' = Append(records, d) /\ Files' = Files
  BY DEF Files
<1> HIDE DEF d
<1>5. d.file = Files[file].name
  BY <1>2 DEF IsReading
<1>6. /\ records' \in Seq(Readings)
      /\ Len(records) \in Nat /\ Len(records') = Len(records) + 1 /\ records'[Len(records) + 1] = d
      /\ \A i \in 1..Len(records) : records'[i] = records[i]
  BY <1>2, <1>3, <1>4, AppendProperties, LenProperties
<1>7. ASSUME NEW i \in 1..Len(records)
      PROVE  /\ \E j \in 1..file - 1 : IsReading(records[i], Files[j])
             /\ records[i].file # d.file
             /\ \A j \in 1..Len(records) : records[i].file = records[j].file => i = j
  <2>1. PICK j \in 1..file - 1 : IsReading(records[i], Files[j])
    BY DEF Recorded
  <2>2. j \in 1..Len(Files) /\ j # file
    BY <1>1, <2>1
  <2>3. records[i].file = Files[j].name
    BY <2>1 DEF IsReading
  <2>4. records[i].file # d.file
    BY <1>1, <1>5, <2>2, <2>3
  <2>5. QED
    BY <2>1, <2>4 DEF Recorded
<1>8. Recorded'
  <2>1. SUFFICES ASSUME NEW i \in 1..Len(records')
        PROVE  /\ \E j \in 1..file' - 1 : IsReading(records'[i], Files[j])
               /\ \A j \in 1..Len(records') : records'[i].file = records'[j].file => i = j
    BY <1>4 DEF Recorded, IsReading
  <2>2. CASE i \in 1..Len(records)
    <3>1. \E j \in 1..file' - 1 : IsReading(records'[i], Files[j])
      <4>1. records'[i] = records[i]
        BY <1>6, <2>2
      <4>2. PICK j \in 1..file - 1 : IsReading(records[i], Files[j])
        BY <1>7, <2>2
      <4>3. j \in 1..file' - 1
        BY <1>1
      <4>4. QED
        BY <4>1, <4>2, <4>3
    <3>2. ASSUME NEW j \in 1..Len(records'), records'[i].file = records'[j].file PROVE i = j
      <4>1. records'[i] = records[i] /\ (j \in 1..Len(records) \/ j = Len(records) + 1)
        BY <1>6, <2>2
      <4>2. CASE j \in 1..Len(records)
        <5>1. records[i].file = records[j].file
          BY <1>6, <3>2, <4>1, <4>2
        <5>2. QED
          BY <1>7, <2>2, <4>2, <5>1
      <4>3. CASE j = Len(records) + 1
        <5>1. records[i].file = d.file
          BY <1>6, <3>2, <4>1, <4>3
        <5>2. QED
          BY <1>7, <2>2, <5>1
      <4>4. QED
        BY <4>1, <4>2, <4>3
    <3>3. QED
      BY <3>1, <3>2
  <2>3. CASE i = Len(records) + 1
    <3>1. file \in 1..file' - 1 /\ records'[i] = d
      BY <1>1, <1>6, <2>3
    <3>2. ASSUME NEW j \in 1..Len(records'), records'[i].file = records'[j].file PROVE i = j
      <4>1. records'[i] = d /\ (j \in 1..Len(records) \/ j = Len(records) + 1)
        BY <1>6, <2>3
      <4>2. CASE j \in 1..Len(records)
        <5>1. records[j].file = d.file
          BY <1>6, <3>2, <4>1, <4>2
        <5>2. QED
          BY <1>7, <4>2, <5>1
      <4>3. QED
        BY <2>3, <4>1, <4>2
    <3>3. QED
      BY <1>2, <3>1, <3>2
  <2>4. i \in 1..Len(records) \/ i = Len(records) + 1
    BY <1>6
  <2>5. QED
    BY <2>2, <2>3, <2>4
<1>9. QED
  BY <1>6, <1>8

LEMMA DiagnosticsKeep ==
  ASSUME BenchInv, precompute_diagnostics
  PROVE  BenchInv'
<1>1. /\ phase = "diagnose" /\ file <= Len(Files) /\ file' = file + 1
      /\ phase' = IF file = Len(Files) THEN "generate" ELSE phase
      /\ UNCHANGED <<world, mode, harness, symbols, pool, k, s, count, bank, todo, results, server, unseen>>
  BY DEF precompute_diagnostics, started
<1>2. PICK ok \in BOOLEAN :
        /\ Called(ok)
        /\ records' = IF ok THEN Append(records, Diagnosed(Files[file])) ELSE records
  BY DEF precompute_diagnostics
<1>3. Types /\ Stages /\ Recorded
  BY DEF BenchInv, BankedInv
<1>4. NoBank
  BY <1>1, <1>3 DEF Stages, NoBank, Oracle
<1>5. Recorded' /\ records' \in Seq(Readings)
  <2>1. CASE ok
    BY <1>1, <1>2, <1>3, <2>1, DiagnosticsRecorded
  <2>2. CASE ~ok
    <3>1. file \in Nat /\ records' = records /\ Files' = Files
      BY <1>1, <1>2, <1>3, <2>2, OfTheWorkspace DEF Types, Files
    <3>2. \A j \in 1..file - 1 : j \in 1..file' - 1
      BY <1>1, <3>1
    <3>3. Recorded'
      BY <1>3, <3>1, <3>2 DEF Recorded, IsReading
    <3>4. QED
      BY <1>3, <3>1, <3>3 DEF Types
  <2>3. QED
    BY <2>1, <2>2
<1>6. Types'
  <2>1. Len(Files) \in Nat /\ Len(Files)' = Len(Files)
    BY <1>1, <1>3, OfTheWorkspace DEF Types, Files
  <2>2. fails' \in 0..MaxFail
    BY <1>2, <1>3, BenchAssumption DEF Called, Types
  <2>3. file' \in 1..Len(Files)' + 1
    BY <1>1, <1>3, <2>1 DEF Types
  <2>4. pool' = {} /\ phase' \in Oracle
    BY <1>1, <1>4 DEF NoBank, Oracle
  <2>5. QED
    BY <1>1, <1>3, <1>5, <2>2, <2>3, <2>4 DEF Types, Paths, Files
<1>7. Stages'
  BY <1>1, <1>3 DEF Stages, Oracle
<1>8. (NoBank /\ phase \notin Passing /\ Recorded)'
  <2>1. NoBank'
    BY <1>1, <1>4 DEF NoBank
  <2>2. phase' \notin Passing
    BY <1>1 DEF Passing
  <2>3. QED
    BY <1>5, <2>1, <2>2
<1>9. QED
  BY <1>6, <1>7, <1>8, NoQuestionsNext DEF BenchInv

-----------------------------------------------------------------------------
(* A generator returns None, or a question whose truth is right.             *)

LEMMA DistinctElements ==
  ASSUME NEW S, NEW q \in Seq(S), IsInjective(q)
  PROVE  Cardinality(ToSet(q)) = Len(q)
<1>1. Len(q) \in Nat /\ DOMAIN q = 1..Len(q) /\ q \in [1..Len(q) -> S]
  BY LenProperties
<1>2. q \in Bijection(1..Len(q), ToSet(q))
  BY <1>1 DEF Bijection, Injection, Surjection, IsInjective, ToSet
<1>3. ExistsBijection(1..Len(q), ToSet(q))
  BY <1>2 DEF ExistsBijection
<1>4. QED
  BY <1>1, <1>3, FS_CountingElements

LEMMA CollectedSymbols ==
  ASSUME Types, NEW x \in ToSet(symbols)
  PROVE  x \in world.symbols /\ IsSymbol(x)
<1>1. x \in world.symbols
  BY LenProperties DEF Types, ToSet
<1>2. \A y \in world.symbols : IsSymbol(y)
  BY OfTheWorkspace DEF Types
<1>3. QED
  BY <1>1, <1>2

\* What a question is asked of, and what it is.
IsOf(q, kind, x) == q.kind = kind /\ q.of = x

\* Some of 1..n are at most n, and all of them are n.
LEMMA SomePlaces ==
  ASSUME NEW n \in Nat, NEW T \in SUBSET (1..n)
  PROVE  Cardinality(T) \in Nat /\ Cardinality(T) <= n /\ (T = 1..n => Cardinality(T) = n)
<1>1. Cardinality(T) \in Nat /\ Cardinality(T) <= n
  BY OnePlace
<1>2. Cardinality(1..n) = n
  BY FS_Interval
<1>3. QED
  BY <1>1, <1>2

LEMMA OfTheQuestion ==
  ASSUME NEW kind, NEW x, NEW at, NEW n, NEW q, q = Question(kind, x, at, n)
  PROVE  q.kind = kind /\ q.of = x /\ q.truth = n /\ (q.full => unseen = {})
<1>1. PICK b \in BOOLEAN : b = (unseen = {})
  OBVIOUS
<1>2. q = [kind |-> kind, symbol |-> x.name, of |-> x, anchor |-> at, truth |-> n, full |-> b]
  BY <1>1, Zenon DEF Question
<1>3. b => unseen = {}
  BY <1>1
<1>4. QED
  BY <1>2, <1>3

LEMMA CountIsSound ==
  ASSUME Types, NEW x \in ToSet(symbols), gen_references_count(x) # None
  PROVE  IsOf(gen_references_count(x), "references_count", x) /\ Sound(gen_references_count(x))
<1> DEFINE q == gen_references_count(x)
           c == Cardinality(Refs(x))
           n == Len(x.refs)
<1>1. x.refs \in Seq(Sites) /\ n \in Nat
  BY CollectedSymbols, LenProperties DEF IsSymbol
<1>2. c \in Nat /\ c <= n /\ (unseen = {} => c = n)
  <2>1. Refs(x) \in SUBSET (1..n) /\ (unseen = {} => Refs(x) = 1..n)
    BY DEF Refs
  <2>2. QED
    BY <1>1, <2>1, SomePlaces
<1>3. ~(c < 2) /\ q = Question("references_count", x, Decl(x), c)
  BY DEF gen_references_count, MIN_REFS_FOR_COUNT_QUESTION
<1>4. IsInjective(x.refs) => Cardinality(ToSet(x.refs)) = n
  BY <1>1, DistinctElements
<1> HIDE DEF c, n, q
<1>5. q.kind = "references_count" /\ q.of = x /\ q.truth = c /\ (q.full => unseen = {})
  BY <1>3, OfTheQuestion
<1>6. Tells(q, n) /\ q.truth > 1
  BY <1>1, <1>2, <1>3, <1>5 DEF Tells
<1>7. Sound(q)
  BY <1>4, <1>5, <1>6 DEF Sound, n
<1>8. QED
  BY <1>5, <1>7 DEF IsOf, q

\* A question of a use is anchored at a reference to its symbol, off the lines of
\* the declarations, and the file where that is defined is the symbol's.
LEMMA UseIsSound ==
  ASSUME Types, NEW x \in ToSet(symbols), NEW kind, NEW declarations, AtUse(kind, x, declarations) # None
  PROVE  LET q == AtUse(kind, x, declarations) IN
         /\ IsOf(q, kind, x) /\ q.truth = x.file
         /\ q.anchor \in ToSet(x.refs) /\ LineOf(q.anchor) \notin declarations
<1> DEFINE p == FirstUse(x, declarations)
           d == CHOOSE y \in Defines(p) : TRUE
<1>1. x \in world.symbols /\ IsSymbol(x) /\ world \in Worlds
  BY CollectedSymbols DEF Types
<1>2. Uses(x, declarations) # {} /\ Defines(p) # {}
  BY DEF AtUse
<1>3. AtUse(kind, x, declarations) = Question(kind, x, p, d.file)
  BY <1>2 DEF AtUse
<1>4. p \in ToSet(x.refs) /\ LineOf(p) \notin declarations
  <2>1. Uses(x, declarations) \subseteq Nat
    BY DEF Uses, Refs
  <2>2. Min(Uses(x, declarations)) \in Uses(x, declarations)
    BY <1>2, <2>1, MinIsLeast
  <2>3. x.refs \in Seq(Sites) /\ DOMAIN x.refs = 1..Len(x.refs)
    BY <1>1, LenProperties DEF IsSymbol
  <2>4. QED
    BY <2>2, <2>3 DEF FirstUse, Uses, Refs, ToSet
<1>5. d.file = x.file
  <2>1. d \in Defines(p)
    BY <1>2
  <2>2. d \in world.symbols /\ p \in ToSet(d.refs)
    BY <2>1 DEF Defines
  <2>3. ToSet(x.refs) \cap ToSet(d.refs) # {}
    BY <1>4, <2>2
  <2>4. \A y, z \in world.symbols : ToSet(y.refs) \cap ToSet(z.refs) # {} => y.file = z.file
    BY <1>1, OfTheWorkspace
  <2> HIDE DEF p, d
  <2>5. QED
    BY <1>1, <2>2, <2>3, <2>4
<1> HIDE DEF p, d
<1>6. QED
  BY <1>3, <1>4, <1>5 DEF Question, IsOf

LEMMA DefinitionIsSound ==
  ASSUME Types, NEW x \in ToSet(symbols), gen_definition_uri(x) # None
  PROVE  IsOf(gen_definition_uri(x), "definition_path", x) /\ Sound(gen_definition_uri(x))
<1> DEFINE q == gen_definition_uri(x)
<1>1. q = AtUse("definition_path", x, {LineOf(x)})
  BY DEF gen_definition_uri
<1>2. AtUse("definition_path", x, {LineOf(x)}) # None
  BY <1>1
<1> HIDE DEF q
<1>3. /\ IsOf(q, "definition_path", x) /\ q.truth = x.file
      /\ q.anchor \in ToSet(x.refs) /\ LineOf(q.anchor) \notin {LineOf(x)}
  BY <1>1, <1>2, UseIsSound
<1>4. Sound(q)
  BY <1>3 DEF Sound, IsOf
<1>5. QED
  BY <1>3, <1>4 DEF q

LEMMA CollisionIsSound ==
  ASSUME Types, NEW x \in ToSet(symbols), gen_collision_resolve(x) # None
  PROVE  IsOf(gen_collision_resolve(x), "collision_resolve", x) /\ Sound(gen_collision_resolve(x))
<1> DEFINE q == gen_collision_resolve(x)
           lines == {LineOf(y) : y \in Namesakes(x)}
<1>1. q = AtUse("collision_resolve", x, lines)
  BY DEF gen_collision_resolve
<1>2. AtUse("collision_resolve", x, lines) # None
  BY <1>1
<1>3. \A y \in ToSet(symbols) : y.name = x.name => LineOf(y) \in lines
  BY DEF Namesakes
<1> HIDE DEF q, lines
<1>4. /\ IsOf(q, "collision_resolve", x) /\ q.truth = x.file
      /\ q.anchor \in ToSet(x.refs) /\ LineOf(q.anchor) \notin lines
  BY <1>1, <1>2, UseIsSound
<1>5. Sound(q)
  BY <1>3, <1>4 DEF Sound, IsOf
<1>6. QED
  BY <1>4, <1>5 DEF q

\* Callers that file and name tell apart are as many as their files and names.
LEMMA CallersIsSound ==
  ASSUME Types, NEW x \in ToSet(symbols), gen_call_hierarchy_in(x) # None
  PROVE  IsOf(gen_call_hierarchy_in(x), "call_hierarchy_in", x) /\ Sound(gen_call_hierarchy_in(x))
<1> DEFINE q == gen_call_hierarchy_in(x)
           seen == {d \in Callers(x) : d.file \notin unseen}
           keys == {<<c.file, c.name>> : c \in seen}
<1>1. ~(Cardinality(keys) < 2) /\ q = Question("call_hierarchy_in", x, Decl(x), Cardinality(keys))
  BY DEF gen_call_hierarchy_in
<1>2. q.kind = "call_hierarchy_in" /\ q.of = x /\ q.truth = Cardinality(keys) /\ (q.full => unseen = {})
  BY <1>1, OfTheQuestion
<1>3. /\ IsFiniteSet(Callers(x)) /\ seen \subseteq Callers(x) /\ IsFiniteSet(seen)
      /\ Cardinality(Callers(x)) \in Nat /\ Cardinality(seen) \in Nat /\ Cardinality(seen) <= Cardinality(Callers(x))
  <2>1. IsFiniteSet(x.callers) /\ Callers(x) \subseteq x.callers
    BY CollectedSymbols DEF IsSymbol, Callers
  <2>2. IsFiniteSet(Callers(x)) /\ seen \subseteq Callers(x)
    BY <2>1, FS_Subset
  <2> HIDE DEF seen
  <2>3. QED
    BY <2>2, FS_Subset, FS_CardinalityType
<1>4. unseen = {} => seen = Callers(x)
  OBVIOUS
<1> HIDE DEF seen
<1>5. ASSUME ToldApart(x) PROVE Cardinality(keys) = Cardinality(seen)
  <2> DEFINE f == [c \in seen |-> <<c.file, c.name>>]
  <2>1. f \in Bijection(seen, keys)
    BY <1>3, <1>5 DEF Bijection, Injection, Surjection, IsInjective, ToldApart
  <2>2. ExistsBijection(seen, keys)
    BY <2>1 DEF ExistsBijection
  <2>3. QED
    BY <1>3, <2>2, FS_Bijection
<1> HIDE DEF q, keys
<1>6. ASSUME ToldApart(x) PROVE Tells(q, Cardinality(Callers(x)))
  BY <1>1, <1>2, <1>3, <1>4, <1>5, <1>6 DEF Tells
<1>7. Sound(q)
  BY <1>2, <1>6 DEF Sound
<1>8. QED
  BY <1>2, <1>7 DEF IsOf, q

LEMMA ContainerIsSound ==
  ASSUME Types, NEW x \in ToSet(symbols), gen_containing_symbol(x) # None
  PROVE  IsOf(gen_containing_symbol(x), "containing_symbol", x) /\ Sound(gen_containing_symbol(x))
<1> DEFINE q == gen_containing_symbol(x)
           line == x.first + 1
<1>1. x.first \in Nat /\ x.last \in Nat
  BY CollectedSymbols DEF IsSymbol
<1>2. /\ q = Question("containing_symbol", x, Site(x.file, line, 0), x.name)
      /\ ~(x.last <= line)
      /\ \A y \in ToSet(symbols) \ {x} : ~(y.file = x.file /\ Nested(x, y, line))
  BY DEF gen_containing_symbol
<1>3. q.kind = "containing_symbol" /\ q.of = x /\ q.anchor.line = line
  BY <1>2 DEF Question, Site
<1>4. x.first < line /\ line < x.last
  BY <1>1, <1>2
<1> HIDE DEF q, line
<1>5. \A y \in ToSet(symbols) \ {x} :
        y.file = x.file /\ y.first <= line /\ line <= y.last => ~(x.first <= y.first /\ y.last <= x.last)
  BY <1>2 DEF Nested
<1>6. Sound(q)
  BY <1>3, <1>4, <1>5 DEF Sound
<1>7. QED
  BY <1>3, <1>6 DEF IsOf, q

LEMMA ImplementationsIsSound ==
  ASSUME Types, NEW x \in ToSet(symbols), gen_implementations(x) # None
  PROVE  IsOf(gen_implementations(x), "implementations", x) /\ Sound(gen_implementations(x))
<1> DEFINE q == gen_implementations(x)
           c == Cardinality(Impls(x))
           n == Len(x.impls)
<1>1. n \in Nat
  BY CollectedSymbols, LenProperties DEF IsSymbol
<1>2. c \in Nat /\ c <= n /\ (unseen = {} => c = n)
  <2>1. Impls(x) \in SUBSET (1..n) /\ (unseen = {} => Impls(x) = 1..n)
    BY DEF Impls
  <2>2. QED
    BY <1>1, <2>1, SomePlaces
<1>3. ~(c < 2) /\ q = Question("implementations", x, Decl(x), c)
  BY DEF gen_implementations
<1> HIDE DEF c, n, q
<1>4. q.kind = "implementations" /\ q.of = x /\ q.truth = c /\ (q.full => unseen = {})
  BY <1>3, OfTheQuestion
<1>5. Tells(q, n)
  BY <1>1, <1>2, <1>3, <1>4 DEF Tells
<1>6. Sound(q)
  BY <1>4, <1>5 DEF Sound, n
<1>7. QED
  BY <1>4, <1>6 DEF IsOf, q

LEMMA KindIsSound ==
  ASSUME NEW x, gen_symbol_kind(x) # None
  PROVE  IsOf(gen_symbol_kind(x), "symbol_kind", x) /\ Sound(gen_symbol_kind(x))
<1> DEFINE q == gen_symbol_kind(x)
<1>1. q = Question("symbol_kind", x, Decl(x), x.kind)
  BY DEF gen_symbol_kind
<1>2. q.kind = "symbol_kind" /\ q.of = x /\ q.truth = x.kind
  BY <1>1 DEF Question
<1> HIDE DEF q
<1>3. Sound(q)
  BY <1>2 DEF Sound
<1>4. QED
  BY <1>2, <1>3 DEF IsOf, q

-----------------------------------------------------------------------------
(* Diagnostics are asked about file by file.                                *)

\* What there is to take from: the end of the records with any diagnostics, all of
\* them if the pool is empty.
Takes(m) ==
  /\ m \in Refilled /\ Faulty(m) /\ \A p \in Refilled : m <= p /\ Faulty(p)
  /\ \A p \in Refilled, r \in 1..Len(records) : Faulty(r) /\ p < r => r \in Refilled
  /\ pool # {} => Refilled = pool
  /\ pool = {} => \A r \in 1..Len(records) : Faulty(r) => r \in Refilled

LEMMA TheTurn ==
  ASSUME Types, InTurn, Refilled # {}
  PROVE  Takes(Min(Refilled)) /\ Len(records) \in Nat
<1>1. Len(records) \in Nat /\ pool \subseteq 1..Len(records)
  BY LenProperties DEF Types
<1>2. Refilled \subseteq 1..Len(records) /\ \A p \in Refilled : Faulty(p)
  BY <1>1 DEF Refilled, InTurn, Faulty
<1>3. Min(Refilled) \in Refilled /\ \A p \in Refilled : Min(Refilled) <= p
  <2>1. Refilled \subseteq Nat
    BY <1>1, <1>2
  <2>2. QED
    BY <2>1, MinIsLeast
<1>4. \A p \in Refilled, r \in 1..Len(records) : Faulty(r) /\ p < r => r \in Refilled
  BY DEF Refilled, InTurn, Faulty
<1>5. pool # {} => Refilled = pool
  BY DEF Refilled
<1>6. pool = {} => \A r \in 1..Len(records) : Faulty(r) => r \in Refilled
  BY DEF Refilled, Faulty
<1>7. QED
  BY <1>1, <1>2, <1>3, <1>4, <1>5, <1>6 DEF Takes

LEMMA DiagnosticsIsSound ==
  ASSUME Types, Recorded, InTurn, NEW x \in ToSet(symbols)
  PROVE  /\ gen_diagnostics_count(x) = None <=> Refilled = {}
         /\ Refilled # {} =>
              LET q == gen_diagnostics_count(x) m == Min(Refilled) IN
              q.kind = "diagnostics_count" /\ q.anchor.file = records[m].file /\ Sound(q)
<1>1. CASE Refilled = {}
  BY <1>1 DEF gen_diagnostics_count
<1>2. CASE Refilled # {}
  <2> DEFINE q == gen_diagnostics_count(x)
             m == Min(Refilled)
             r == records[m]
  <2>1. m \in 1..Len(records) /\ r.count > 0
    BY <1>2, TheTurn DEF Takes, Faulty
  <2>2. q = [Question("diagnostics_count", x, Site(r.file, 0, 0), r.count)
               EXCEPT !.symbol = basename(r.file), !.full = r.full]
    BY <1>2 DEF gen_diagnostics_count, NextRecord
  <2>3. PICK j \in 1..file - 1 : IsReading(r, Files[j])
    BY <2>1 DEF Recorded
  <2>4. Files[j] \in ToSet(Files) /\ Files[j].diagnostics \in Nat
    <3>1. Len(Files) \in Nat /\ DOMAIN Files = 1..Len(Files) /\ \A i \in 1..Len(Files) : Files[i] \in WalkedFiles
      BY OfTheWorkspace DEF Types
    <3>2. j \in DOMAIN Files
      BY <3>1 DEF Types
    <3>3. QED
      BY <3>1, <3>2 DEF ToSet, WalkedFiles
  <2> HIDE DEF r, q
  <2>5. q.kind = "diagnostics_count" /\ q.anchor.file = r.file /\ q.truth = r.count /\ q.full = r.full
    BY <2>2 DEF Question, Site
  <2>6. q # None
    <3>1. None.kind = "none"
      BY DEF None
    <3>2. QED
      BY <2>5, <3>1
  <2>7. Tells(q, Files[j].diagnostics) /\ Files[j].name = q.anchor.file
    BY <2>1, <2>3, <2>5 DEF Tells, IsReading
  <2>8. Sound(q)
    BY <2>4, <2>5, <2>7 DEF Sound
  <2>9. QED
    BY <1>2, <2>5, <2>6, <2>8 DEF q, r
<1>3. QED
  BY <1>1, <1>2

\* One question more, of a record's diagnostics.
AsksAbout(q, m) ==
  /\ OneMore(bank, q, bank') /\ records' = records
  /\ q.kind = "diagnostics_count" /\ q.anchor.file = records[m].file
  /\ m = Min(Refilled) /\ Refilled # {} /\ pool' = Refilled \ {m}

LEMMA TurnPasses ==
  ASSUME Types, Recorded, InTurn, NEW q, NEW m, AsksAbout(q, m)
  PROVE  InTurn'
<1>1. /\ Takes(m) /\ Len(records) \in Nat /\ m \in 1..Len(records)
      /\ pool \subseteq 1..Len(records)
  BY TheTurn DEF AsksAbout, Takes, Faulty, Types
<1>2. /\ Len(bank) \in Nat /\ Len(bank') = Len(bank) + 1 /\ bank'[Len(bank) + 1] = q
      /\ \A i \in 1..Len(bank) : bank'[i] = bank[i]
      /\ records' = records /\ q.kind = "diagnostics_count" /\ q.anchor.file = records[m].file
      /\ pool' = Refilled \ {m}
  BY DEF AsksAbout, OneMore
<1>3. \A r : Faulty(r)' <=> Faulty(r)
  BY <1>2 DEF Faulty
<1>4. ASSUME NEW p \in pool'
      PROVE  Faulty(p)' /\ \A r \in 1..Len(records') : Faulty(r)' /\ p < r => r \in pool'
  <2>1. p \in Refilled /\ m < p /\ Faulty(p) /\ p \in 1..Len(records)
    BY <1>1, <1>2, <1>4 DEF Takes, Faulty
  <2>2. ASSUME NEW r \in 1..Len(records), Faulty(r), p < r PROVE r \in pool'
    <3>1. r \in Refilled /\ r # m
      BY <1>1, <2>1, <2>2 DEF Takes
    <3>2. QED
      BY <1>2, <3>1
  <2>3. QED
    BY <1>2, <1>3, <2>1, <2>2
<1>5. ASSUME NEW i \in 1..Len(bank'), NEW n \in 1..Len(records), NEW r \in 1..Len(records),
             bank'[i].kind = "diagnostics_count", bank'[i].anchor.file = records[n].file,
             Faulty(n), Faulty(r), n # r
      PROVE  AskedSince(i, r)' \/ Waits(n, r)'
  <2>1. SUFFICES ASSUME ~AskedSince(i, r)' PROVE Waits(n, r)'
    OBVIOUS
  <2>2. \A h \in i..Len(bank) + 1 : ~(bank'[h].kind = "diagnostics_count" /\ bank'[h].anchor.file = records[r].file)
    BY <1>2, <2>1 DEF AskedSince
  <2>3. r # m
    <3>1. Len(bank) + 1 \in i..Len(bank) + 1
      BY <1>2
    <3>2. QED
      BY <1>2, <2>2, <3>1
  <2>4. CASE i \in 1..Len(bank)
    <3>1. ~AskedSince(i, r)
      <4>1. \A h \in i..Len(bank) : h \in 1..Len(bank) /\ h \in i..Len(bank) + 1
        BY <1>2, <2>4
      <4>2. QED
        BY <1>2, <2>2, <4>1 DEF AskedSince
    <3>2. Waits(n, r)
      <4>1. bank[i].kind = "diagnostics_count" /\ bank[i].anchor.file = records[n].file
        BY <1>2, <1>5, <2>4
      <4>2. QED
        BY <1>5, <2>4, <3>1, <4>1 DEF InTurn
    <3>3. CASE r < n /\ (n \in pool => r \in pool)
      <4>1. ASSUME n \in pool' PROVE r \in pool'
        <5>1. n \in Refilled
          BY <1>2, <4>1
        <5>2. r \in Refilled
          BY <1>1, <1>5, <3>3, <5>1 DEF Takes
        <5>3. QED
          BY <1>2, <2>3, <5>2
      <4>2. QED
        BY <3>3, <4>1 DEF Waits
    <3>4. CASE n < r /\ n \notin pool /\ r \in pool
      <4>1. Refilled = pool
        BY <1>1, <3>4 DEF Takes
      <4>2. n \notin pool' /\ r \in pool'
        BY <1>2, <2>3, <3>4, <4>1
      <4>3. QED
        BY <3>4, <4>2 DEF Waits
    <3>5. QED
      BY <3>2, <3>3, <3>4 DEF Waits
  <2>5. CASE i = Len(bank) + 1
    <3>1. n = m
      <4>1. records[n].file = records[m].file
        BY <1>2, <1>5, <2>5
      <4>2. QED
        BY <1>1, <1>5, <4>1 DEF Recorded
    <3>2. n \notin pool'
      BY <1>2, <3>1
    <3>3. CASE r < n
      BY <3>2, <3>3 DEF Waits
    <3>4. CASE n < r
      <4>1. r \in Refilled
        BY <1>1, <1>5, <3>1, <3>4 DEF Takes
      <4>2. r \in pool'
        BY <1>2, <2>3, <4>1
      <4>3. QED
        BY <3>2, <3>4, <4>2 DEF Waits
    <3>5. QED
      BY <1>1, <1>5, <3>3, <3>4
  <2>6. i \in 1..Len(bank) \/ i = Len(bank) + 1
    BY <1>2
  <2>7. QED
    BY <2>4, <2>5, <2>6
<1>6. QED
  BY <1>2, <1>3, <1>4, <1>5 DEF InTurn

\* The file of a record is asked about again only when the turn of every other has
\* come in between.
LEMMA TurnComesAgain ==
  ASSUME Types, Recorded, InTurn, AgainInTurn, NEW q, NEW m, AsksAbout(q, m)
  PROVE  AgainInTurn'
<1>1. /\ Takes(m) /\ Len(records) \in Nat /\ m \in 1..Len(records) /\ Faulty(m)
      /\ pool \subseteq 1..Len(records)
  BY TheTurn DEF AsksAbout, Takes, Faulty, Types
<1>2. /\ Len(bank) \in Nat /\ Len(bank') = Len(bank) + 1 /\ bank'[Len(bank) + 1] = q
      /\ \A i \in 1..Len(bank) : bank'[i] = bank[i]
      /\ records' = records /\ q.kind = "diagnostics_count" /\ q.anchor.file = records[m].file
  BY DEF AsksAbout, OneMore
<1>3. \A r : Faulty(r)' <=> Faulty(r)
  BY <1>2 DEF Faulty
<1>4. ASSUME NEW i \in 1..Len(bank'), NEW j \in 1..Len(bank'), i < j,
             bank'[i].kind = "diagnostics_count", bank'[j].kind = "diagnostics_count",
             bank'[i].anchor.file = bank'[j].anchor.file, NEW r \in 1..Len(records), Faulty(r)
      PROVE  \E h \in i..j - 1 : bank'[h].kind = "diagnostics_count" /\ bank'[h].anchor.file = records[r].file
  <2>1. i \in 1..Len(bank) /\ bank'[i] = bank[i] /\ bank[i].kind = "diagnostics_count"
    BY <1>2, <1>4
  <2>2. \A h \in i..j - 1 : h \in 1..Len(bank) /\ bank'[h] = bank[h]
    BY <1>2, <1>4
  <2>3. CASE j \in 1..Len(bank)
    <3>1. bank'[j] = bank[j]
      BY <1>2, <2>3
    <3>2. \E h \in i..j - 1 : bank[h].kind = "diagnostics_count" /\ bank[h].anchor.file = records[r].file
      BY <1>4, <2>1, <2>3, <3>1 DEF AgainInTurn
    <3>3. QED
      BY <2>2, <3>2
  <2>4. CASE j = Len(bank) + 1
    <3>1. bank[i].anchor.file = records[m].file
      BY <1>2, <1>4, <2>1, <2>4
    <3>2. CASE r = m
      <4>1. i \in i..j - 1
        BY <1>4, <2>1, <2>4, <1>2
      <4>2. QED
        BY <2>1, <3>1, <3>2, <4>1
    <3>3. CASE r # m
      <4>1. AskedSince(i, r) \/ Waits(m, r)
        BY <1>1, <1>4, <2>1, <3>1, <3>3 DEF InTurn
      <4>2. ~Waits(m, r)
        <5>1. m \in Refilled /\ \A p \in Refilled : m <= p
          BY <1>1 DEF Takes
        <5>2. CASE pool = {}
          <6>1. r \in Refilled /\ m <= r
            BY <1>1, <1>4, <5>1, <5>2 DEF Takes
          <6>2. QED
            BY <1>1, <1>4, <5>2, <6>1 DEF Waits
        <5>3. CASE pool # {}
          <6>1. Refilled = pool /\ m \in pool /\ \A p \in pool : m <= p
            BY <1>1, <5>1, <5>3 DEF Takes
          <6>2. QED
            BY <1>1, <1>4, <6>1 DEF Waits
        <5>4. QED
          BY <5>2, <5>3
      <4>3. PICK h \in i..Len(bank) : bank[h].kind = "diagnostics_count" /\ bank[h].anchor.file = records[r].file
        BY <4>1, <4>2 DEF AskedSince
      <4>4. h \in i..j - 1
        BY <1>2, <2>4
      <4>5. QED
        BY <2>2, <4>3, <4>4
    <3>4. QED
      BY <3>2, <3>3
  <2>5. j \in 1..Len(bank) \/ j = Len(bank) + 1
    BY <1>2
  <2>6. QED
    BY <2>3, <2>4, <2>5
<1>5. QED
  BY <1>2, <1>3, <1>4 DEF AgainInTurn

\* A question of another kind takes no turn.
LEMMA NoTurn ==
  ASSUME IsSeq(bank), InTurn, AgainInTurn, UNCHANGED <<records, pool>>,
         bank' = bank \/ \E q : OneMore(bank, q, bank') /\ q.kind # "diagnostics_count"
  PROVE  InTurn' /\ AgainInTurn'
<1>1. /\ Len(bank) \in Nat /\ Len(bank') \in {Len(bank), Len(bank) + 1}
      /\ \A i \in 1..Len(bank) : bank'[i] = bank[i]
      /\ \A i \in 1..Len(bank') : bank'[i].kind = "diagnostics_count" => i \in 1..Len(bank)
  <2>1. CASE bank' = bank
    BY <2>1 DEF IsSeq
  <2>2. CASE \E q : OneMore(bank, q, bank') /\ q.kind # "diagnostics_count"
    BY <2>2 DEF OneMore
  <2>3. QED
    BY <2>1, <2>2
<1>2. /\ \A r : Faulty(r)' <=> Faulty(r)
      /\ \A n, r : Waits(n, r)' <=> Waits(n, r)
  BY DEF Faulty, Waits
<1>3. \A i \in 1..Len(bank) : \A r : AskedSince(i, r) => AskedSince(i, r)'
  BY <1>1 DEF AskedSince
<1>4. InTurn'
  BY <1>1, <1>2, <1>3 DEF InTurn
<1>5. AgainInTurn'
  <2>1. SUFFICES ASSUME NEW i \in 1..Len(bank'), NEW j \in 1..Len(bank'), i < j,
                        bank'[i].kind = "diagnostics_count", bank'[j].kind = "diagnostics_count",
                        bank'[i].anchor.file = bank'[j].anchor.file, NEW r \in 1..Len(records), Faulty(r)
        PROVE  \E h \in i..j - 1 : bank'[h].kind = "diagnostics_count" /\ bank'[h].anchor.file = records[r].file
    BY <1>2 DEF AgainInTurn
  <2>2. i \in 1..Len(bank) /\ j \in 1..Len(bank) /\ bank'[i] = bank[i] /\ bank'[j] = bank[j]
    BY <1>1, <2>1
  <2>3. PICK h \in i..j - 1 : bank[h].kind = "diagnostics_count" /\ bank[h].anchor.file = records[r].file
    BY <2>1, <2>2 DEF AgainInTurn
  <2>4. bank'[h] = bank[h]
    BY <1>1, <2>2
  <2>5. QED
    BY <2>3, <2>4
<1>6. QED
  BY <1>4, <1>5

-----------------------------------------------------------------------------
(* One attempt: a question more, or nothing.                                *)

\* The question q is added, of that kind and of the symbol x, or of the record
\* whose turn it is.
Added(q, kind, x) ==
  /\ IsSeq(bank') /\ OneMore(bank, q, bank') /\ count' = count + 1
  /\ q.kind = kind /\ Sound(q)
  /\ kind = "diagnostics_count" => AsksAbout(q, Min(Refilled))
  /\ kind # "diagnostics_count" => q.of = x /\ pool' = pool

LEMMA GeneratedIsSound ==
  ASSUME Types, NEW x \in ToSet(symbols), NEW kind \in GENERATORS_BY_NAME \ {"diagnostics_count"},
         GENERATORS(kind, x) # None
  PROVE  IsOf(GENERATORS(kind, x), kind, x) /\ Sound(GENERATORS(kind, x))
<1>1. CASE kind = "references_count"
  <2>1. GENERATORS(kind, x) = gen_references_count(x)
    BY <1>1 DEF GENERATORS
  <2>2. QED
    BY <1>1, <2>1, CountIsSound
<1>2. CASE kind = "definition_path"
  <2>1. GENERATORS(kind, x) = gen_definition_uri(x)
    BY <1>2 DEF GENERATORS
  <2>2. QED
    BY <1>2, <2>1, DefinitionIsSound
<1>3. CASE kind = "call_hierarchy_in"
  <2>1. GENERATORS(kind, x) = gen_call_hierarchy_in(x)
    BY <1>3 DEF GENERATORS
  <2>2. QED
    BY <1>3, <2>1, CallersIsSound
<1>4. CASE kind = "collision_resolve"
  <2>1. GENERATORS(kind, x) = gen_collision_resolve(x)
    BY <1>4 DEF GENERATORS
  <2>2. QED
    BY <1>4, <2>1, CollisionIsSound
<1>5. CASE kind = "containing_symbol"
  <2>1. GENERATORS(kind, x) = gen_containing_symbol(x)
    BY <1>5 DEF GENERATORS
  <2>2. QED
    BY <1>5, <2>1, ContainerIsSound
<1>6. CASE kind = "implementations"
  <2>1. GENERATORS(kind, x) = gen_implementations(x)
    BY <1>6 DEF GENERATORS
  <2>2. QED
    BY <1>6, <2>1, ImplementationsIsSound
<1>7. CASE kind = "symbol_kind"
  <2>1. GENERATORS(kind, x) = gen_symbol_kind(x)
    BY <1>7 DEF GENERATORS
  <2>2. QED
    BY <1>7, <2>1, KindIsSound
<1>8. QED
  BY <1>1, <1>2, <1>3, <1>4, <1>5, <1>6, <1>7 DEF GENERATORS_BY_NAME

LEMMA Attempted ==
  ASSUME Types, Recorded, InTurn, records' = records,
         NEW kind \in GENERATORS_BY_NAME, NEW x \in ToSet(symbols), Attempt(kind, x)
  PROVE  /\ fails' \in 0..MaxFail
         /\ \/ UNCHANGED <<bank, count, pool>>
            \/ \E q : Added(q, kind, x)
<1>1. PICK ok \in IF kind \in Calling THEN BOOLEAN ELSE {TRUE} :
        LET q == IF ok THEN GENERATORS(kind, x) ELSE None IN
          /\ IF kind \in Calling THEN Called(ok) ELSE UNCHANGED fails
          /\ bank' = IF q = None THEN bank ELSE Append(bank, q)
          /\ count' = IF q = None THEN count ELSE count + 1
          /\ pool' = IF kind = "diagnostics_count" /\ Refilled # {} THEN Refilled \ {Min(Refilled)} ELSE pool
  BY DEF Attempt
<1> DEFINE q == IF ok THEN GENERATORS(kind, x) ELSE None
<1>2. /\ bank' = IF q = None THEN bank ELSE Append(bank, q)
      /\ count' = IF q = None THEN count ELSE count + 1
      /\ pool' = IF kind = "diagnostics_count" /\ Refilled # {} THEN Refilled \ {Min(Refilled)} ELSE pool
  BY <1>1
<1>3. fails' \in 0..MaxFail
  <2>1. fails \in 0..MaxFail /\ MaxFail \in Nat
    BY BenchAssumption DEF Types
  <2>2. CASE kind \in Calling
    BY <1>1, <2>1, <2>2 DEF Called
  <2>3. CASE kind \notin Calling
    BY <1>1, <2>1, <2>3
  <2>4. QED
    BY <2>2, <2>3
<1>4. q # None => IsSeq(bank') /\ OneMore(bank, q, bank') /\ count' = count + 1
  <2> HIDE DEF q
  <2>1. QED
    BY <1>2, Appended DEF Types
<1>5. CASE kind = "diagnostics_count"
  <2>1. q = gen_diagnostics_count(x)
    <3>1. ok = TRUE
      BY <1>1, <1>5 DEF Calling
    <3>2. QED
      BY <1>5, <3>1 DEF GENERATORS
  <2> HIDE DEF q
  <2>2. CASE Refilled = {}
    <3>1. q = None
      BY <2>1, <2>2, DiagnosticsIsSound
    <3>2. QED
      BY <1>2, <1>3, <2>2, <3>1
  <2>3. CASE Refilled # {}
    <3>1. q # None /\ q.kind = "diagnostics_count" /\ q.anchor.file = records[Min(Refilled)].file /\ Sound(q)
      BY <2>1, <2>3, DiagnosticsIsSound
    <3>2. AsksAbout(q, Min(Refilled))
      BY <1>2, <1>4, <1>5, <2>3, <3>1 DEF AsksAbout
    <3>3. Added(q, kind, x)
      BY <1>4, <1>5, <3>1, <3>2 DEF Added
    <3>4. QED
      BY <1>3, <3>3
  <2>4. QED
    BY <2>2, <2>3
<1>6. CASE kind # "diagnostics_count"
  <2>1. pool' = pool
    BY <1>2, <1>6
  <2>2. CASE q = None
    <3> HIDE DEF q
    <3>1. QED
      BY <1>2, <1>3, <2>1, <2>2
  <2>3. CASE q # None
    <3>1. q = GENERATORS(kind, x)
      BY <2>3
    <3> HIDE DEF q
    <3>2. IsOf(q, kind, x) /\ Sound(q)
      BY <1>6, <2>3, <3>1, GeneratedIsSound
    <3>3. Added(q, kind, x)
      BY <1>4, <1>6, <2>1, <2>3, <3>2 DEF Added, IsOf
    <3>4. QED
      BY <1>3, <3>3
  <2>4. QED
    BY <2>2, <2>3
<1>7. QED
  BY <1>5, <1>6

-----------------------------------------------------------------------------
(* The walk: each attempt takes the next symbol.                            *)

\* What an attempt on the next symbol leaves alone, and when it is made.
Walks(kind) ==
  /\ phase = "generate" /\ s <= Len(symbols) /\ s' = s + 1 /\ kind \in GENERATORS_BY_NAME
  /\ UNCHANGED <<world, mode, harness, phase, file, symbols, records, k, todo, results, server, unseen>>
  /\ mode = "per_kind" => k <= Len(KINDS) /\ kind = KINDS[k] /\ count < Target
  /\ mode = "round_robin" => Len(bank) < Target

\* What the walk goes by.
WalkFacts ==
  /\ k \in Nat /\ k >= 1 /\ s \in 1..Len(symbols) + 1 /\ Len(symbols) \in Nat
  /\ \A i, j \in 1..Len(symbols) : symbols[i] = symbols[j] => i = j
  /\ mode \in {"per_kind", "round_robin"}

LEMMA OnTheWalk ==
  ASSUME Types, Stages, phase = "generate"
  PROVE  WalkFacts
<1>1. k \in Nat /\ k >= 1
  BY OfTheKinds DEF Types
<1>2. Len(symbols) \in Nat /\ s \in 1..Len(symbols) + 1
  BY LenProperties DEF Types
<1>3. \A i, j \in 1..Len(symbols) : symbols[i] = symbols[j] => i = j
  BY DEF Stages
<1>4. mode \in {"per_kind", "round_robin"}
  BY BenchAssumption DEF Types
<1>5. QED
  BY <1>1, <1>2, <1>3, <1>4 DEF WalkFacts

\* What was sound stays so, and what was passed is passed.
LEMMA SoundStays ==
  ASSUME UNCHANGED <<world, symbols>>
  PROVE  \A q : Sound(q)' <=> Sound(q)
BY DEF Sound, Tells, Files

LEMMA WalkedStays ==
  ASSUME WalkFacts, UNCHANGED <<world, mode, symbols, records>>,
         \/ k' = k /\ s' = s + 1
         \/ k' = k + 1 /\ mode = "per_kind"
  PROVE  \A q : Walked(q) => Walked(q)'
<1>1. TAKE q
<1>2. HAVE Walked(q)
<1>3. ASSUME NEW t \in 1..Len(symbols), Passed(q, t) PROVE Passed(q, t)'
  <2>1. q.of = symbols'[t]
    BY <1>3 DEF Passed
  <2>2. ASSUME mode' = "round_robin" PROVE t < s'
    BY <1>3, <2>2 DEF Passed, WalkFacts
  <2>3. ASSUME mode' = "per_kind" PROVE \E l \in 1..Len(KINDS) : q.kind = KINDS[l] /\ (l < k' \/ (l = k' /\ t < s'))
    <3>1. PICK l \in 1..Len(KINDS) : q.kind = KINDS[l] /\ (l < k \/ (l = k /\ t < s))
      BY <1>3, <2>3 DEF Passed
    <3>2. l < k' \/ (l = k' /\ t < s')
      BY <3>1 DEF WalkFacts
    <3>3. QED
      BY <3>1, <3>2
  <2>4. QED
    BY <2>1, <2>2, <2>3 DEF Passed
<1>4. Sound(q)' <=> Sound(q)
  BY SoundStays
<1>5. OfRecord(q)' <=> OfRecord(q)
  BY DEF OfRecord, Faulty
<1>6. ASSUME mode' = "per_kind" PROVE \E l \in 1..Len(KINDS) : q.kind = KINDS[l] /\ l <= k'
  <2>1. PICK l \in 1..Len(KINDS) : q.kind = KINDS[l] /\ l <= k
    BY <1>2, <1>6 DEF Walked
  <2>2. l <= k'
    BY <2>1 DEF WalkFacts
  <2>3. QED
    BY <2>1, <2>2
<1>7. QED
  BY <1>2, <1>3, <1>4, <1>5, <1>6 DEF Walked

\* The question added is of a symbol its kind had not come past.
LEMMA BankGrows ==
  ASSUME BenchInv, NEW kind, Walks(kind), NEW q, Added(q, kind, symbols[s])
  PROVE  BankInv'
<1>1. Types /\ Stages /\ BankInv /\ Recorded /\ InTurn /\ WalkFacts
  BY OnTheWalk DEF BenchInv, BankedInv, Walks
<1>2. /\ Len(bank) \in Nat /\ Len(bank') = Len(bank) + 1 /\ bank'[Len(bank) + 1] = q
      /\ \A i \in 1..Len(bank) : bank'[i] = bank[i]
  BY DEF Added, OneMore
<1>3. /\ s \in 1..Len(symbols) /\ s' = s + 1 /\ k' = k /\ kind \in GENERATORS_BY_NAME /\ q.kind = kind
      /\ UNCHANGED <<world, mode, symbols, records>>
      /\ mode = "per_kind" => k \in 1..Len(KINDS) /\ kind = KINDS[k]
  BY <1>1, OfTheKinds DEF Walks, Added, WalkFacts
<1>4. \A r : Walked(r) => Walked(r)'
  BY <1>1, <1>3, WalkedStays
<1>5. Walked(q)'
  <2>1. Sound(q)'
    BY <1>3, SoundStays DEF Added
  <2>2. ASSUME kind # "diagnostics_count" PROVE \E t \in 1..Len(symbols') : Passed(q, t)'
    <3>1. PICK t \in 1..Len(symbols') : t = s
      BY <1>3
    <3>2. q.of = symbols'[t]
      BY <1>3, <2>2, <3>1 DEF Added
    <3>3. t < s'
      BY <1>3, <3>1
    <3>4. mode' = "per_kind" => k' \in 1..Len(KINDS) /\ q.kind = KINDS[k'] /\ t < s'
      BY <1>3, <3>3
    <3>5. Passed(q, t)'
      BY <3>2, <3>3, <3>4 DEF Passed
    <3>6. QED
      BY <3>5
  <2>3. ASSUME kind = "diagnostics_count" PROVE OfRecord(q)'
    <3>1. AsksAbout(q, Min(Refilled))
      BY <2>3 DEF Added
    <3>2. Faulty(Min(Refilled)) /\ q.anchor.file = records[Min(Refilled)].file
      BY <1>1, <3>1, TheTurn DEF AsksAbout, Takes
    <3>3. OfRecord(q)
      BY <3>1, <3>2 DEF OfRecord, Faulty
    <3>4. QED
      BY <1>3, <3>3 DEF OfRecord, Faulty
  <2>4. mode' = "per_kind" => \E l \in 1..Len(KINDS) : q.kind = KINDS[l] /\ l <= k'
    BY <1>1, <1>3 DEF WalkFacts
  <2>5. QED
    BY <1>3, <2>1, <2>2, <2>3, <2>4 DEF Walked
<1>6. ASSUME NEW j \in 1..Len(bank), bank[j].kind = kind, kind # "diagnostics_count"
      PROVE  bank[j].of # q.of
  <2>1. Walked(bank[j])
    BY <1>1 DEF BankInv
  <2>2. PICK t \in 1..Len(symbols) : Passed(bank[j], t)
    BY <1>6, <2>1 DEF Walked
  <2>3. t # s
    <3>1. CASE mode = "round_robin"
      BY <1>1, <2>2, <3>1 DEF Passed, WalkFacts
    <3>2. CASE mode = "per_kind"
      <4>1. PICK l \in 1..Len(KINDS) : bank[j].kind = KINDS[l] /\ (l < k \/ (l = k /\ t < s))
        BY <2>2, <3>2 DEF Passed
      <4>2. l = k
        BY <1>3, <1>6, <3>2, <4>1, OfTheKinds
      <4>3. QED
        BY <1>3, <4>1, <4>2
    <3>3. QED
      BY <1>1, <3>1, <3>2 DEF WalkFacts
  <2>4. symbols[t] # symbols[s]
    BY <1>1, <1>3, <2>3 DEF WalkFacts
  <2>5. QED
    BY <1>6, <2>2, <2>4 DEF Passed, Added
<1>7. ASSUME NEW i \in 1..Len(bank') PROVE Walked(bank[i])'
  <2>1. CASE i \in 1..Len(bank)
    <3>1. Walked(bank[i])
      BY <1>1, <2>1 DEF BankInv
    <3>2. PICK r : r = bank[i] /\ r = bank'[i]
      BY <1>2, <2>1
    <3>3. Walked(r)'
      BY <1>4, <3>1, <3>2
    <3>4. QED
      BY <3>2, <3>3
  <2>2. CASE i = Len(bank) + 1
    <3>1. q = bank'[i]
      BY <1>2, <2>2
    <3>2. QED
      BY <1>5, <3>1
  <2>3. i \in 1..Len(bank) \/ i = Len(bank) + 1
    BY <1>2
  <2>4. QED
    BY <2>1, <2>2, <2>3
<1>8. ASSUME NEW i \in 1..Len(bank'), NEW j \in 1..Len(bank'), i # j,
             bank'[i].kind = bank'[j].kind, bank'[i].kind # "diagnostics_count"
      PROVE  bank'[i].of # bank'[j].of
  <2>1. CASE i \in 1..Len(bank) /\ j \in 1..Len(bank)
    <3>1. bank'[i] = bank[i] /\ bank'[j] = bank[j]
      BY <1>2, <2>1
    <3>2. QED
      BY <1>1, <1>8, <2>1, <3>1 DEF BankInv
  <2>2. CASE i = Len(bank) + 1 /\ j \in 1..Len(bank)
    <3>1. bank'[i] = q /\ bank'[j] = bank[j]
      BY <1>2, <2>2
    <3>2. bank[j].kind = kind /\ kind # "diagnostics_count"
      BY <1>3, <1>8, <3>1
    <3>3. QED
      BY <1>6, <2>2, <3>1, <3>2
  <2>3. CASE i \in 1..Len(bank) /\ j = Len(bank) + 1
    <3>1. bank'[i] = bank[i] /\ bank'[j] = q
      BY <1>2, <2>3
    <3>2. bank[i].kind = kind /\ kind # "diagnostics_count"
      BY <1>3, <1>8, <3>1
    <3>3. QED
      BY <1>6, <2>3, <3>1, <3>2
  <2>4. (i \in 1..Len(bank) \/ i = Len(bank) + 1) /\ (j \in 1..Len(bank) \/ j = Len(bank) + 1)
    BY <1>2
  <2>5. QED
    BY <1>8, <2>1, <2>2, <2>3, <2>4
<1>9. QED
  BY <1>7, <1>8 DEF BankInv

\* The questions of its kind are one more, and no others.
LEMMA CountGrows ==
  ASSUME BenchInv, NEW kind, Walks(kind), NEW q, Added(q, kind, symbols[s])
  PROVE  Counted' /\ count' \in 0..Target
<1>1. Types /\ Counted /\ WalkFacts /\ Target \in Nat /\ count \in 0..Target
  BY OnTheWalk, BenchAssumption DEF BenchInv, BankedInv, Walks, Types
<1>2. /\ Len(bank) \in Nat /\ Len(bank') = Len(bank) + 1 /\ bank'[Len(bank) + 1] = q
      /\ \A i \in 1..Len(bank) : bank'[i] = bank[i]
      /\ count' = count + 1 /\ q.kind = kind
  BY DEF Added, OneMore
<1>3. \A c : OfKind(c) \in SUBSET (1..Len(bank))
  BY DEF OfKind
<1>4. OfKind(kind)' = OfKind(kind) \cup {Len(bank) + 1}
  BY <1>2 DEF OfKind
<1>5. \A c : c # kind => OfKind(c)' = OfKind(c)
  BY <1>2 DEF OfKind
<1>6. Cardinality(OfKind(kind)') = Cardinality(OfKind(kind)) + 1
  BY <1>2, <1>3, <1>4, OnePlace
<1>7. CASE mode = "round_robin"
  <2>1. count = Len(bank) /\ Len(bank) < Target /\ k = 1 /\ k' = k /\ mode' = mode
    BY <1>1, <1>7 DEF Counted, Walks
  <2>2. QED
    BY <1>1, <1>2, <1>7, <2>1 DEF Counted
<1>8. CASE mode = "per_kind"
  <2>1. /\ k \in 1..Len(KINDS) /\ kind = KINDS[k] /\ count < Target /\ k' = k /\ mode' = mode
        /\ Cardinality(OfKind(KINDS[k])) = count
    BY <1>1, <1>8, OfTheKinds DEF Counted, Walks, WalkFacts
  <2>2. Cardinality(OfKind(KINDS[k])') = count + 1
    BY <1>6, <2>1
  <2>3. ASSUME NEW l \in 1..Len(KINDS) PROVE Cardinality(OfKind(KINDS[l])') <= Target
    <3>1. CASE l = k
      BY <1>1, <2>1, <2>2, <3>1
    <3>2. CASE l # k
      <4>1. KINDS[l] # kind
        BY <2>1, <3>2, OfTheKinds
      <4>2. OfKind(KINDS[l])' = OfKind(KINDS[l])
        BY <1>5, <4>1
      <4>3. QED
        BY <1>1, <1>8, <4>2 DEF Counted
    <3>3. QED
      BY <3>1, <3>2
  <2>4. count' \in 0..Target
    BY <1>1, <1>2, <2>1
  <2>5. QED
    BY <1>2, <1>8, <2>1, <2>2, <2>3, <2>4 DEF Counted
<1>9. QED
  BY <1>1, <1>7, <1>8 DEF WalkFacts

\* While questions are made there is no run.
LEMMA NoPassYet ==
  ASSUME Stages, PassInv, phase = "generate", UNCHANGED <<phase, todo, results>>
  PROVE  PassInv'
<1>1. ByTurns'
  BY DEF PassInv, ByTurns, Of
<1>2. OnPass' /\ Ends'
  BY DEF OnPass, Ends, Passing
<1>3. QED
  BY <1>1, <1>2 DEF PassInv

LEMMA WalkKeeps ==
  ASSUME BenchInv, NEW kind, Walks(kind), Attempt(kind, symbols[s])
  PROVE  BenchInv'
<1>1. /\ Types /\ Stages /\ Recorded /\ InTurn /\ AgainInTurn /\ BankInv /\ Counted /\ PassInv /\ WalkFacts
      /\ kind \in GENERATORS_BY_NAME /\ records' = records /\ phase = "generate"
  BY OnTheWalk DEF BenchInv, BankedInv, Walks
<1>2. /\ UNCHANGED <<world, mode, harness, phase, file, symbols, records, k, todo, results, server, unseen>>
      /\ s' = s + 1 /\ s \in 1..Len(symbols) /\ symbols[s] \in ToSet(symbols)
  <2>1. s \in 1..Len(symbols)
    BY <1>1 DEF Walks, WalkFacts
  <2>2. DOMAIN symbols = 1..Len(symbols)
    BY <1>1, LenProperties DEF Types
  <2>3. QED
    BY <2>1, <2>2 DEF Walks, ToSet
<1>3. /\ fails' \in 0..MaxFail
      /\ UNCHANGED <<bank, count, pool>> \/ \E q : Added(q, kind, symbols[s])
  BY <1>1, <1>2, Attempted
<1>4. s' \in 1..Len(symbols') + 1
  BY <1>1, <1>2 DEF WalkFacts
<1>5. Recorded'
  BY <1>1, <1>2 DEF Recorded, Files
<1>6. IsSeq(bank') /\ count' \in 0..Target /\ pool' \subseteq 1..Len(records)
      /\ InTurn' /\ AgainInTurn' /\ BankInv' /\ Counted'
  <2>1. CASE UNCHANGED <<bank, count, pool>>
    <3>1. IsSeq(bank') /\ count' \in 0..Target /\ pool' \subseteq 1..Len(records)
      BY <1>1, <2>1 DEF Types
    <3>2. InTurn' /\ AgainInTurn'
      BY <1>1, <1>2, <2>1, NoTurn DEF Types
    <3>3. BankInv'
      <4>1. \A q : Walked(q) => Walked(q)'
        BY <1>1, <1>2, WalkedStays
      <4>2. \A i \in 1..Len(bank') : Walked(bank[i])'
        BY <1>1, <2>1, <4>1 DEF BankInv
      <4>3. QED
        BY <1>1, <2>1, <4>2 DEF BankInv
    <3>4. Counted'
      BY <1>1, <1>2, <2>1 DEF Counted, OfKind
    <3>5. QED
      BY <3>1, <3>2, <3>3, <3>4
  <2>2. ASSUME NEW q, Added(q, kind, symbols[s])
        PROVE  IsSeq(bank') /\ count' \in 0..Target /\ pool' \subseteq 1..Len(records)
               /\ InTurn' /\ AgainInTurn' /\ BankInv' /\ Counted'
    <3>1. Counted' /\ count' \in 0..Target /\ BankInv'
      BY <2>2, CountGrows, BankGrows
    <3>2. CASE kind = "diagnostics_count"
      <4>1. AsksAbout(q, Min(Refilled))
        BY <2>2, <3>2 DEF Added
      <4>2. InTurn' /\ AgainInTurn'
        BY <1>1, <4>1, TurnPasses, TurnComesAgain
      <4>3. Takes(Min(Refilled))
        BY <1>1, <4>1, TheTurn DEF AsksAbout
      <4>4. pool' \subseteq 1..Len(records)
        BY <4>1, <4>3 DEF AsksAbout, Takes, Faulty
      <4>5. QED
        BY <2>2, <3>1, <4>2, <4>4 DEF Added
    <3>3. CASE kind # "diagnostics_count"
      <4>1. OneMore(bank, q, bank') /\ q.kind # "diagnostics_count" /\ pool' = pool
        BY <2>2, <3>3 DEF Added
      <4>2. InTurn' /\ AgainInTurn'
        BY <1>1, <1>2, <4>1, NoTurn DEF Types
      <4>3. pool' \subseteq 1..Len(records)
        BY <1>1, <4>1 DEF Types
      <4>4. QED
        BY <2>2, <3>1, <4>2, <4>3 DEF Added
    <3>4. QED
      BY <3>2, <3>3
  <2>3. QED
    BY <1>3, <2>1, <2>2
<1>7. Types'
  BY <1>1, <1>2, <1>3, <1>4, <1>6 DEF Types, Paths, Files
<1>8. Stages'
  BY <1>1, <1>2 DEF Stages, Oracle
<1>9. PassInv'
  BY <1>1, <1>2, NoPassYet
<1>10. QED
  BY <1>5, <1>6, <1>7, <1>8, <1>9 DEF BenchInv, BankedInv

\* The next kind, of which there is no question yet.
LEMMA NextKindKeeps ==
  ASSUME BenchInv, phase = "generate", mode = "per_kind", k <= Len(KINDS), k' = k + 1, s' = 1, count' = 0,
         UNCHANGED <<started, phase, file, symbols, records, bank, pool, todo, results, server, unseen, fails>>
  PROVE  BenchInv'
<1>1. /\ Types /\ Stages /\ Recorded /\ InTurn /\ AgainInTurn /\ BankInv /\ Counted /\ PassInv /\ WalkFacts
      /\ UNCHANGED <<world, mode, harness>> /\ Len(KINDS) \in Nat
  BY OnTheWalk, OfTheKinds DEF BenchInv, BankedInv, started
<1>2. Recorded'
  BY <1>1 DEF Recorded, Files
<1>3. InTurn' /\ AgainInTurn'
  BY <1>1, NoTurn DEF Types
<1>4. BankInv'
  <2>1. \A q : Walked(q) => Walked(q)'
    BY <1>1, WalkedStays
  <2>2. \A i \in 1..Len(bank') : Walked(bank[i])'
    BY <1>1, <2>1 DEF BankInv
  <2>3. QED
    BY <1>1, <2>2 DEF BankInv
<1>5. Counted'
  <2>1. \A c : OfKind(c)' = OfKind(c)
    BY DEF OfKind
  <2>2. ASSUME k' <= Len(KINDS) PROVE Cardinality(OfKind(KINDS[k + 1])) = 0
    <3>1. ASSUME NEW i \in 1..Len(bank), bank[i].kind = KINDS[k + 1] PROVE FALSE
      <4>1. Walked(bank[i])
        BY <1>1, <3>1 DEF BankInv
      <4>2. PICK l \in 1..Len(KINDS) : bank[i].kind = KINDS[l] /\ l <= k
        BY <4>1 DEF Walked
      <4>3. k + 1 \in 1..Len(KINDS)
        BY <1>1, <2>2 DEF WalkFacts
      <4>4. l = k + 1
        BY <3>1, <4>2, <4>3, OfTheKinds
      <4>5. QED
        BY <1>1, <4>2, <4>4 DEF WalkFacts
    <3>2. OfKind(KINDS[k + 1]) = {}
      BY <3>1 DEF OfKind
    <3>3. QED
      BY <3>2, FS_EmptySet
  <2>3. k' <= Len(KINDS) => Cardinality(OfKind(KINDS[k]))' = count'
    <3>1. OfKind(KINDS[k])' = OfKind(KINDS[k + 1])
      BY DEF OfKind
    <3>2. QED
      BY <2>2, <3>1
  <2>4. \A l \in 1..Len(KINDS) : Cardinality(OfKind(KINDS[l])') <= Target
    BY <1>1, <2>1 DEF Counted
  <2>5. mode' = "per_kind"
    BY <1>1
  <2>6. QED
    BY <2>3, <2>4, <2>5 DEF Counted
<1>6. Types'
  <2>1. Len(symbols') \in Nat /\ Target \in Nat
    BY <1>1, BenchAssumption DEF WalkFacts
  <2>2. k' \in 1..Len(KINDS) + 1 /\ s' \in 1..Len(symbols') + 1 /\ count' \in 0..Target
    BY <1>1, <2>1 DEF WalkFacts
  <2>3. QED
    BY <1>1, <2>2 DEF Types, Paths, Files
<1>7. Stages'
  BY <1>1 DEF Stages, Oracle
<1>8. PassInv'
  BY <1>1, NoPassYet
<1>9. QED
  BY <1>2, <1>3, <1>4, <1>5, <1>6, <1>7, <1>8 DEF BenchInv, BankedInv

LEMMA PerKindKeeps ==
  ASSUME BenchInv, PerKind
  PROVE  BenchInv'
<1>1. /\ phase = "generate" /\ mode = "per_kind" /\ k <= Len(KINDS)
      /\ UNCHANGED <<started, phase, file, symbols, records, todo, results, server, unseen>>
      /\ IF s <= Len(symbols) /\ count < Target
         THEN Attempt(KINDS[k], symbols[s]) /\ s' = s + 1 /\ UNCHANGED k
         ELSE k' = k + 1 /\ s' = 1 /\ count' = 0 /\ UNCHANGED <<bank, pool, fails>>
  BY DEF PerKind
<1>2. CASE s <= Len(symbols) /\ count < Target
  <2>1. Attempt(KINDS[k], symbols[s]) /\ s' = s + 1 /\ UNCHANGED k
    BY <1>1, <1>2
  <2>2. KINDS[k] \in GENERATORS_BY_NAME
    BY <1>1, OfTheKinds DEF BenchInv, Types
  <2>3. Walks(KINDS[k])
    BY <1>1, <1>2, <2>1, <2>2 DEF Walks, started
  <2>4. QED
    BY <2>1, <2>3, WalkKeeps
<1>3. CASE ~(s <= Len(symbols) /\ count < Target)
  BY <1>1, <1>3, NextKindKeeps
<1>4. QED
  BY <1>2, <1>3

LEMMA RoundRobinKeeps ==
  ASSUME BenchInv, RoundRobin
  PROVE  BenchInv'
<1> DEFINE kind == KINDS[(s % Len(KINDS)) + 1]
<1>1. /\ phase = "generate" /\ mode = "round_robin" /\ s <= Len(symbols) /\ Len(bank) < Target /\ s' = s + 1
      /\ UNCHANGED <<world, mode, harness, phase, file, symbols, records, k, todo, results, server, unseen>>
      /\ Attempt(kind, symbols[s])
  BY DEF RoundRobin, started
<1>2. kind \in GENERATORS_BY_NAME
  <2>1. s \in Nat
    BY LenProperties DEF BenchInv, Types
  <2>2. (s % Len(KINDS)) + 1 \in 1..Len(KINDS)
    BY <2>1, OfTheKinds
  <2>3. QED
    BY <2>2, OfTheKinds
<1> HIDE DEF kind
<1>3. Walks(kind)
  BY <1>1, <1>2 DEF Walks
<1>4. QED
  BY <1>1, <1>3, WalkKeeps

-----------------------------------------------------------------------------
(* The pass: a row for each run.                                            *)

LEMMA BankStays ==
  ASSUME BankedInv, UNCHANGED <<started, file, symbols, records, pool, k, s, count, bank>>
  PROVE  BankedInv'
<1>1. UNCHANGED <<world, mode, harness, file, symbols, records, pool, k, s, count, bank>>
  BY DEF started
<1>2. Recorded' /\ Counted'
  BY <1>1 DEF BankedInv, Recorded, Counted, OfKind, Files
<1>3. InTurn' /\ AgainInTurn'
  BY <1>1 DEF BankedInv, InTurn, AgainInTurn, Faulty, AskedSince, Waits
<1>4. \A q : Walked(q) => Walked(q)'
  BY <1>1, SoundStays DEF Walked, Passed, OfRecord, Faulty
<1>5. \A i \in 1..Len(bank') : Walked(bank[i])'
  BY <1>1, <1>4 DEF BankedInv, BankInv
<1>6. BankInv'
  BY <1>1, <1>5 DEF BankedInv, BankInv
<1>7. QED
  BY <1>2, <1>3, <1>6 DEF BankedInv

\* The server reads on.
LEMMA IndexKeeps ==
  ASSUME BenchInv, Index
  PROVE  BenchInv'
<1>1. /\ phase \in Oracle /\ unseen' \subseteq unseen /\ UNCHANGED <<started, server, fails>>
      /\ UNCHANGED <<phase, file, symbols, records, pool, k, s, count, bank, todo, results>>
  BY DEF Index, Oracle
<1>2. UNCHANGED <<world, mode, harness>>
  BY <1>1 DEF started
<1>3. Types /\ Stages /\ BankedInv /\ PassInv
  BY DEF BenchInv
<1>4. Types'
  BY <1>1, <1>2, <1>3 DEF Types, Paths, Files
<1>5. Stages'
  BY <1>1, <1>2, <1>3 DEF Stages
<1>6. BankedInv'
  BY <1>1, <1>2, <1>3, BankStays
<1>7. PassInv'
  <2>1. phase' \notin Passing
    BY <1>1 DEF Oracle, Passing
  <2>2. OnPass' /\ Ends'
    BY <2>1 DEF OnPass, Ends, Passing
  <2>3. ByTurns'
    BY <1>1, <1>3 DEF PassInv, ByTurns, Of
  <2>4. QED
    BY <2>2, <2>3 DEF PassInv
<1>8. QED
  BY <1>4, <1>5, <1>6, <1>7 DEF BenchInv

\* The runs: every one of a question there is, the arms in turn, each as often.
LEMMA InRounds ==
  ASSUME NEW t \in Nat, NEW a \in Nat, NEW n \in 0..2, NEW i \in 1..t * a * n
  PROVE  /\ n # 0 /\ a # 0 /\ i - 1 \in Nat
         /\ ((i - 1) \div n) % a \in 0..a - 1 /\ (i - 1) % n \in 0..n - 1
<1>1. t * a * n \in Nat
  OBVIOUS
<1>2. n # 0
  <2>1. SUFFICES ASSUME n = 0 PROVE FALSE
    OBVIOUS
  <2>2. t * a \in Nat
    OBVIOUS
  <2>3. (t * a) * 0 = 0
    BY <2>2
  <2>4. QED
    BY <2>1, <2>3
<1>3. a # 0
  <2>1. SUFFICES ASSUME a = 0 PROVE FALSE
    OBVIOUS
  <2>2. t * 0 = 0
    OBVIOUS
  <2>3. 0 * n = 0
    OBVIOUS
  <2>4. QED
    BY <2>1, <2>2, <2>3
<1>4. i - 1 \in Nat
  BY <1>1
<1>5. (i - 1) \div n \in Nat /\ (i - 1) % n \in 0..n - 1
  BY <1>2, <1>4
<1>6. ((i - 1) \div n) % a \in 0..a - 1
  BY <1>3, <1>5
<1>7. QED
  BY <1>2, <1>3, <1>4, <1>5, <1>6

LEMMA OfTheRuns ==
  ASSUME IsSeq(bank)
  PROVE  /\ Len(Runs) \in Nat /\ Len(Runs) = Trials * Asked * Len(Arms) /\ Asked \in Nat /\ IsSeq(Runs)
         /\ \A i \in 1..Len(Runs) : /\ Len(Arms) \in 1..2 /\ Runs[i].arm = Arms[((i - 1) % Len(Arms)) + 1]
                                    /\ Runs[i].q \in 1..Len(bank)
<1> DEFINE n == Len(Arms)
           a == Asked
           t == Trials
           all == t * a * n
<1>1. a \in Nat /\ a <= Len(bank) /\ Len(bank) \in Nat
  BY BenchAssumption DEF Asked, IsSeq
<1>2. n \in 0..2 /\ t \in Nat
  BY OfTheArms, BenchAssumption
<1>3. Runs = [i \in 1..all |-> [trial |-> (((i - 1) \div n) \div a) + 1, q |-> (((i - 1) \div n) % a) + 1,
                                arm |-> Arms[((i - 1) % n) + 1]]]
  BY DEF Runs
<1> HIDE DEF n, a, t
<1>4. all \in Nat
  BY <1>1, <1>2
<1>5. ASSUME NEW i \in 1..all
      PROVE  /\ n \in 1..2 /\ Runs[i].arm = Arms[((i - 1) % n) + 1] /\ Runs[i].q \in 1..Len(bank)
  <2>1. n # 0 /\ ((i - 1) \div n) % a \in 0..a - 1 /\ a # 0
    BY <1>1, <1>2, InRounds
  <2>2. Runs[i].arm = Arms[((i - 1) % n) + 1] /\ Runs[i].q = (((i - 1) \div n) % a) + 1
    BY <1>3
  <2>3. (((i - 1) \div n) % a) + 1 \in 1..Len(bank)
    <3> DEFINE m == ((i - 1) \div n) % a
    <3>1. m \in 0..a - 1
      BY <2>1
    <3> HIDE DEF m
    <3>2. m + 1 \in 1..Len(bank)
      BY <1>1, <3>1
    <3>3. QED
      BY <3>2 DEF m
  <2>4. QED
    BY <1>2, <2>1, <2>2, <2>3
<1> HIDE DEF all
<1>6. Runs = [i \in 1..all |-> Runs[i]]
  BY <1>3
<1>7. IsSeq(Runs) /\ Len(Runs) = all
  BY <1>4, <1>6, FunctionIsSeq
<1>8. QED
  BY <1>1, <1>4, <1>5, <1>7 DEF all, n, a, t

LEMMA WrittenKeeps ==
  ASSUME BenchInv, Written
  PROVE  BenchInv'
<1>1. /\ phase = "generate" /\ phase' \in {"run"} \cup (IF OnePharos THEN {"aborted"} ELSE {})
      /\ todo' = Runs /\ server' \in {"up", "dead"}
      /\ UNCHANGED <<started, oracle>> /\ UNCHANGED <<results, fails>>
  BY DEF Written
<1>2. UNCHANGED <<world, mode, harness, file, symbols, records, pool, k, s, count, bank, unseen>>
  BY <1>1 DEF started, oracle
<1>3. Types /\ Stages /\ BankedInv /\ PassInv
  BY DEF BenchInv
<1>4. results = <<>> /\ results' = <<>> /\ Len(results) = 0 /\ Len(results') = 0
  BY <1>1, <1>3 DEF Stages, Oracle
<1>5. phase' \in Passing
  BY <1>1 DEF Passing
<1>6. IsSeq(Runs) /\ Len(Runs) \in Nat /\ Runs' = Runs
  BY <1>2, <1>3, OfTheRuns DEF Types, Runs, Asked
<1>7. Types'
  BY <1>1, <1>2, <1>3, <1>5, <1>6 DEF Types, Paths, Files
<1>8. Stages'
  BY <1>2, <1>3, <1>5, <1>1 DEF Stages, Oracle, Passing
<1>9. PassInv'
  <2>1. OnPass'
    BY <1>1, <1>4, <1>6 DEF OnPass
  <2>2. ByTurns'
    BY <1>1, <1>3 DEF PassInv, ByTurns, Of
  <2>3. Ends'
    BY <1>1, <1>2, <1>4 DEF Ends, OnePharos
  <2>4. QED
    BY <2>1, <2>2, <2>3 DEF PassInv
<1>10. BankedInv'
  BY <1>1, <1>2, <1>3, BankStays
<1>11. QED
  BY <1>7, <1>8, <1>9, <1>10 DEF BenchInv

\* The arms are ahead of one another by turns.
LEMMA NextTurn ==
  ASSUME NEW n \in Nat, NEW a \in Nat, NEW b \in Nat,
         a \in {b, b + 1}, a = b <=> n % 2 = 0
  PROVE  IF n % 2 = 0 THEN a + 1 \in {b, b + 1} /\ a + 1 # b /\ (n + 1) % 2 = 1
                      ELSE a \in {b + 1, b + 1 + 1} /\ a = b + 1 /\ (n + 1) % 2 = 0
OBVIOUS

LEMMA RunKeeps ==
  ASSUME BenchInv, run_one
  PROVE  BenchInv'
<1>1. /\ phase = "run" /\ todo # <<>> /\ todo' = Tail(todo)
      /\ UNCHANGED <<started, oracle>> /\ UNCHANGED <<phase, server, fails>>
  BY DEF run_one
<1>2. PICK o \in Outcomes : results' = Append(results, Row(Head(todo), o))
  BY DEF run_one
<1>3. UNCHANGED <<world, mode, harness, file, symbols, records, pool, k, s, count, bank, unseen>>
  BY <1>1 DEF started, oracle
<1>4. Types /\ Stages /\ BankedInv /\ OnPass /\ ByTurns /\ phase \in Passing
  BY <1>1 DEF BenchInv, PassInv, Passing
<1> DEFINE run == Head(todo)
           row == Row(run, o)
           n == Len(results)
<1>5. /\ IsSeq(todo') /\ Len(todo) \in Nat /\ Len(todo) >= 1 /\ Len(todo') = Len(todo) - 1 /\ run = todo[1]
      /\ \A i \in 1..Len(todo) - 1 : todo'[i] = todo[i + 1]
  BY <1>1, <1>4, HeadAndTail DEF Types
<1>6. IsSeq(results') /\ n \in Nat /\ Len(results') = n + 1 /\ results'[n + 1] = row
      /\ \A i \in 1..n : results'[i] = results[i]
  BY <1>2, <1>4, Appended DEF Types, OneMore
<1>7. Runs' = Runs /\ Len(Runs) \in Nat /\ n + Len(todo) = Len(Runs)
      /\ (\A i \in 1..n : RunOf(results[i]) = Runs[i])
      /\ (\A i \in 1..Len(todo) : todo[i] = Runs[n + i])
  BY <1>3, <1>4, OfTheRuns DEF Types, OnPass, Runs, Asked
<1>8. run = Runs[n + 1] /\ n + 1 \in 1..Len(Runs)
  BY <1>5, <1>6, <1>7
<1>9. row.trial = run.trial /\ row.q = run.q /\ row.arm = run.arm
  BY DEF Row
<1>10. RunOf(row) = Runs[n + 1]
  <2>1. \E t, q, a : run = [trial |-> t, q |-> q, arm |-> a]
    <3> DEFINE Made(i) == [trial |-> (((i - 1) \div Len(Arms)) \div Asked) + 1,
                           q |-> (((i - 1) \div Len(Arms)) % Asked) + 1, arm |-> Arms[((i - 1) % Len(Arms)) + 1]]
    <3>1. Len(Runs) = Trials * Asked * Len(Arms)
      BY <1>4, OfTheRuns DEF Types
    <3>2. Runs = [i \in 1..Trials * Asked * Len(Arms) |-> Made(i)]
      BY DEF Runs
    <3> HIDE DEF Made
    <3>3. Runs[n + 1] = Made(n + 1)
      BY <1>8, <3>1, <3>2
    <3>4. QED
      BY <1>8, <3>3 DEF Made
  <2>2. PICK t, q, a : run = [trial |-> t, q |-> q, arm |-> a]
    BY <2>1
  <2> HIDE DEF run, row
  <2>3. run.trial = t /\ run.q = q /\ run.arm = a
    BY <2>2
  <2>4. QED
    BY <1>8, <1>9, <2>2, <2>3 DEF RunOf
<1> HIDE DEF run, row, n
<1>11. Types'
  BY <1>1, <1>3, <1>4, <1>5, <1>6 DEF Types, Paths, Files
<1>12. Stages'
  BY <1>1, <1>3, <1>4 DEF Stages, Oracle, Passing
<1>13. OnPass'
  <2>1. Len(results') + Len(todo') = Len(Runs')
    BY <1>5, <1>6, <1>7
  <2>2. ASSUME NEW i \in 1..Len(results') PROVE RunOf(results'[i]) = Runs'[i]
    <3>1. CASE i \in 1..n
      BY <1>6, <1>7, <3>1
    <3>2. CASE i = n + 1
      BY <1>6, <1>7, <1>10, <3>2
    <3>3. i \in 1..n \/ i = n + 1
      BY <1>6
    <3>4. QED
      BY <3>1, <3>2, <3>3
  <2>3. ASSUME NEW i \in 1..Len(todo') PROVE todo'[i] = Runs'[Len(results') + i]
    <3>1. i \in 1..Len(todo) - 1 /\ i + 1 \in 1..Len(todo)
      BY <1>5
    <3>2. todo'[i] = Runs[n + (i + 1)]
      BY <1>5, <1>7, <3>1
    <3>3. n + (i + 1) = Len(results') + i
      BY <1>6, <3>1
    <3>4. QED
      BY <1>7, <3>2, <3>3
  <2>4. QED
    BY <2>1, <2>2, <2>3 DEF OnPass, RunOf
<1>14. ByTurns'
  <2>1. SUFFICES ASSUME Len(Arms) = 2 PROVE ByTurns'
    BY DEF ByTurns
  <2> DEFINE a == Arms[1]
             b == Arms[2]
  <2>2. a # b
    BY <2>1, OfTheArms
  <2>3. row.arm = IF n % 2 = 0 THEN a ELSE b
    <3>1. IsSeq(bank)
      BY <1>4 DEF Types
    <3>2. \A i \in 1..Len(Runs) : Runs[i].arm = Arms[((i - 1) % Len(Arms)) + 1]
      BY <3>1, OfTheRuns
    <3>3. \A i \in 1..Len(Runs) : Runs[i].arm = Arms[((i - 1) % 2) + 1]
      BY <2>1, <3>2, Zenon
    <3>4. PICK i \in 1..Len(Runs) : i = n + 1
      BY <1>8
    <3>5. row.arm = Runs[i].arm
      BY <1>8, <1>9, <3>4
    <3>6. row.arm = Arms[((i - 1) % 2) + 1]
      BY <3>3, <3>5
    <3>7. (i - 1) % 2 = n % 2 /\ (n % 2 = 0 \/ n % 2 = 1)
      BY <1>6, <3>4
    <3>8. QED
      BY <3>6, <3>7
  <2> HIDE DEF a, b
  <2>4. \A c : Of(c) \in SUBSET (1..n)
    BY DEF Of, n
  <2>5. \A c : Of(c)' = IF row.arm = c THEN Of(c) \cup {n + 1} ELSE Of(c)
    BY <1>6 DEF Of, n
  <2>6. /\ Cardinality(Of(a)) \in Nat /\ Cardinality(Of(b)) \in Nat
        /\ Cardinality(Of(a) \cup {n + 1}) = Cardinality(Of(a)) + 1
        /\ Cardinality(Of(b) \cup {n + 1}) = Cardinality(Of(b)) + 1
    BY <1>6, <2>4, OnePlace
  <2>7. /\ Cardinality(Of(a)) \in {Cardinality(Of(b)), Cardinality(Of(b)) + 1}
        /\ Cardinality(Of(a)) = Cardinality(Of(b)) <=> n % 2 = 0
    BY <1>4, <2>1 DEF ByTurns, a, b, n
  <2>8. IF n % 2 = 0
        THEN Cardinality(Of(a)) + 1 \in {Cardinality(Of(b)), Cardinality(Of(b)) + 1}
             /\ Cardinality(Of(a)) + 1 # Cardinality(Of(b)) /\ (n + 1) % 2 = 1
        ELSE Cardinality(Of(a)) \in {Cardinality(Of(b)) + 1, Cardinality(Of(b)) + 1 + 1}
             /\ Cardinality(Of(a)) = Cardinality(Of(b)) + 1 /\ (n + 1) % 2 = 0
    BY <1>6, <2>6, <2>7, NextTurn
  <2>9. /\ Cardinality(Of(a)') \in {Cardinality(Of(b)'), Cardinality(Of(b)') + 1}
        /\ Cardinality(Of(a)') = Cardinality(Of(b)') <=> (n + 1) % 2 = 0
    <3>1. CASE n % 2 = 0
      <4>1. Of(a)' = Of(a) \cup {n + 1} /\ Of(b)' = Of(b)
        BY <2>2, <2>3, <2>5, <3>1
      <4>2. QED
        BY <2>6, <2>8, <3>1, <4>1
    <3>2. CASE n % 2 # 0
      <4>1. Of(b)' = Of(b) \cup {n + 1} /\ Of(a)' = Of(a)
        BY <2>2, <2>3, <2>5, <3>2
      <4>2. QED
        BY <2>6, <2>8, <3>2, <4>1
    <3>3. QED
      BY <3>1, <3>2
  <2>10. QED
    BY <1>6, <2>9 DEF ByTurns, a, b
<1>15. Ends'
  BY <1>1 DEF Ends
<1>16. BankedInv'
  BY <1>1, <1>3, <1>4, BankStays
<1>17. QED
  BY <1>11, <1>12, <1>13, <1>14, <1>15, <1>16 DEF BenchInv, PassInv

\* The other steps end the pass, or pharos.
LEMMA RestKeeps ==
  ASSUME BenchInv, Abort \/ Finish \/ Die
  PROVE  BenchInv'
<1>1. UNCHANGED <<started, oracle>> /\ UNCHANGED <<todo, results, fails>>
  BY DEF Abort, Finish, Die
<1>2. UNCHANGED <<world, mode, harness, file, symbols, records, pool, k, s, count, bank, unseen>>
  BY <1>1 DEF started, oracle
<1>3. Types /\ Stages /\ BankedInv /\ OnPass /\ ByTurns /\ Ends
  BY DEF BenchInv, PassInv
<1>4. \/ phase = "run" /\ phase' = "aborted" /\ Lists /\ server' = server
      \/ phase = "run" /\ phase' = "done" /\ todo = <<>> /\ server' = server
      \/ phase' = phase /\ server' = "dead"
  BY DEF Abort, Finish, Die
<1>5. BankedInv'
  BY <1>1, <1>2, <1>3, BankStays
<1>6. Types'
  BY <1>1, <1>2, <1>3, <1>4 DEF Types, Paths, Files, Passing
<1>7. Stages'
  BY <1>1, <1>2, <1>3, <1>4 DEF Stages, Oracle, Passing
<1>8. OnPass'
  <2>1. phase' \in Passing => phase \in Passing
    BY <1>4 DEF Passing
  <2>2. Runs' = Runs
    BY <1>2 DEF Runs, Asked
  <2>3. QED
    BY <1>1, <1>3, <2>1, <2>2 DEF OnPass, RunOf
<1>9. ByTurns'
  BY <1>1, <1>3 DEF ByTurns, Of
<1>10. Ends'
  <2>1. OnePharos' <=> OnePharos
    BY <1>2 DEF OnePharos
  <2>2. Lists => OnePharos /\ Head(todo).arm = "treatment"
    BY DEF Lists
  <2>3. QED
    BY <1>1, <1>3, <1>4, <2>1, <2>2 DEF Ends
<1>11. QED
  BY <1>5, <1>6, <1>7, <1>8, <1>9, <1>10 DEF BenchInv, PassInv

LEMMA BenchNext == BenchInv /\ [Next]_vars => BenchInv'
<1>1. ASSUME BenchInv, Next PROVE BenchInv'
  BY <1>1, IndexKeeps, CollectKeeps, PrepareKeeps, DiagnosticsKeep, PerKindKeeps, RoundRobinKeeps, WrittenKeeps,
     RunKeeps, RestKeeps DEF Next
<1>2. ASSUME BenchInv, UNCHANGED vars PROVE BenchInv'
  <2>1. UNCHANGED <<started, oracle>> /\ UNCHANGED <<phase, todo, results, server, fails>>
    BY <1>2 DEF vars, started, oracle
  <2>2. UNCHANGED <<world, mode, harness, file, symbols, records, pool, k, s, count, bank, unseen>>
    BY <2>1 DEF started, oracle
  <2>3. BankedInv'
    BY <1>2, <2>1, <2>2, BankStays DEF BenchInv
  <2>4. Types' /\ Stages'
    BY <1>2, <2>1, <2>2 DEF BenchInv, Types, Stages, Paths, Files
  <2>5. OnPass' /\ ByTurns' /\ Ends'
    <3>1. Runs' = Runs
      BY <2>2 DEF Runs, Asked
    <3>2. OnPass'
      BY <1>2, <2>1, <3>1 DEF BenchInv, PassInv, OnPass, RunOf
    <3>3. ByTurns'
      BY <1>2, <2>1 DEF BenchInv, PassInv, ByTurns, Of
    <3>4. Ends'
      BY <1>2, <2>1, <2>2 DEF BenchInv, PassInv, Ends, OnePharos
    <3>5. QED
      BY <3>2, <3>3, <3>4
  <2>6. QED
    BY <2>3, <2>4, <2>5 DEF BenchInv, PassInv
<1>3. QED
  BY <1>1, <1>2

-----------------------------------------------------------------------------
(* Theorems.                                                                *)

LEMMA BenchInvariant == Spec => []BenchInv
BY BenchInit, BenchNext, PTL DEF Spec

LEMMA TypesFollow == BenchInv => TypeOK
<1>1. SUFFICES ASSUME BenchInv PROVE TypeOK
  OBVIOUS
<1>2. Types /\ Stages /\ BankInv /\ OnPass
  BY <1>1 DEF BenchInv, BankedInv, PassInv
<1>3. ToSet(symbols) \subseteq world.symbols
  BY <1>2, CollectedSymbols
<1>4. \A i \in 1..Len(bank) : bank[i] # None
  <2>1. None.kind = "none"
    BY DEF None
  <2>2. \A i \in 1..Len(bank) : bank[i].kind \in GENERATORS_BY_NAME
    BY <1>2 DEF BankInv, Walked
  <2>3. "none" \notin GENERATORS_BY_NAME
    BY DEF GENERATORS_BY_NAME
  <2>4. QED
    BY <2>1, <2>2, <2>3
<1>5. \A i \in 1..Len(todo) : todo[i].q \in 1..Len(bank)
  <2>1. CASE phase \in Passing
    <3>1. /\ Len(results) \in Nat /\ Len(todo) \in Nat /\ Len(results) + Len(todo) = Len(Runs)
          /\ \A i \in 1..Len(todo) : todo[i] = Runs[Len(results) + i]
      BY <1>2, <2>1 DEF OnPass, Types, IsSeq
    <3>2. \A i \in 1..Len(Runs) : Runs[i].q \in 1..Len(bank)
      BY <1>2, OfTheRuns DEF Types
    <3>3. \A i \in 1..Len(todo) : Len(results) + i \in 1..Len(Runs)
      BY <3>1
    <3>4. QED
      BY <3>1, <3>2, <3>3
  <2>2. CASE phase \notin Passing
    <3>1. todo = <<>>
      BY <1>2, <2>2 DEF Stages, Types
    <3>2. QED
      BY <3>1
  <2>3. QED
    BY <2>1, <2>2
<1>6. count <= Target /\ fails <= MaxFail
  BY <1>2, BenchAssumption DEF Types
<1>7. phase \in {"collect", "diagnose", "generate", "run", "done", "nothing", "aborted"}
  BY <1>2 DEF Types, Oracle, Passing
<1>8. QED
  BY <1>2, <1>3, <1>4, <1>5, <1>6, <1>7 DEF TypeOK, Types

\* The types of the benchmark's state (oracle.py 907-1030, harness.py 261-286).
THEOREM BenchTypes == Spec => []TypeOK
BY BenchInvariant, TypesFollow, PTL

LEMMA SoundnessFollows == BenchInv => QuestionsAreSound
<1>1. SUFFICES ASSUME BenchInv PROVE QuestionsAreSound
  OBVIOUS
<1>2. Types /\ BankInv /\ AgainInTurn /\ Counted /\ Recorded
  BY <1>1 DEF BenchInv, BankedInv
<1>3. \A i \in 1..Len(bank) : Sound(bank[i])
  BY <1>2 DEF BankInv, Walked
<1>4. ASSUME NEW i \in 1..Len(bank), NEW j \in 1..Len(bank), i < j, bank[i].kind = bank[j].kind
      PROVE  IF bank[i].kind = "diagnostics_count"
             THEN bank[i].anchor.file = bank[j].anchor.file =>
                    \A r \in ToSet(records) : r.count > 0 =>
                      \E h \in i..j - 1 : bank[h].kind = bank[i].kind /\ bank[h].anchor.file = r.file
             ELSE bank[i].of # bank[j].of
  <2>1. CASE bank[i].kind = "diagnostics_count"
    <3>1. ASSUME bank[i].anchor.file = bank[j].anchor.file, NEW r \in ToSet(records), r.count > 0
          PROVE  \E h \in i..j - 1 : bank[h].kind = bank[i].kind /\ bank[h].anchor.file = r.file
      <4>1. PICK n \in 1..Len(records) : r = records[n]
        BY <1>2, LenProperties DEF Types, ToSet
      <4>2. Faulty(n)
        BY <3>1, <4>1 DEF Faulty
      <4>3. \E h \in i..j - 1 : bank[h].kind = "diagnostics_count" /\ bank[h].anchor.file = records[n].file
        BY <1>2, <1>4, <2>1, <3>1, <4>2 DEF AgainInTurn
      <4>4. QED
        BY <2>1, <4>1, <4>3
    <3>2. QED
      BY <2>1, <3>1
  <2>2. CASE bank[i].kind # "diagnostics_count"
    <3>1. i # j
      BY <1>2, <1>4 DEF Types, IsSeq
    <3>2. QED
      BY <1>2, <1>4, <2>2, <3>1 DEF BankInv
  <2>3. QED
    BY <2>1, <2>2
<1>5. IF mode = "per_kind"
      THEN \A kind \in ToSet(KINDS) : Cardinality({i \in 1..Len(bank) : bank[i].kind = kind}) <= Target
      ELSE Len(bank) <= Target
  <2>1. CASE mode = "per_kind"
    <3>1. ASSUME NEW kind \in ToSet(KINDS)
          PROVE  Cardinality({i \in 1..Len(bank) : bank[i].kind = kind}) <= Target
      <4>1. PICK l \in 1..Len(KINDS) : kind = KINDS[l]
        BY OfTheKinds DEF ToSet
      <4>2. Cardinality(OfKind(kind)) <= Target
        BY <1>2, <2>1, <4>1 DEF Counted
      <4>3. QED
        BY <4>2 DEF OfKind
    <3>2. QED
      BY <2>1, <3>1
  <2>2. CASE mode # "per_kind"
    <3>1. mode = "round_robin" /\ Target \in Nat
      BY <1>2, <2>2, BenchAssumption DEF Types
    <3>2. count = Len(bank) /\ count \in 0..Target
      BY <1>2, <3>1 DEF Counted, Types
    <3>3. QED
      BY <2>2, <3>1, <3>2
  <2>3. QED
    BY <2>1, <2>2
<1>6. QED
  BY <1>3, <1>4, <1>5 DEF QuestionsAreSound

\* For every workspace, whatever calls fail and whatever the server has not read yet,
\* each question is anchored where it is a question and its truth is at most what the
\* workspace has, and all of it if every file had been read; no kind asks of a symbol
\* twice, the diagnostics are asked about in turn, file by file, and there are never
\* more than asked for (oracle.py 294-813 and 985-1030).
THEOREM BankIsSound == Spec => []QuestionsAreSound
BY BenchInvariant, SoundnessFollows, PTL

-----------------------------------------------------------------------------
(* The comparison.                                                          *)

\* The rows and what is to do, end to end, are the runs.
LEMMA RowsThenRest ==
  ASSUME Types, OnPass, phase \in Passing
  PROVE  [i \in 1..Len(results) |-> RunOf(results[i])] \o todo = Runs
<1> DEFINE n == Len(results)
           rows == [i \in 1..n |-> RunOf(results[i])]
           S == {Runs[i] : i \in 1..Len(Runs)}
<1>1. n \in Nat /\ Len(todo) \in Nat /\ IsSeq(todo) /\ IsSeq(Runs) /\ Len(Runs) \in Nat
  BY OfTheRuns DEF Types, IsSeq
<1>2. n + Len(todo) = Len(Runs) /\ (\A i \in 1..n : rows[i] = Runs[i])
      /\ (\A i \in 1..Len(todo) : todo[i] = Runs[n + i])
  BY DEF OnPass
<1>3. rows = [i \in 1..n |-> rows[i]]
  OBVIOUS
<1> HIDE DEF n, rows
<1>4. IsSeq(rows) /\ Len(rows) = n
  BY <1>1, <1>3, FunctionIsSeq
<1>5. \A i \in 1..Len(Runs) : Runs[i] \in S
  OBVIOUS
<1>6. (\A i \in 1..n : rows[i] \in S) /\ (\A i \in 1..Len(todo) : todo[i] \in S)
  <2>1. \A i \in 1..n : i \in 1..Len(Runs)
    BY <1>1, <1>2
  <2>2. \A i \in 1..Len(todo) : n + i \in 1..Len(Runs)
    BY <1>1, <1>2
  <2> HIDE DEF S
  <2>3. QED
    BY <1>2, <1>5, <2>1, <2>2
<1> HIDE DEF S
<1>7. rows \in Seq(S) /\ todo \in Seq(S) /\ Runs \in Seq(S)
  BY <1>1, <1>4, <1>5, <1>6, SeqOfItsElements
<1>8. /\ rows \o todo \in Seq(S) /\ Len(rows \o todo) = n + Len(todo)
      /\ \A i \in 1..n + Len(todo) : (rows \o todo)[i] = IF i <= n THEN rows[i] ELSE todo[i - n]
  BY <1>4, <1>7, ConcatProperties
<1>9. ASSUME NEW i \in 1..Len(rows \o todo) PROVE (rows \o todo)[i] = Runs[i]
  <2>1. CASE i <= n
    BY <1>1, <1>2, <1>8, <2>1
  <2>2. CASE ~(i <= n)
    <3>1. i - n \in 1..Len(todo) /\ n + (i - n) = i
      BY <1>1, <1>8, <2>2
    <3>2. (rows \o todo)[i] = todo[i - n]
      BY <1>8, <2>2
    <3>3. todo[i - n] = Runs[n + (i - n)]
      BY <1>2, <3>1
    <3>4. QED
      BY <3>1, <3>2, <3>3
  <2>3. QED
    BY <2>1, <2>2
<1>10. rows \o todo = Runs
  BY <1>2, <1>7, <1>8, <1>9, SeqEqual
<1>11. QED
  BY <1>10 DEF rows, n

\* How many rows an arm has.
LEMMA RowsOfArm ==
  ASSUME Types, NEW a
  PROVE  summarize(a).n = Cardinality(Of(a)) /\ summarize(a).n \in Nat
<1>1. Len(results) \in Nat /\ Of(a) \in SUBSET (1..Len(results))
  BY DEF Types, IsSeq, Of
<1>2. Cardinality(Of(a)) \in Nat
  BY <1>1, OnePlace
<1>3. QED
  BY <1>2 DEF summarize

LEMMA EvenNumber ==
  ASSUME NEW x \in Nat
  PROVE  (x * 2) % 2 = 0
OBVIOUS

LEMMA FairnessFollows == BenchInv => ComparisonIsFair
<1>1. SUFFICES ASSUME BenchInv PROVE ComparisonIsFair
  OBVIOUS
<1>2. Types /\ OnPass /\ ByTurns /\ Ends
  BY <1>1 DEF BenchInv, PassInv
<1>3. phase \in {"run", "done", "aborted"} =>
        [i \in 1..Len(results) |-> [trial |-> results[i].trial, q |-> results[i].q, arm |-> results[i].arm]]
          \o todo = Runs
  BY <1>2, RowsThenRest DEF RunOf, Passing
<1>4. ASSUME NEW a \in ToSet(Arms), NEW b \in ToSet(Arms)
      PROVE  /\ summarize(a).n <= summarize(b).n + 1
             /\ phase = "done" => summarize(a).n = summarize(b).n
  <2>1. /\ summarize(a).n = Cardinality(Of(a)) /\ summarize(a).n \in Nat
        /\ summarize(b).n = Cardinality(Of(b)) /\ summarize(b).n \in Nat
    BY <1>2, RowsOfArm
  <2>2. CASE a = b
    BY <2>1, <2>2
  <2>3. CASE a # b
    <3>1. PICK l \in 1..Len(Arms), m \in 1..Len(Arms) : a = Arms[l] /\ b = Arms[m]
      BY OfTheArms DEF ToSet
    <3>2. Len(Arms) = 2 /\ ((l = 1 /\ m = 2) \/ (l = 2 /\ m = 1))
      <4>1. l # m
        BY <2>3, <3>1
      <4>2. QED
        BY <3>1, <4>1, OfTheArms
    <3>3. /\ Cardinality(Of(Arms[1])) \in {Cardinality(Of(Arms[2])), Cardinality(Of(Arms[2])) + 1}
          /\ Cardinality(Of(Arms[1])) = Cardinality(Of(Arms[2])) <=> Len(results) % 2 = 0
      BY <1>2, <3>2 DEF ByTurns
    <3>4. ASSUME phase = "done" PROVE Len(results) % 2 = 0
      <4>1. todo = <<>> /\ Len(results) + Len(todo) = Len(Runs) /\ Len(results) \in Nat
        BY <1>2, <3>4 DEF Ends, OnPass, Passing, Types, IsSeq
      <4>2. Len(Runs) = Trials * Asked * Len(Arms) /\ Asked \in Nat /\ Trials \in Nat
        BY <1>2, OfTheRuns, BenchAssumption DEF Types
      <4>3. Len(todo) = 0
        BY <4>1
      <4>4. Trials * Asked \in Nat
        BY <4>2
      <4>5. Len(results) = (Trials * Asked) * 2
        BY <3>2, <4>1, <4>2, <4>3
      <4>6. QED
        BY <4>4, <4>5, EvenNumber
    <3>5. CASE l = 1 /\ m = 2
      BY <2>1, <3>1, <3>3, <3>4, <3>5
    <3>6. CASE l = 2 /\ m = 1
      BY <2>1, <3>1, <3>3, <3>4, <3>6
    <3>7. QED
      BY <3>2, <3>5, <3>6
  <2>4. QED
    BY <2>2, <2>3
<1>5. phase = "aborted" => OnePharos /\ (results = <<>> \/ Head(todo).arm = "treatment")
  BY <1>2 DEF Ends
<1>6. QED
  BY <1>3, <1>4, <1>5 DEF ComparisonIsFair

\* The two arms are put to the same questions in the same order, so that neither is
\* more than one row ahead and a pass that ends has as many rows of each; one that
\* ends early is DeepSeek's with pharos, at its start or where pharos is next
\* (harness.py 261-286, harness_deepseek.py 598-631).
THEOREM ArmsAreComparedFairly == Spec => []ComparisonIsFair
BY BenchInvariant, FairnessFollows, PTL
=============================================================================
