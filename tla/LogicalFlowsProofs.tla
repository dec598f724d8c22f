-------------------------- MODULE LogicalFlowsProofs --------------------------
(***************************************************************************)
(* Proofs about LogicalFlows, for every set of flows, meters and groups    *)
(* and every bound: the meter of a flow exists, and an adapter that        *)
(* answered has the rules of the record.                                   *)
(***************************************************************************)
EXTENDS LogicalFlows, FiniteSetTheorems, TLAPS

-----------------------------------------------------------------------------
(***************************************************************************)
(* Sequences.                                                              *)
(***************************************************************************)
\* The positions of a sequence that are in a set can be counted off: each has a rank
\* among them, no two the same, and every rank is taken.
LEMMA Ranks ==
  ASSUME NEW n \in Nat, NEW I \in SUBSET (1..n)
  PROVE  /\ Cardinality(I) \in Nat
         /\ \A i \in I : Cardinality({j \in I : j <= i}) \in 1..Cardinality(I)
         /\ \A i, j \in I : i < j => Cardinality({k \in I : k <= i}) < Cardinality({k \in I : k <= j})
         /\ \A k \in 1..Cardinality(I) : \E i \in I : Cardinality({j \in I : j <= i}) = k
<1> DEFINE Rank(i) == Cardinality({j \in I : j <= i})
           r == [i \in I |-> Rank(i)]
<1>1. IsFiniteSet(I) /\ Cardinality(I) \in Nat
  <2>1. IsFiniteSet(1..n)
    BY FS_Interval
  <2>2. IsFiniteSet(I)
    BY <2>1, FS_Subset, Zenon
  <2> QED BY <2>2, FS_CardinalityType, Zenon
<1>2. ASSUME NEW i \in I PROVE Rank(i) \in 1..Cardinality(I) /\ Rank(i) \in Nat
  <2>1. {j \in I : j <= i} \in SUBSET I /\ i \in {j \in I : j <= i}
    OBVIOUS
  <2>2. IsFiniteSet({j \in I : j <= i}) /\ Rank(i) <= Cardinality(I) /\ Rank(i) \in Nat
    BY <1>1, <2>1, FS_Subset, FS_CardinalityType, Zenon
  <2>3. Rank(i) # 0
    BY <2>1, <2>2, FS_EmptySet, Zenon
  <2> QED BY <1>1, <2>2, <2>3
<1>3. ASSUME NEW i \in I, NEW j \in I, i < j PROVE Rank(i) < Rank(j)
  <2> DEFINE A == {k \in I : k <= i}
             B == {k \in I : k <= j}
  <2>1. A \subseteq B
    <3> SUFFICES ASSUME NEW k \in A PROVE k \in B
      BY Zenon
    <3>1. k \in I /\ k <= i /\ k \in Int /\ i \in Int /\ j \in Int
      OBVIOUS
    <3> QED BY <1>3, <3>1
  <2>2. A \in SUBSET B /\ j \in B /\ j \notin A
    BY <1>3, <2>1
  <2>a. A \in SUBSET I /\ B \in SUBSET I
    OBVIOUS
  <2>3. IsFiniteSet(B) /\ Cardinality(A) \in Nat /\ Cardinality(B) \in Nat
    <3> HIDE DEF A, B
    <3>1. IsFiniteSet(A) /\ IsFiniteSet(B)
      BY <1>1, <2>a, FS_Subset, Zenon
    <3> QED BY <3>1, FS_CardinalityType, Zenon
  <2> HIDE DEF A, B
  <2>4. Cardinality(A) < Cardinality(B)
    <3>1. Cardinality(A) <= Cardinality(B) /\ (Cardinality(B) = Cardinality(A) => B = A)
      BY <2>2, <2>3, FS_Subset, Zenon
    <3> QED BY <2>2, <2>3, <3>1
  <2> QED BY <2>4, Zenon DEF A, B
<1> HIDE DEF Rank
<1>4. r \in Surjection(I, 1..Cardinality(I))
  <2>1. \A i, j \in I : Rank(i) = Rank(j) => i = j
    BY <1>2, <1>3
  <2>2. r \in Injection(I, 1..Cardinality(I))
    BY <1>2, <2>1, Zenon DEF Injection, IsInjective
  <2>3. IsFiniteSet(1..Cardinality(I)) /\ Cardinality(1..Cardinality(I)) = Cardinality(I)
    BY <1>1, FS_Interval
  <2> HIDE DEF r
  <2> QED BY <2>2, <2>3, FS_Injection, Zenon
<1>5. \A k \in 1..Cardinality(I) : \E i \in I : Rank(i) = k
  BY <1>4, Zenon DEF Surjection
<1> QED BY <1>1, <1>2, <1>3, <1>5, Zenon DEF Rank

\* A sequence of elements of a set is one of elements of a larger set.
LEMMA SeqMonotone == ASSUME NEW S, NEW T, S \subseteq T, NEW s \in Seq(S) PROVE s \in Seq(T)
OBVIOUS

\* What Only keeps of a sequence are elements of it that are in the set: it stands
\* for the loops of logical_device_agent.go that collect some flows of the table.
LEMMA OnlyKeeps ==
  ASSUME NEW S, NEW s \in Seq(S), NEW T
  PROVE  /\ Only(s, T) \in Seq(S \cap T)
         /\ Range(Only(s, T)) \subseteq Range(s) \cap T
<1>1. PICK I : I = {i \in DOMAIN s : s[i] \in T}
  BY Zenon
<1> DEFINE Rank(i) == Cardinality({j \in I : j <= i})
           f == [k \in 1..Cardinality(I) |-> CHOOSE i \in I : Rank(i) = k]
<1>2. Only(s, T) = [k \in 1..Cardinality(I) |-> s[CHOOSE i \in I : Rank(i) = k]]
  BY <1>1 DEF Only
<1>3. Cardinality(I) \in Nat /\ \A k \in 1..Cardinality(I) : \E i \in I : Rank(i) = k
  <2>1. I \in SUBSET (1..Len(s)) /\ Len(s) \in Nat
    BY <1>1
  <2> QED BY <2>1, Ranks, Zenon
<1> HIDE DEF Rank
<1>4. f \in [1..Cardinality(I) -> I]
  BY <1>3, Zenon
<1>5. Only(s, T) = [k \in 1..Cardinality(I) |-> s[f[k]]]
  BY <1>2, Zenon
<1> HIDE DEF f
<1>6. \A i \in I : i \in DOMAIN s /\ s[i] \in S \cap T
  BY <1>1
<1>7. \A k \in 1..Cardinality(I) : f[k] \in DOMAIN s /\ s[f[k]] \in S \cap T
  BY <1>4, <1>6, Zenon
<1>8. Only(s, T) \in Seq(S \cap T)
  <2>1. Only(s, T) \in [1..Cardinality(I) -> S \cap T]
    BY <1>5, <1>7, Zenon
  <2> QED BY <1>3, <2>1
<1>9. Range(Only(s, T)) \subseteq Range(s) \cap T
  BY <1>5, <1>7 DEF Range
<1> QED BY <1>8, <1>9, Zenon

\* A set of positions that is not empty has a least one.
LEMMA Least ==
  ASSUME NEW n \in Nat, NEW I \in SUBSET (1..n), I # {}
  PROVE  \E i \in I : \A j \in I : i <= j
<1> DEFINE Rank(i) == Cardinality({j \in I : j <= i})
<1>1. /\ Cardinality(I) \in Nat
      /\ \A i \in I : Rank(i) \in 1..Cardinality(I)
      /\ \A i, j \in I : i < j => Rank(i) < Rank(j)
      /\ \A k \in 1..Cardinality(I) : \E i \in I : Rank(i) = k
  BY Ranks, Zenon
<1> HIDE DEF Rank
<1>2. 1 \in 1..Cardinality(I)
  <2>1. PICK x \in I : Rank(x) \in 1..Cardinality(I)
    BY <1>1, Zenon
  <2> QED BY <1>1, <2>1
<1>3. PICK i \in I : Rank(i) = 1
  BY <1>1, <1>2, Zenon
<1>4. ASSUME NEW j \in I PROVE ~(j < i)
  BY <1>1, <1>3
<1> QED BY <1>4

\* fu.FindFlows returns a position of the table, or -1, for which the model has 0.
LEMMA FindFlowsIn ==
  ASSUME NEW s \in Seq(Flows), NEW f, FindFlows(s, f) # 0
  PROVE  FindFlows(s, f) \in 1..Len(s) /\ Key(s[FindFlows(s, f)]) = Key(f)
<1>1. PICK found : found = {i \in DOMAIN s : Key(s[i]) = Key(f)}
  BY Zenon
<1>2. found \in SUBSET (1..Len(s)) /\ Len(s) \in Nat
  BY <1>1
<1>3. FindFlows(s, f) = IF found = {} THEN 0 ELSE CHOOSE i \in found : \A j \in found : i <= j
  BY <1>1 DEF FindFlows
<1>4. found # {}
  BY <1>3, Zenon
<1>5. \E i \in found : \A j \in found : i <= j
  BY <1>2, <1>4, Least, Zenon
<1>6. FindFlows(s, f) \in found
  BY <1>3, <1>4, <1>5, Zenon
<1> QED BY <1>1, <1>2, <1>6, Zenon

-----------------------------------------------------------------------------
(***************************************************************************)
(* The plan of an operation.                                               *)
(***************************************************************************)
IsSeq(p) == \E S : p \in Seq(S)

\* Plans of one, two and three stages.
LEMMA ShortPlans ==
  ASSUME NEW a, NEW b, NEW c
  PROVE  /\ IsSeq(<<a>>) /\ Len(<<a>>) = 1 /\ <<a>>[1] = a
         /\ IsSeq(<<a, b>>) /\ Len(<<a, b>>) = 2 /\ <<a, b>>[1] = a /\ <<a, b>>[2] = b
         /\ IsSeq(<<a, b, c>>) /\ Len(<<a, b, c>>) = 3
         /\ <<a, b, c>>[1] = a /\ <<a, b, c>>[2] = b /\ <<a, b, c>>[3] = c
<1>1. <<a>> \in Seq({a, b, c}) /\ <<a, b>> \in Seq({a, b, c}) /\ <<a, b, c>> \in Seq({a, b, c})
  OBVIOUS
<1> QED BY <1>1, Zenon DEF IsSeq

\* Plans are put together from shorter ones.
LEMMA JoinedPlans ==
  ASSUME NEW a, NEW b, NEW c
  PROVE  /\ <<a, b>> \o <<c>> = <<a, b, c>> /\ <<a>> \o <<b, c>> = <<a, b, c>>
         /\ <<a, b>> \o << >> = <<a, b>> /\ << >> \o <<a, b>> = <<a, b>>
<1> DEFINE S == {a, b, c}
<1>1. /\ <<a, b, c>> \in Seq(S) /\ <<a, b>> \in Seq(S) /\ <<b, c>> \in Seq(S)
      /\ <<a>> \in Seq(S) /\ <<c>> \in Seq(S) /\ << >> \in Seq(S)
  OBVIOUS
<1>2. <<a, b>> \o <<c>> = <<a, b, c>>
  <2>1. PICK p, q : p = <<a, b>> \o <<c>> /\ q = <<a, b, c>>
    BY Zenon
  <2>2. p \in Seq(S) /\ q \in Seq(S) /\ Len(p) = 3 /\ Len(q) = 3
    BY <1>1, <2>1
  <2>3. \A i \in 1..3 : p[i] = q[i]
    BY <2>1
  <2> HIDE DEF S
  <2>4. p = q
    BY <2>2, <2>3
  <2> QED BY <2>1, <2>4, Zenon
<1>3. <<a>> \o <<b, c>> = <<a, b, c>>
  <2>1. PICK p, q : p = <<a>> \o <<b, c>> /\ q = <<a, b, c>>
    BY Zenon
  <2>2. p \in Seq(S) /\ q \in Seq(S) /\ Len(p) = 3 /\ Len(q) = 3
    BY <1>1, <2>1
  <2>3. \A i \in 1..3 : p[i] = q[i]
    BY <2>1
  <2> HIDE DEF S
  <2>4. p = q
    BY <2>2, <2>3
  <2> QED BY <2>1, <2>4, Zenon
<1> QED BY <1>1, <1>2, <1>3

\* What is left of a plan that has more than one stage.
LEMMA TailOfPlan ==
  ASSUME NEW p, IsSeq(p), p # << >>
  PROVE  /\ Len(p) \in Nat \ {0} /\ Head(p) = p[1]
         /\ IsSeq(Tail(p)) /\ Len(Tail(p)) = Len(p) - 1
         /\ \A i \in 1..(Len(p) - 1) : Tail(p)[i] = p[i + 1]
         /\ Len(p) # 1 => Tail(p) # << >>
<1>1. PICK S : p \in Seq(S)
  BY Zenon DEF IsSeq
<1>2. Tail(p) \in Seq(S) /\ Len(Tail(p)) = Len(p) - 1
  BY <1>1
<1> QED BY <1>1, <1>2 DEF IsSeq

-----------------------------------------------------------------------------
(***************************************************************************)
(* The meters of the flows.                                                *)
(***************************************************************************)
Table(t) ==
  /\ t = [flows |-> t.flows, meters |-> t.meters, groups |-> t.groups]
  /\ t.flows \in Seq(Flows)
  /\ DOMAIN t.groups \subseteq Groups

Backed(t, ms) == MetersOf(Range(t.flows)) \subseteq DOMAIN t.meters \cup ms

\* Every table of the plan has the meters of its flows but for those that the
\* operation puts at risk; the last one is stored, and has them all.
PlanBacked(p, ms, risk) ==
  /\ IsSeq(p)
  /\ \A i \in 1..Len(p) : p[i].do = "store" => Table(p[i].to) /\ Backed(p[i].to, ms \cup risk)
  /\ p # << >> => p[Len(p)].do = "store" /\ Backed(p[Len(p)].to, ms)

OpFields == {"plan", "started", "err", "risk"}
ExemptFields == {"holes", "loose", "miscounted", "dangling", "unsure", "late"}

MetersInv ==
  /\ Table(tables)
  /\ Backed(tables, exempt.dangling \cup op.risk.dangling)
  /\ DOMAIN exempt = ExemptFields /\ DOMAIN op = OpFields /\ DOMAIN op.risk = ExemptFields
  /\ op.plan = << >> => op.risk = Exempt
  /\ op.started => op.plan # << >> /\ op.plan[1].do # "store"
  /\ PlanBacked(op.plan, exempt.dangling, op.risk.dangling)

\* A table with the flows of another and some whose meters exist, and with its meters.
LEMMA BackedMore ==
  ASSUME NEW t, NEW u, NEW ms, NEW fs, Backed(t, ms), MetersOf(fs) \subseteq DOMAIN t.meters,
         Range(u.flows) \subseteq Range(t.flows) \cup fs, DOMAIN t.meters \subseteq DOMAIN u.meters
  PROVE  Backed(u, ms)
BY Zenon DEF Backed, MetersOf

\* Joining what the properties leave out.
LEMMA JoinFields ==
  ASSUME NEW a, NEW b, DOMAIN a = ExemptFields
  PROVE  /\ DOMAIN Join(a, b) = ExemptFields
         /\ Join(a, b).dangling = a.dangling \cup b.dangling
         /\ Join(a, b).unsure = a.unsure \cup b.unsure
BY Zenon DEF Join, ExemptFields

\* An operation begins with a plan that ends in a good table.
LEMMA BeginMeters ==
  ASSUME MetersInv, NEW plan, NEW done, NEW risk, Begin(plan, done, risk),
         DOMAIN risk = ExemptFields, done.dangling = {},
         PlanBacked(plan, exempt.dangling, risk.dangling)
  PROVE  MetersInv'
<1>1. /\ op' = [plan |-> plan, started |-> FALSE, err |-> FALSE, risk |-> risk]
      /\ exempt' = Join(exempt, done) /\ plan # << >> /\ op.plan = << >> /\ UNCHANGED tables
  BY Zenon DEF Begin, Unlocked
<1>2. op'.plan = plan /\ op'.risk = risk /\ DOMAIN op' = OpFields /\ ~op'.started
  BY <1>1, Zenon DEF OpFields
<1>3. DOMAIN exempt' = ExemptFields /\ exempt'.dangling = exempt.dangling
  <2>1. PICK e : e = exempt
    OBVIOUS
  <2>2. DOMAIN e = ExemptFields
    BY <2>1, Zenon DEF MetersInv
  <2>3. DOMAIN Join(e, done) = ExemptFields /\ Join(e, done).dangling = e.dangling \cup done.dangling
    BY <2>2, JoinFields, Zenon
  <2>4. Join(e, done).dangling = e.dangling
    BY <2>3, Zenon
  <2> QED BY <1>1, <2>1, <2>3, <2>4, Zenon
<1>4. Backed(tables, exempt.dangling)
  <2>1. op.risk.dangling = {}
    BY <1>1 DEF MetersInv, Exempt
  <2> QED BY <2>1, Zenon DEF MetersInv
<1>5. Backed(tables, exempt.dangling \cup risk.dangling)
  BY <1>4, Zenon DEF Backed
<1> QED BY <1>1, <1>2, <1>3, <1>5 DEF MetersInv, Table, Backed, PlanBacked

\* What the two kinds of stages say.
LEMMA StageFacts ==
  ASSUME NEW t, NEW kind, NEW rules
  PROVE  Store(t).do = "store" /\ Store(t).to = t /\ Call(kind, rules).do = kind /\ Call(kind, rules).rules = rules
BY Zenon DEF Store, Call

\* A plan that stores one table.
LEMMA PlanStore ==
  ASSUME NEW ms, NEW risk, NEW t, Table(t), Backed(t, ms)
  PROVE  PlanBacked(<<Store(t)>>, ms, risk)
<1>1. PICK x : x = Store(t)
  OBVIOUS
<1>2. IsSeq(<<x>>) /\ Len(<<x>>) = 1 /\ <<x>>[1] = x
  BY ShortPlans, Zenon
<1>3. Backed(t, ms \cup risk)
  BY Zenon DEF Backed
<1> QED BY <1>1, <1>2, <1>3, StageFacts DEF PlanBacked

\* A plan that calls devices and stores a table then.
LEMMA PlanCallStore ==
  ASSUME NEW ms, NEW risk, NEW t, Table(t), Backed(t, ms), NEW kind, kind # "store", NEW rules
  PROVE  PlanBacked(<<Call(kind, rules), Store(t)>>, ms, risk)
<1>1. PICK x, z : x = Store(t) /\ z = Call(kind, rules)
  OBVIOUS
<1>2. IsSeq(<<z, x>>) /\ Len(<<z, x>>) = 2 /\ <<z, x>>[1] = z /\ <<z, x>>[2] = x
  BY ShortPlans, Zenon
<1>3. Backed(t, ms \cup risk)
  BY Zenon DEF Backed
<1> QED BY <1>1, <1>2, <1>3, StageFacts DEF PlanBacked

\* A plan that stores two tables: the first may lack what is at risk.
LEMMA PlanStoreStore ==
  ASSUME NEW ms, NEW risk, NEW t, NEW u, Table(t), Table(u), Backed(t, ms \cup risk), Backed(u, ms)
  PROVE  PlanBacked(<<Store(t), Store(u)>>, ms, risk)
<1>1. PICK x, y : x = Store(t) /\ y = Store(u)
  OBVIOUS
<1>2. IsSeq(<<x, y>>) /\ Len(<<x, y>>) = 2 /\ <<x, y>>[1] = x /\ <<x, y>>[2] = y
  BY ShortPlans, Zenon
<1>3. Backed(u, ms \cup risk)
  BY Zenon DEF Backed
<1> QED BY <1>1, <1>2, <1>3, StageFacts DEF PlanBacked

\* A plan that stores two tables, and calls devices before or between.
LEMMA PlanThree ==
  ASSUME NEW ms, NEW risk, NEW t, NEW u, Table(t), Table(u), Backed(t, ms \cup risk), Backed(u, ms),
         NEW kind, kind # "store", NEW rules
  PROVE  /\ PlanBacked(<<Call(kind, rules), Store(t), Store(u)>>, ms, risk)
         /\ PlanBacked(<<Store(t), Call(kind, rules), Store(u)>>, ms, risk)
<1>1. PICK x, y, z : x = Store(t) /\ y = Store(u) /\ z = Call(kind, rules)
  OBVIOUS
<1>2. Backed(u, ms \cup risk)
  BY Zenon DEF Backed
<1>3. PlanBacked(<<z, x, y>>, ms, risk)
  <2>1. /\ IsSeq(<<z, x, y>>) /\ Len(<<z, x, y>>) = 3
        /\ <<z, x, y>>[1] = z /\ <<z, x, y>>[2] = x /\ <<z, x, y>>[3] = y
    BY ShortPlans, Zenon
  <2> QED BY <1>1, <1>2, <2>1, StageFacts DEF PlanBacked
<1>4. PlanBacked(<<x, z, y>>, ms, risk)
  <2>1. /\ IsSeq(<<x, z, y>>) /\ Len(<<x, z, y>>) = 3
        /\ <<x, z, y>>[1] = x /\ <<x, z, y>>[2] = z /\ <<x, z, y>>[3] = y
    BY ShortPlans, Zenon
  <2> QED BY <1>1, <1>2, <2>1, StageFacts DEF PlanBacked
<1> QED BY <1>1, <1>3, <1>4, Zenon

\* What is left out: the fields, and the meters among them.
LEMMA ExemptFacts ==
  /\ DOMAIN Exempt = ExemptFields /\ Exempt.dangling = {} /\ Exempt.unsure = {}
  /\ \A x : DOMAIN [Exempt EXCEPT !.holes = x] = ExemptFields /\ [Exempt EXCEPT !.holes = x].dangling = {}
  /\ \A x : [Exempt EXCEPT !.loose = x].dangling = {} /\ [Exempt EXCEPT !.miscounted = x].dangling = {}
BY Zenon DEF Exempt, ExemptFields

\* A change of the flow table.
LEMMA FlowsChange ==
  ASSUME NEW t, Table(t), NEW x \in Seq(Flows)
  PROVE  /\ Table([t EXCEPT !.flows = x])
         /\ [t EXCEPT !.flows = x].flows = x /\ [t EXCEPT !.flows = x].meters = t.meters
<1>1. PICK a, b, c : t = [flows |-> a, meters |-> b, groups |-> c]
  BY Zenon DEF Table
<1>2. [t EXCEPT !.flows = x] = [flows |-> x, meters |-> b, groups |-> c]
  BY <1>1
<1>3. Table([flows |-> x, meters |-> b, groups |-> c])
  BY <1>1, Zenon DEF Table
<1> QED BY <1>1, <1>2, <1>3, Zenon

\* A change of the meter table.
LEMMA MetersChange ==
  ASSUME NEW t, Table(t), NEW x
  PROVE  /\ Table([t EXCEPT !.meters = x])
         /\ [t EXCEPT !.meters = x].flows = t.flows /\ [t EXCEPT !.meters = x].meters = x
<1>1. PICK a, b, c : t = [flows |-> a, meters |-> b, groups |-> c] /\ a \in Seq(Flows)
  BY Zenon DEF Table
<1>2. [t EXCEPT !.meters = x] = [flows |-> a, meters |-> x, groups |-> c]
  BY <1>1
<1>3. Table([flows |-> a, meters |-> x, groups |-> c])
  BY <1>1, Zenon DEF Table
<1> QED BY <1>1, <1>2, <1>3, Zenon

\* A change of the flow count of a meter.
LEMMA CountChange ==
  ASSUME NEW t, Table(t), NEW m, NEW by
  PROVE  LET u == UpdateFlowCountOfMeterStats(t, m, by)
         IN Table(u) /\ u.flows = t.flows /\ DOMAIN u.meters = DOMAIN t.meters
<1>1. PICK x : x = [t.meters EXCEPT ![m].count = (@ + by) % CountRange]
  BY Zenon
<1>2. UpdateFlowCountOfMeterStats(t, m, by) = [t EXCEPT !.meters = x]
  BY <1>1, Zenon DEF UpdateFlowCountOfMeterStats
<1>3. DOMAIN x = DOMAIN t.meters
  BY <1>1, Zenon
<1> QED BY <1>2, <1>3, MetersChange

\* A change of the group table.
LEMMA GroupsChange ==
  ASSUME NEW t, Table(t), NEW x, DOMAIN x \subseteq Groups
  PROVE  /\ Table([t EXCEPT !.groups = x])
         /\ [t EXCEPT !.groups = x].flows = t.flows /\ [t EXCEPT !.groups = x].meters = t.meters
<1>1. PICK a, b, c : t = [flows |-> a, meters |-> b, groups |-> c] /\ a \in Seq(Flows)
  BY Zenon DEF Table
<1>2. [t EXCEPT !.groups = x] = [flows |-> a, meters |-> b, groups |-> x]
  BY <1>1
<1>3. Table([flows |-> a, meters |-> b, groups |-> x])
  BY <1>1, Zenon DEF Table
<1> QED BY <1>1, <1>2, <1>3, Zenon

\* updateMeterTable keeps the meters of the flows: a meter that is deleted takes its
\* flows with it, in a second store.
LEMMA MeterTableMeters == ASSUME MetersInv, UpdateMeterTable PROVE MetersInv'
<1>0. PICK m \in Meters : MeterDelete(m) \/ \E v \in Values : MeterAdd(m, v) \/ MeterModify(m, v)
  BY Zenon DEF UpdateMeterTable
<1>a. PICK t : t = tables
  OBVIOUS
<1>b. PICK ms : ms = exempt.dangling
  OBVIOUS
<1>c. /\ t = [flows |-> t.flows, meters |-> t.meters, groups |-> t.groups] /\ t.flows \in Seq(Flows)
      /\ Table(t)
  BY <1>a, Zenon DEF MetersInv, Table
<1>d. ASSUME op.plan = << >> PROVE Backed(t, ms)
  <2>1. op.risk.dangling = {}
    BY <1>d DEF MetersInv, Exempt
  <2> QED BY <1>a, <1>b, <2>1, Zenon DEF MetersInv
<1>1. ASSUME NEW v \in Values, MeterAdd(m, v) PROVE MetersInv'
  <2>1. PICK u : u = [t EXCEPT !.meters = Put(@, [x \in {m} |-> [bands |-> v, count |-> 0]])]
    BY Zenon
  <2>2. Begin(<<Store(u)>>, Exempt, Exempt)
    BY <1>1, <1>a, <2>1, Zenon DEF MeterAdd
  <2>3. Table(u) /\ u.flows = t.flows /\ DOMAIN t.meters \subseteq DOMAIN u.meters
    <3>1. PICK x : x = Put(t.meters, [y \in {m} |-> [bands |-> v, count |-> 0]])
      OBVIOUS
    <3>2. u = [t EXCEPT !.meters = x]
      BY <2>1, <3>1, Zenon
    <3>3. DOMAIN t.meters \subseteq DOMAIN x
      BY <3>1, Zenon DEF Put
    <3> QED BY <1>c, <3>2, <3>3, MetersChange, Zenon
  <2>4. Backed(u, ms)
    BY <1>d, <2>2, <2>3, Zenon DEF Backed, Begin, Unlocked
  <2>5. PlanBacked(<<Store(u)>>, ms, Exempt.dangling)
    BY <2>3, <2>4, PlanStore, Zenon
  <2> QED BY <1>b, <2>2, <2>5, BeginMeters, ExemptFacts, Zenon
<1>2. ASSUME NEW v \in Values, MeterModify(m, v) PROVE MetersInv'
  <2>1. PICK u : u = [t EXCEPT !.meters[m].bands = v]
    BY Zenon
  <2>2. Begin(<<Store(u)>>, Exempt, Exempt)
    BY <1>2, <1>a, <2>1, Zenon DEF MeterModify
  <2>3. Table(u) /\ u.flows = t.flows /\ DOMAIN t.meters \subseteq DOMAIN u.meters
    <3>1. PICK x : x = [t.meters EXCEPT ![m].bands = v]
      BY Zenon
    <3>2. u = [t EXCEPT !.meters = x]
      BY <2>1, <3>1, Zenon
    <3>3. DOMAIN t.meters \subseteq DOMAIN x
      BY <3>1, Zenon
    <3> QED BY <1>c, <3>2, <3>3, MetersChange
  <2>4. Backed(u, ms)
    BY <1>d, <2>2, <2>3 DEF Backed, Begin, Unlocked
  <2>5. PlanBacked(<<Store(u)>>, ms, Exempt.dangling)
    BY <2>3, <2>4, PlanStore
  <2> QED BY <1>b, <2>2, <2>5, BeginMeters, ExemptFacts
<1>3. CASE MeterDelete(m)
  <2> DEFINE gone == {f \in Range(tables.flows) : f.meter = m}
             done == [Exempt EXCEPT !.loose = RulesOf(gone)]
             risk == [Exempt EXCEPT !.dangling = {m}, !.miscounted = {m}]
  <2>1. PICK kept : kept = GetUpdatedFlowsAfterDeletebyMeterID(t.flows, m)
    OBVIOUS
  <2>2. PICK u : u = [t EXCEPT !.meters = Dropping(@, m)]
    BY Zenon
  <2>3. PICK w : w = [u EXCEPT !.flows = kept]
    BY Zenon
  <2>4. Begin(IF gone = {} THEN <<Store(u)>> ELSE <<Store(u), Store(w)>>, done, risk)
    BY <1>3, <1>a, <2>1, <2>2, <2>3 DEF MeterDelete
  <2>5. done.dangling = {} /\ risk.dangling = {m} /\ DOMAIN risk = ExemptFields
    BY ExemptFacts, Zenon DEF Exempt, ExemptFields
  <2>6. Backed(t, ms)
    BY <1>d, <2>4, Zenon DEF Begin, Unlocked
  <2>7. Table(u) /\ u.flows = t.flows /\ DOMAIN u.meters = DOMAIN t.meters \ {m}
    <3>1. PICK x : x = Dropping(t.meters, m)
      OBVIOUS
    <3>2. u = [t EXCEPT !.meters = x]
      BY <2>2, <3>1, Zenon
    <3>3. DOMAIN x = DOMAIN t.meters \ {m}
      BY <3>1, Zenon DEF Dropping
    <3> QED BY <1>c, <3>2, <3>3, MetersChange, Zenon
  <2>8. /\ kept \in Seq(Flows) /\ Range(kept) \subseteq Range(t.flows)
        /\ \A f \in Range(kept) : f.meter # m
    <3>1. PICK T : T = {f \in Flows : f.meter # m}
      BY Zenon
    <3>2. kept = Only(t.flows, T)
      BY <2>1, <3>1, Zenon DEF GetUpdatedFlowsAfterDeletebyMeterID
    <3>3. kept \in Seq(Flows \cap T) /\ Range(kept) \subseteq Range(t.flows) \cap T
      BY <1>c, <3>2, OnlyKeeps, Zenon
    <3>4. Flows \cap T \subseteq Flows
      OBVIOUS
    <3> QED BY <3>1, <3>3, <3>4, SeqMonotone
  <2>9. Table(w) /\ w.flows = kept /\ w.meters = u.meters
    BY <2>3, <2>7, <2>8, FlowsChange
  <2>10. Backed(u, ms \cup {m})
    BY <2>6, <2>7, Zenon DEF Backed
  <2>11. Backed(w, ms)
    BY <2>6, <2>7, <2>8, <2>9, Zenon DEF Backed, MetersOf
  <2>12. CASE gone = {}
    <3>1. Backed(u, ms)
      BY <1>a, <2>6, <2>7, <2>12, Zenon DEF Backed, MetersOf
    <3>2. PlanBacked(<<Store(u)>>, ms, risk.dangling)
      BY <2>7, <3>1, PlanStore, Zenon
    <3>3. Begin(<<Store(u)>>, done, risk)
      BY <2>4, <2>12, Zenon
    <3> HIDE DEF done, risk
    <3> QED BY <1>b, <2>5, <3>2, <3>3, BeginMeters, Zenon
  <2>13. CASE gone # {}
    <3>1. PlanBacked(<<Store(u), Store(w)>>, ms, {m})
      BY <2>7, <2>9, <2>10, <2>11, PlanStoreStore, Zenon
    <3>2. Begin(<<Store(u), Store(w)>>, done, risk)
      BY <2>4, <2>13, Zenon
    <3> HIDE DEF done, risk
    <3> QED BY <1>b, <2>5, <3>1, <3>2, BeginMeters, Zenon
  <2> QED BY <2>12, <2>13, Zenon
<1> QED BY <1>0, <1>1, <1>2, <1>3, Zenon

\* What an operation begins with: a table that has the meters of its flows.
LEMMA Before ==
  ASSUME MetersInv, op.plan = << >> PROVE Table(tables) /\ Backed(tables, exempt.dangling)
<1>1. op.risk.dangling = {}
  BY DEF MetersInv, Exempt
<1> QED BY <1>1, Zenon DEF MetersInv

\* flowAdd: the meter of the flow exists, or GetMeterConfig fails.
LEMMA FlowAddMeters == ASSUME MetersInv, NEW f \in Flows, FlowAdd(f) PROVE MetersInv'
<1> DEFINE i == FindFlows(tables.flows, f)
           updated == i # 0 /\ ~f.check
           old == IF updated THEN {tables.flows[i]} ELSE {}
           stored == [tables EXCEPT !.flows = IF updated THEN [@ EXCEPT ![i] = f] ELSE Append(@, f)]
           counted == IF updated \/ f.meter = 0 THEN << >>
                      ELSE <<Store(UpdateFlowCountOfMeterStats(stored, f.meter, 1))>>
           remetered == IF updated /\ MetersOf(old) # MetersOf({f}) THEN MetersOf(old \cup {f}) ELSE {}
           Done(rules) ==
             [Exempt EXCEPT !.loose = {r \in RulesOf(old) : r.key \notin RuleKeys(UNION Range(rules))},
                            !.miscounted = remetered,
                            !.holes = Sharing(Range(tables.flows) \ ({f} \cup old), rules)
                               \cup IF f.group \in DOMAIN tables.groups \cup {0} THEN {} ELSE {Key(f)}]
           Risk(rules) == [Exempt EXCEPT !.loose = UNION Range(rules), !.miscounted = MetersOf({f}),
                                         !.holes = KeysOf(old)]
<1>1. /\ GetMeterConfig({f})
      /\ \E rules \in RulesFor(f) :
           Begin(<<Call("add", rules), Store(stored)>> \o counted, Done(rules), Risk(rules))
  BY Zenon DEF FlowAdd
<1>2. PICK rules \in RulesFor(f) :
        Begin(<<Call("add", rules), Store(stored)>> \o counted, Done(rules), Risk(rules))
  BY <1>1, Zenon
<1>3. Done(rules).dangling = {} /\ Risk(rules).dangling = {} /\ DOMAIN Risk(rules) = ExemptFields
  BY Zenon DEF Exempt, ExemptFields
<1>4. PICK done, risk : done = Done(rules) /\ risk = Risk(rules)
  BY Zenon
<1> HIDE DEF Done, Risk, remetered, old
<1>5. PICK ms : ms = exempt.dangling
  OBVIOUS
<1>6. PICK t : t = tables
  OBVIOUS
<1>7. Table(t) /\ Backed(t, ms)
  BY <1>2, <1>5, <1>6, Before, Zenon DEF Begin, Unlocked
<1>8. PICK new : new = IF updated THEN [t.flows EXCEPT ![i] = f] ELSE Append(t.flows, f)
  BY Zenon
<1>9. PICK u : u = [t EXCEPT !.flows = new]
  BY Zenon
<1>10. u = stored
  BY <1>6, <1>8, <1>9, Zenon
<1> HIDE DEF stored
<1>11. new \in Seq(Flows) /\ Range(new) \subseteq Range(t.flows) \cup {f}
  <2>1. t.flows \in Seq(Flows)
    BY <1>7, Zenon DEF Table
  <2> HIDE DEF updated, i
  <2>2. CASE new = Append(t.flows, f)
    BY <2>1, <2>2 DEF Range
  <2>3. CASE new = [t.flows EXCEPT ![i] = f]
    <3>1. PICK s \in Seq(Flows) : s = t.flows
      BY <2>1, Zenon
    <3>2. DOMAIN s = 1..Len(s) /\ Len(s) \in Nat /\ \A k \in 1..Len(s) : s[k] \in Flows
      BY <3>1
    <3>3. new = [k \in 1..Len(s) |-> IF k = i THEN f ELSE s[k]]
      BY <2>3, <3>1, <3>2, Zenon
    <3>4. new \in Seq(Flows)
      BY <3>2, <3>3
    <3>5. Range(new) \subseteq Range(s) \cup {f}
      BY <3>2, <3>3, Zenon DEF Range
    <3> QED BY <3>1, <3>4, <3>5, Zenon
  <2> QED BY <1>8, <2>2, <2>3, Zenon
<1>12. Table(u) /\ u.flows = new /\ u.meters = t.meters
  BY <1>7, <1>9, <1>11, FlowsChange, Zenon
<1>13. MetersOf({f}) \subseteq DOMAIN t.meters
  BY <1>1, <1>6, Zenon DEF GetMeterConfig
<1>14. Backed(u, ms)
  <2>1. PICK fs : fs = {f}
    BY Zenon
  <2>2. MetersOf(fs) \subseteq DOMAIN t.meters /\ Range(u.flows) \subseteq Range(t.flows) \cup fs
    BY <1>11, <1>12, <1>13, <2>1, Zenon
  <2> QED BY <1>7, <1>12, <2>2, BackedMore, Zenon
<1>15. CASE updated \/ f.meter = 0
  <2>1. <<Call("add", rules), Store(u)>> \o counted = <<Call("add", rules), Store(u)>>
    <3>1. PICK a, b : a = Call("add", rules) /\ b = Store(u)
      OBVIOUS
    <3>2. <<a, b>> \o << >> = <<a, b>>
      OBVIOUS
    <3> QED BY <1>15, <3>1, <3>2, Zenon
  <2>2. PlanBacked(<<Call("add", rules), Store(u)>>, ms, {})
    BY <1>12, <1>14, PlanCallStore, Zenon
  <2>3. Begin(<<Call("add", rules), Store(u)>>, done, risk)
    BY <1>2, <1>4, <1>10, <2>1, Zenon
  <2> QED BY <1>3, <1>4, <1>5, <2>2, <2>3, BeginMeters, Zenon
<1>16. CASE ~(updated \/ f.meter = 0)
  <2>1. PICK w : w = UpdateFlowCountOfMeterStats(u, f.meter, 1)
    OBVIOUS
  <2>2. <<Call("add", rules), Store(u)>> \o counted = <<Call("add", rules), Store(u), Store(w)>>
    <3>1. PICK a, b, c : a = Call("add", rules) /\ b = Store(u) /\ c = Store(w)
      OBVIOUS
    <3>2. <<a, b>> \o <<c>> = <<a, b, c>>
      BY JoinedPlans, Zenon
    <3> QED BY <1>10, <1>16, <2>1, <3>1, <3>2, Zenon
  <2>3. Table(w) /\ w.flows = u.flows /\ DOMAIN w.meters = DOMAIN u.meters
    BY <1>12, <2>1, CountChange
  <2>4. Backed(w, ms) /\ Backed(u, ms \cup {})
    BY <1>14, <2>3, Zenon DEF Backed
  <2>5. PlanBacked(<<Call("add", rules), Store(u), Store(w)>>, ms, {})
    BY <1>12, <2>3, <2>4, PlanThree, Zenon
  <2>6. Begin(<<Call("add", rules), Store(u), Store(w)>>, done, risk)
    BY <1>2, <1>4, <1>10, <2>2, Zenon
  <2> QED BY <1>3, <1>4, <1>5, <2>5, <2>6, BeginMeters, Zenon
<1> QED BY <1>15, <1>16, Zenon

\* Some flows of a table, as a table.
LEMMA FewerFlows ==
  ASSUME NEW t, Table(t), NEW T, NEW ms, Backed(t, ms)
  PROVE  LET u == [t EXCEPT !.flows = Only(t.flows, T)] IN Table(u) /\ Backed(u, ms)
<1>1. PICK s : s = Only(t.flows, T)
  OBVIOUS
<1>2. t.flows \in Seq(Flows)
  BY Zenon DEF Table
<1>3. s \in Seq(Flows \cap T) /\ Range(s) \subseteq Range(t.flows)
  <2>1. PICK f : f = t.flows
    OBVIOUS
  <2>2. Only(f, T) \in Seq(Flows \cap T) /\ Range(Only(f, T)) \subseteq Range(f) \cap T
    BY <1>2, <2>1, OnlyKeeps, Zenon
  <2> QED BY <1>1, <2>1, <2>2, Zenon
<1>4. s \in Seq(Flows)
  BY <1>3, SeqMonotone, Zenon
<1>5. PICK u : u = [t EXCEPT !.flows = s]
  BY Zenon
<1>6. Table(u) /\ u.flows = s /\ u.meters = t.meters
  BY <1>4, <1>5, FlowsChange, Zenon
<1>7. Backed(u, ms)
  BY <1>3, <1>6, Zenon DEF Backed, MetersOf
<1> QED BY <1>1, <1>5, <1>6, <1>7, Zenon

\* flowDelete.
LEMMA FlowDeleteMeters == ASSUME MetersInv, NEW matched, FlowDelete(matched) PROVE MetersInv'
<1> DEFINE toDelete == Only(tables.flows, matched)
           toKeep == Only(tables.flows, Flows \ matched)
           Done(rules) == [Exempt EXCEPT !.miscounted = MetersOf(Range(toDelete)),
                                         !.holes = Sharing(Range(toKeep), rules)]
           risk == [Exempt EXCEPT !.holes = KeysOf(Range(toDelete))]
<1>1. \E rules \in DecomposeRules(net, toDelete, DOMAIN tables.groups) :
        Begin(<<Call("delete", rules), Store([tables EXCEPT !.flows = toKeep])>>, Done(rules), risk)
  BY Zenon DEF FlowDelete
<1>2. PICK rules : Begin(<<Call("delete", rules), Store([tables EXCEPT !.flows = toKeep])>>, Done(rules), risk)
  BY <1>1, Zenon
<1>3. Done(rules).dangling = {} /\ risk.dangling = {} /\ DOMAIN risk = ExemptFields
  BY Zenon DEF Exempt, ExemptFields
<1>4. PICK done, r : done = Done(rules) /\ r = risk
  BY Zenon
<1> HIDE DEF Done, risk
<1>5. PICK t, ms : t = tables /\ ms = exempt.dangling
  OBVIOUS
<1>6. Table(t) /\ Backed(t, ms)
  BY <1>2, <1>5, Before, Zenon DEF Begin, Unlocked
<1>7. PICK T : T = Flows \ matched
  BY Zenon
<1>8. PICK u : u = [t EXCEPT !.flows = Only(t.flows, T)]
  BY Zenon
<1>9. Table(u) /\ Backed(u, ms)
  BY <1>6, <1>8, FewerFlows, Zenon
<1>10. PlanBacked(<<Call("delete", rules), Store(u)>>, ms, {})
  BY <1>9, PlanCallStore, Zenon
<1>11. Begin(<<Call("delete", rules), Store(u)>>, done, r)
  BY <1>2, <1>4, <1>5, <1>7, <1>8, Zenon
<1> QED BY <1>3, <1>4, <1>5, <1>10, <1>11, BeginMeters, Zenon

\* RemoveAt keeps the flows before and after the one that it removes.
LEMMA RemoveAtKeeps ==
  ASSUME NEW s \in Seq(Flows), NEW i \in 1..Len(s)
  PROVE  RemoveAt(s, i) \in Seq(Flows) /\ Range(RemoveAt(s, i)) \subseteq Range(s)
<1>1. PICK a, b : a = SubSeq(s, 1, i - 1) /\ b = SubSeq(s, i + 1, Len(s))
  BY Zenon
<1>2. a \in Seq(Flows) /\ b \in Seq(Flows) /\ Len(a) = i - 1 /\ Len(b) = Len(s) - i
  BY <1>1
<1>3. (\A k \in 1..(i - 1) : a[k] = s[k]) /\ \A k \in 1..(Len(s) - i) : b[k] = s[i + k]
  BY <1>1
<1>4. RemoveAt(s, i) = a \o b
  BY <1>1, Zenon DEF RemoveAt
<1>5. a \o b \in Seq(Flows)
  BY <1>2
<1>6. \A k \in 1..Len(s) : s[k] \in Range(s)
  BY DEF Range
<1>7. ASSUME NEW k \in 1..(Len(s) - 1) PROVE (a \o b)[k] \in Range(s)
  <2>1. CASE k <= i - 1
    <3>1. (a \o b)[k] = a[k] /\ k \in 1..(i - 1) /\ k \in 1..Len(s)
      BY <1>2, <2>1, SMTT(30)
    <3> QED BY <1>3, <1>6, <3>1, Zenon
  <2>2. CASE k > i - 1
    <3>1. (a \o b)[k] = b[k - (i - 1)]
      BY <1>2, <2>2, SMTT(30)
    <3>2. PICK l \in 1..(Len(s) - i) : l = k - (i - 1)
      BY <2>2
    <3>3. PICK j \in 1..Len(s) : j = i + l
      OBVIOUS
    <3>4. b[l] = s[j]
      BY <1>3, <3>3, Zenon
    <3>5. (a \o b)[k] = b[l]
      BY <3>1, <3>2, Zenon
    <3>6. (a \o b)[k] = s[j]
      BY <3>4, <3>5, Zenon
    <3> QED BY <1>6, <3>3, <3>6, Zenon
  <2>3. k <= i - 1 \/ k > i - 1
    OBVIOUS
  <2> QED BY <2>1, <2>2, <2>3, Zenon
<1>8. Len(a \o b) = Len(s) - 1
  BY <1>2
<1>9. Range(a \o b) \subseteq Range(s)
  <2>1. PICK q \in Seq(Flows) : q = a \o b
    BY <1>5, Zenon
  <2>2. DOMAIN q = 1..(Len(s) - 1)
    BY <1>8, <2>1
  <2>3. \A k \in DOMAIN q : q[k] \in Range(s)
    BY <1>7, <2>1, <2>2, Zenon
  <2>4. Range(q) = {q[k] : k \in DOMAIN q}
    BY Zenon DEF Range
  <2> QED BY <2>1, <2>3, <2>4
<1> QED BY <1>4, <1>5, <1>9, Zenon

\* flowDeleteStrict.
LEMMA FlowDeleteStrictMeters == ASSUME MetersInv, NEW f \in Flows, FlowDeleteStrict(f) PROVE MetersInv'
<1> DEFINE i == FindFlows(tables.flows, f)
           flow == tables.flows[i]
           known == flow.meter \in DOMAIN tables.meters
           counted == IF known THEN UpdateFlowCountOfMeterStats(tables, flow.meter, -1) ELSE tables
           first == IF known THEN <<Store(counted)>> ELSE << >>
           all == IF GetMeterConfig({flow}) THEN RulesFor(flow) ELSE {}
           kept == RemoveAt(tables.flows, i)
           done1 == [Exempt EXCEPT !.miscounted = MetersOf({flow})]
           Done(rules) == [Exempt EXCEPT !.holes = Sharing(Range(kept), rules)]
           risk == [Exempt EXCEPT !.holes = {Key(f)}, !.miscounted = MetersOf({flow})]
<1>1. /\ i # 0
      /\ \/ Begin(first, done1, Exempt)
         \/ \E rules : Begin(first \o <<Call("delete", rules), Store([counted EXCEPT !.flows = kept])>>,
                             Done(rules), risk)
  BY Zenon DEF FlowDeleteStrict
<1>a. op.plan = << >>
  BY <1>1, Zenon DEF Begin, Unlocked
<1>2. PICK t, ms : t = tables /\ ms = exempt.dangling
  OBVIOUS
<1>3. Table(t) /\ Backed(t, ms) /\ t.flows \in Seq(Flows)
  BY <1>a, <1>2, Before, Zenon DEF Table
<1>4. kept \in Seq(Flows) /\ Range(kept) \subseteq Range(t.flows)
  <2>1. PICK s \in Seq(Flows) : s = tables.flows
    BY <1>2, <1>3, Zenon
  <2>2. FindFlows(s, f) \in 1..Len(s)
    BY <1>1, <2>1, FindFlowsIn, Zenon
  <2>3. PICK k \in 1..Len(s) : k = i
    BY <2>1, <2>2, Zenon
  <2>4. RemoveAt(s, k) \in Seq(Flows) /\ Range(RemoveAt(s, k)) \subseteq Range(s)
    BY RemoveAtKeeps, Zenon
  <2> HIDE DEF i
  <2> QED BY <1>2, <2>1, <2>3, <2>4
<1>5. PICK u : u = counted
  OBVIOUS
<1>6. Table(u) /\ u.flows = t.flows /\ DOMAIN u.meters = DOMAIN t.meters
  <2>1. CASE known
    <3>1. PICK m : m = flow.meter
      OBVIOUS
    <3>2. u = UpdateFlowCountOfMeterStats(t, m, -1)
      BY <1>2, <1>5, <2>1, <3>1, Zenon
    <3> QED BY <1>3, <3>2, CountChange, Zenon
  <2>2. CASE ~known
    BY <1>2, <1>3, <1>5, <2>2, Zenon
  <2> QED BY <2>1, <2>2, Zenon
<1>7. PICK new : new = kept
  OBVIOUS
<1>8. PICK w : w = [u EXCEPT !.flows = new]
  BY Zenon
<1>9. Table(w) /\ w.flows = new /\ w.meters = u.meters
  BY <1>4, <1>6, <1>7, <1>8, FlowsChange
<1>10. Backed(u, ms) /\ Backed(w, ms) /\ Backed(u, ms \cup {})
  BY <1>3, <1>4, <1>6, <1>7, <1>9, Zenon DEF Backed, MetersOf
<1>b. /\ done1.dangling = {} /\ risk.dangling = {} /\ DOMAIN risk = ExemptFields
      /\ \A rules : Done(rules).dangling = {}
  BY Zenon DEF Exempt, ExemptFields
<1>c. w = [counted EXCEPT !.flows = kept]
  BY <1>5, <1>7, <1>8, Zenon
<1> HIDE DEF kept, done1, Done, risk
<1>11. CASE Begin(first, done1, Exempt)
  <2>1. known
    BY <1>11, Zenon DEF Begin, Unlocked
  <2>2. Begin(<<Store(u)>>, done1, Exempt)
    BY <1>5, <1>11, <2>1, Zenon
  <2>3. PlanBacked(<<Store(u)>>, ms, {})
    BY <1>6, <1>10, PlanStore, Zenon
  <2> QED BY <1>2, <1>b, <2>2, <2>3, BeginMeters, ExemptFacts, Zenon
<1>12. ASSUME NEW rules, Begin(first \o <<Call("delete", rules), Store(w)>>, Done(rules), risk)
       PROVE  MetersInv'
  <2>1. PICK a, b, c : a = Store(u) /\ b = Call("delete", rules) /\ c = Store(w)
    OBVIOUS
  <2>2. CASE known
    <3>1. <<a>> \o <<b, c>> = <<a, b, c>>
      BY JoinedPlans, Zenon
    <3>2. Begin(<<Store(u), Call("delete", rules), Store(w)>>, Done(rules), risk)
      BY <1>5, <1>12, <2>1, <2>2, <3>1, Zenon
    <3>3. PlanBacked(<<Store(u), Call("delete", rules), Store(w)>>, ms, {})
      BY <1>6, <1>9, <1>10, PlanThree, Zenon
    <3> QED BY <1>2, <1>b, <3>2, <3>3, BeginMeters, Zenon
  <2>3. CASE ~known
    <3>1. << >> \o <<b, c>> = <<b, c>>
      BY JoinedPlans, Zenon
    <3>2. Begin(<<Call("delete", rules), Store(w)>>, Done(rules), risk)
      BY <1>12, <2>1, <2>3, <3>1, Zenon
    <3>3. PlanBacked(<<Call("delete", rules), Store(w)>>, ms, {})
      BY <1>9, <1>10, PlanCallStore, Zenon
    <3> QED BY <1>2, <1>b, <3>2, <3>3, BeginMeters, Zenon
  <2> QED BY <2>2, <2>3, Zenon
<1> HIDE DEF first, counted
<1> QED BY <1>1, <1>c, <1>11, <1>12, Zenon

\* groupAdd, groupModify and groupDelete.
LEMMA GroupTableMeters == ASSUME MetersInv, UpdateGroupTable PROVE MetersInv'
<1>a. PICK t, ms : t = tables /\ ms = exempt.dangling
  OBVIOUS
<1>b. ASSUME op.plan = << >> PROVE Table(t) /\ Backed(t, ms)
  BY <1>a, <1>b, Before, Zenon
<1>c. ASSUME NEW u, NEW x, op.plan = << >>, u = [t EXCEPT !.groups = x],
             DOMAIN x \subseteq DOMAIN t.groups \cup Groups
      PROVE  Table(u) /\ Backed(u, ms) /\ u.flows = t.flows
  <2>1. Table(t) /\ Backed(t, ms)
    BY <1>b, <1>c, Zenon
  <2>2. DOMAIN x \subseteq Groups
    BY <1>c, <2>1, Zenon DEF Table
  <2>3. Table(u) /\ u.flows = t.flows /\ u.meters = t.meters
    BY <1>c, <2>1, <2>2, GroupsChange, Zenon
  <2> QED BY <2>1, <2>3, Zenon DEF Backed
<1>1. ASSUME NEW g \in Groups, NEW v \in Values, GroupAdd(g, v) PROVE MetersInv'
  <2>1. PICK x : x = Put(t.groups, [y \in {g} |-> v])
    OBVIOUS
  <2>2. PICK u : u = [t EXCEPT !.groups = x]
    BY Zenon
  <2>3. PICK rules : rules = On(Root, {GroupRule(g, v)})
    OBVIOUS
  <2>4. Begin(<<Call("add", rules), Store(u)>>, Exempt, Exempt)
    BY <1>1, <1>a, <2>1, <2>2, <2>3, Zenon DEF GroupAdd
  <2>a. DOMAIN x \subseteq DOMAIN t.groups \cup Groups
    BY <2>1, Zenon DEF Put
  <2>5. Table(u) /\ Backed(u, ms)
    BY <1>c, <2>2, <2>4, <2>a, Zenon DEF Begin, Unlocked
  <2>6. PlanBacked(<<Call("add", rules), Store(u)>>, ms, {})
    BY <2>5, PlanCallStore, Zenon
  <2> QED BY <1>a, <2>4, <2>6, BeginMeters, ExemptFacts, Zenon
<1>2. ASSUME NEW g \in Groups, NEW v \in Values, GroupModify(g, v) PROVE MetersInv'
  <2> DEFINE done == [Exempt EXCEPT !.holes = KeysOf({f \in Range(tables.flows) : HasRuleOn(f, Root)}),
                                    !.unsure = Incremental]
  <2>1. PICK x : x = [t.groups EXCEPT ![g] = v]
    BY Zenon
  <2>2. PICK u : u = [t EXCEPT !.groups = x]
    BY Zenon
  <2>3. PICK rules : rules = On(Root, {GroupRule(g, v)})
    OBVIOUS
  <2>4. Begin(<<Call("update", rules), Store(u)>>, done, Exempt)
    BY <1>2, <1>a, <2>1, <2>2, <2>3, Zenon DEF GroupModify
  <2>a. DOMAIN x \subseteq DOMAIN t.groups \cup Groups
    BY <2>1, Zenon
  <2>5. Table(u) /\ Backed(u, ms)
    BY <1>c, <2>2, <2>4, <2>a, Zenon DEF Begin, Unlocked
  <2>6. PlanBacked(<<Call("update", rules), Store(u)>>, ms, {})
    BY <2>5, PlanCallStore, Zenon
  <2>7. done.dangling = {}
    BY Zenon DEF Exempt
  <2> HIDE DEF done
  <2> QED BY <1>a, <2>4, <2>6, <2>7, BeginMeters, ExemptFacts, Zenon
<1>3. ASSUME NEW g \in Groups \cup {AllGroups}, GroupDelete(g) PROVE MetersInv'
  <2> DEFINE groups == IF g = AllGroups THEN << >> ELSE Dropping(tables.groups, g)
             members == {f \in Range(tables.flows) : f.group # 0 /\ g \in {f.group, AllGroups}}
             kept == IF g = AllGroups THEN tables.flows ELSE Only(tables.flows, {f \in Flows : f.group # g})
             stored == [tables EXCEPT !.groups = groups]
             more == IF kept = tables.flows THEN << >> ELSE <<Store([stored EXCEPT !.flows = kept])>>
             done == [Exempt EXCEPT !.loose = RulesOf(members), !.unsure = Incremental,
                                    !.holes = IF g = AllGroups THEN KeysOf(members) ELSE {},
                                    !.miscounted = IF g = AllGroups THEN {} ELSE MetersOf(members)]
             risk == [Exempt EXCEPT !.holes = KeysOf(members)]
  <2>1. PICK rules : Begin(<<Call("update", rules), Store(stored)>> \o more, done, risk)
    BY <1>3, Zenon DEF GroupDelete
  <2>2. done.dangling = {} /\ risk.dangling = {} /\ DOMAIN risk = ExemptFields
    BY Zenon DEF Exempt, ExemptFields
  <2>3. PICK x, u : x = groups /\ u = [t EXCEPT !.groups = x]
    BY Zenon
  <2>4. u = stored
    BY <1>a, <2>3, Zenon
  <2>a. DOMAIN x \subseteq DOMAIN t.groups \cup Groups
    BY <1>a, <2>3 DEF Dropping
  <2>5. Table(u) /\ Backed(u, ms) /\ u.flows = t.flows
    BY <1>c, <2>1, <2>3, <2>a, Zenon DEF Begin, Unlocked
  <2>6. PICK a, b : a = Call("update", rules) /\ b = Store(u)
    OBVIOUS
  <2> HIDE DEF done, risk, stored
  <2>7. CASE kept = tables.flows
    <3>1. <<a, b>> \o << >> = <<a, b>>
      BY JoinedPlans, Zenon
    <3>2. Begin(<<Call("update", rules), Store(u)>>, done, risk)
      BY <2>1, <2>4, <2>6, <2>7, <3>1, Zenon
    <3>3. PlanBacked(<<Call("update", rules), Store(u)>>, ms, {})
      BY <2>5, PlanCallStore, Zenon
    <3> QED BY <1>a, <2>2, <3>2, <3>3, BeginMeters, Zenon
  <2>8. CASE kept # tables.flows
    <3>1. PICK T : T = {f \in Flows : f.group # g}
      BY Zenon
    <3>2. kept = Only(u.flows, T)
      BY <1>a, <2>5, <2>8, <3>1, Zenon
    <3>3. PICK w : w = [u EXCEPT !.flows = Only(u.flows, T)]
      BY Zenon
    <3>4. Table(w) /\ Backed(w, ms) /\ Backed(u, ms \cup {})
      BY <2>5, <3>3, FewerFlows, Zenon
    <3>5. PICK c : c = Store(w)
      OBVIOUS
    <3>6. <<a, b>> \o <<c>> = <<a, b, c>>
      BY JoinedPlans, Zenon
    <3>7. more = <<c>>
      BY <2>4, <2>8, <3>2, <3>3, <3>5, Zenon
    <3>8. Begin(<<Call("update", rules), Store(u), Store(w)>>, done, risk)
      BY <2>1, <2>4, <2>6, <3>5, <3>6, <3>7, Zenon
    <3>9. PlanBacked(<<Call("update", rules), Store(u), Store(w)>>, ms, {})
      BY <2>5, <3>4, PlanThree, Zenon
    <3> QED BY <1>a, <2>2, <3>8, <3>9, BeginMeters, Zenon
  <2> QED BY <2>7, <2>8, Zenon
<1> QED BY <1>1, <1>2, <1>3, Zenon DEF UpdateGroupTable

\* An operation goes on with the rest of its plan.
LEMMA AdvanceMeters ==
  ASSUME MetersInv, op.plan # << >>, Advance, UNCHANGED exempt, Table(tables'),
         Backed(tables', exempt.dangling \cup op.risk.dangling),
         Len(op.plan) = 1 => Backed(tables', exempt.dangling)
  PROVE  MetersInv'
<1>1. PICK p : p = op.plan
  OBVIOUS
<1>2. /\ Len(p) \in Nat \ {0} /\ IsSeq(Tail(p)) /\ Len(Tail(p)) = Len(p) - 1
      /\ \A i \in 1..(Len(p) - 1) : Tail(p)[i] = p[i + 1]
      /\ Len(p) # 1 => Tail(p) # << >>
  BY <1>1, TailOfPlan, Zenon DEF MetersInv, PlanBacked
<1>3. CASE Len(p) = 1
  <2>1. op' = Idle
    BY <1>1, <1>3, Zenon DEF Advance
  <2>2. op'.plan = << >> /\ op'.risk = Exempt /\ DOMAIN op' = OpFields /\ ~op'.started
    BY <2>1, Zenon DEF Idle, OpFields
  <2>3. exempt'.dangling \cup op'.risk.dangling = exempt.dangling
    BY <2>2 DEF Exempt
  <2>4. PlanBacked(<< >>, exempt'.dangling, op'.risk.dangling)
    BY DEF PlanBacked, IsSeq
  <2>5. Backed(tables', exempt'.dangling \cup op'.risk.dangling)
    BY <1>1, <1>3, <2>3, Zenon
  <2>6. DOMAIN exempt' = ExemptFields /\ DOMAIN op'.risk = ExemptFields
    BY <2>2, ExemptFacts, Zenon DEF MetersInv
  <2> QED BY <2>2, <2>4, <2>5, <2>6 DEF MetersInv, Table, Backed, PlanBacked
<1>4. CASE Len(p) # 1
  <2>1. op'.plan = Tail(p) /\ op'.risk = op.risk /\ DOMAIN op' = OpFields /\ ~op'.started
    BY <1>1, <1>4, Zenon DEF Advance, MetersInv, OpFields
  <2>2. PICK ms, risk : ms = exempt.dangling /\ risk = op.risk.dangling
    OBVIOUS
  <2>3. PlanBacked(p, ms, risk)
    BY <1>1, <2>2, Zenon DEF MetersInv
  <2>4. PlanBacked(Tail(p), ms, risk)
    <3>1. PICK q : q = Tail(p)
      BY Zenon
    <3>2. \A i \in 1..Len(q) : i + 1 \in 1..Len(p) /\ q[i] = p[i + 1]
      BY <1>2, <3>1
    <3>3. p # << >> /\ Len(q) \in 1..Len(q) /\ Len(q) + 1 = Len(p)
      BY <1>1, <1>2, <1>4, <3>1
    <3>4. q[Len(q)] = p[Len(p)]
      BY <3>2, <3>3, Zenon
    <3> QED BY <1>2, <2>3, <3>1, <3>2, <3>3, <3>4, Zenon DEF PlanBacked
  <2>5. PlanBacked(op'.plan, exempt'.dangling, op'.risk.dangling)
    BY <2>1, <2>2, <2>4, Zenon
  <2>6. op'.plan # << >>
    BY <1>2, <1>4, <2>1, Zenon
  <2> QED BY <2>1, <2>5, <2>6, Zenon DEF MetersInv, Table, Backed, PlanBacked
<1> QED BY <1>3, <1>4, Zenon

\* An operation returns with an error: what it put at risk is left out from then on.
LEMMA AbortMeters ==
  ASSUME MetersInv, NEW more, more.dangling = {}, Abort(more), UNCHANGED tables
  PROVE  MetersInv'
<1>1. op' = Idle /\ exempt' = Join(exempt, Join(op.risk, more))
  BY Zenon DEF Abort
<1>2. PICK e, r : e = exempt /\ r = op.risk
  OBVIOUS
<1>3. DOMAIN e = ExemptFields /\ DOMAIN r = ExemptFields
  BY <1>2, Zenon DEF MetersInv
<1>4. PICK j : j = Join(r, more)
  OBVIOUS
<1>5. j.dangling = r.dangling
  <2>1. Join(r, more).dangling = r.dangling \cup more.dangling
    BY <1>3, JoinFields, Zenon
  <2> QED BY <1>4, <2>1, Zenon
<1>6. DOMAIN Join(e, j) = ExemptFields /\ Join(e, j).dangling = e.dangling \cup r.dangling
  BY <1>3, <1>5, JoinFields
<1>7. DOMAIN exempt' = ExemptFields /\ exempt'.dangling = exempt.dangling \cup op.risk.dangling
  BY <1>1, <1>2, <1>4, <1>6, Zenon
<1>8. /\ op'.plan = << >> /\ op'.risk = Exempt /\ DOMAIN op' = OpFields /\ op'.risk.dangling = {}
      /\ ~op'.started
  BY <1>1, Zenon DEF Idle, OpFields, Exempt
<1>9. PlanBacked(<< >>, exempt'.dangling, op'.risk.dangling)
  BY DEF PlanBacked, IsSeq
<1>10. Backed(tables', exempt'.dangling \cup op'.risk.dangling)
  <2>1. exempt'.dangling \cup op'.risk.dangling = exempt.dangling \cup op.risk.dangling
    BY <1>7, <1>8, Zenon
  <2> QED BY <2>1, Zenon DEF MetersInv
<1> QED BY <1>7, <1>8, <1>9, <1>10, ExemptFacts DEF MetersInv, Table, Backed, PlanBacked

\* The steps of the calls change neither the tables nor the plan.
LEMMA SameMeters ==
  ASSUME MetersInv, UNCHANGED tables, op'.plan = op.plan, op'.risk = op.risk, DOMAIN op' = OpFields,
         op'.started => op.started \/ (op.plan # << >> /\ op.plan[1].do # "store"),
         DOMAIN exempt' = ExemptFields, exempt'.dangling = exempt.dangling
  PROVE  MetersInv'
BY Zenon DEF MetersInv, Table, Backed, PlanBacked

\* Every step keeps the meters of the flows.
LEMMA NextKeepsMeters == ASSUME MetersInv, [Next]_vars PROVE MetersInv'
<1>a. DOMAIN op = OpFields /\ DOMAIN exempt = ExemptFields
  BY Zenon DEF MetersInv
<1>b. op.plan # << >> => Head(op.plan) = op.plan[1] /\ Len(op.plan) \in Nat \ {0}
  <2> SUFFICES ASSUME op.plan # << >> PROVE Head(op.plan) = op.plan[1] /\ Len(op.plan) \in Nat \ {0}
    OBVIOUS
  <2>1. PICK p : p = op.plan
    OBVIOUS
  <2>2. Len(p) \in Nat \ {0} /\ Head(p) = p[1]
    BY <2>1, TailOfPlan, Zenon DEF MetersInv, PlanBacked
  <2> QED BY <2>1, <2>2, Zenon
<1>1. CASE UNCHANGED vars
  BY <1>1, <1>a, SameMeters, Zenon DEF vars
<1>2. CASE UpdateMeterTable
  BY <1>2, MeterTableMeters, Zenon
<1>3. CASE UpdateGroupTable
  BY <1>3, GroupTableMeters, Zenon
<1>4. CASE UpdateFlowTable
  BY <1>4, FlowAddMeters, FlowDeleteMeters, FlowDeleteStrictMeters, Zenon
     DEF UpdateFlowTable, FlowDeleteExact, FlowDeleteWild
<1>5. CASE UpdateLogicalDeviceWithoutLock
  <2>1. op.plan # << >> /\ Head(op.plan).do = "store"
    BY <1>5, Zenon DEF UpdateLogicalDeviceWithoutLock
  <2>2. Len(op.plan) \in Nat \ {0} /\ Head(op.plan) = op.plan[1]
    BY <1>b, <2>1, Zenon
  <2>3. /\ Table(Head(op.plan).to)
        /\ Backed(Head(op.plan).to, exempt.dangling \cup op.risk.dangling)
        /\ Len(op.plan) = 1 => Backed(Head(op.plan).to, exempt.dangling)
    <3>1. PICK p, ms, risk : p = op.plan /\ ms = exempt.dangling /\ risk = op.risk.dangling
      OBVIOUS
    <3>2. PlanBacked(p, ms, risk) /\ p # << >> /\ p[1].do = "store" /\ 1 \in 1..Len(p)
      BY <2>1, <2>2, <3>1 DEF MetersInv
    <3>3. Table(p[1].to) /\ Backed(p[1].to, ms \cup risk) /\ (Len(p) = 1 => Backed(p[1].to, ms))
      BY <3>2, Zenon DEF PlanBacked
    <3> QED BY <2>2, <3>1, <3>3, Zenon
  <2>4. CASE tables' = Head(op.plan).to /\ Advance /\ UNCHANGED exempt
    BY <2>1, <2>3, <2>4, AdvanceMeters, Zenon
  <2>5. CASE Abort(Exempt) /\ UNCHANGED tables
    BY <2>5, AbortMeters, ExemptFacts, Zenon
  <2> QED BY <1>5, <2>4, <2>5, Zenon DEF UpdateLogicalDeviceWithoutLock
<1>6. CASE StartCalls
  <2>1. op'.plan = op.plan /\ op'.risk = op.risk /\ DOMAIN op' = OpFields /\ UNCHANGED <<tables, exempt>>
    BY <1>6, <1>a, Zenon DEF StartCalls, OpFields
  <2>2. op.plan # << >> /\ Head(op.plan).do # "store"
    BY <1>6, Zenon DEF StartCalls
  <2> QED BY <1>a, <1>b, <2>1, <2>2, SameMeters, Zenon
<1>7. CASE Collect
  <2>1. CASE op.err
    BY <1>7, <2>1, AbortMeters, ExemptFacts, Zenon DEF Collect
  <2>2. CASE ~op.err
    <3>1. Advance /\ UNCHANGED <<exempt, tables>> /\ op.started
      BY <1>7, <2>2, Zenon DEF Collect
    <3>2. op.plan # << >> /\ op.plan[1].do # "store"
      BY <3>1, Zenon DEF MetersInv
    <3>3. Len(op.plan) # 1
      BY <3>2, Zenon DEF MetersInv, PlanBacked
    <3>4. Table(tables') /\ Backed(tables', exempt.dangling \cup op.risk.dangling)
      BY <3>1, Zenon DEF MetersInv
    <3> QED BY <3>1, <3>2, <3>3, <3>4, AdvanceMeters
  <2> QED BY <2>1, <2>2, Zenon
<1>8. CASE Timeout
  <2> DEFINE more == [Exempt EXCEPT !.late = {c.dev : c \in {x \in Open : x.st = "wait"}},
                                    !.unsure = {c.dev : c \in Open}]
  <2>1. Abort(more) /\ UNCHANGED tables
    BY <1>8, Zenon DEF Timeout
  <2>2. more.dangling = {}
    BY Zenon DEF Exempt
  <2> HIDE DEF more
  <2> QED BY <2>1, <2>2, AbortMeters, Zenon
<1>9. ASSUME NEW c \in calls, RunCall(c) \/ Answer(c) \/ CallTimeout(c) PROVE MetersInv'
  <2>1. UNCHANGED tables
    BY <1>9, Zenon DEF RunCall, Answer, CallTimeout
  <2>2. op' \in {op, [op EXCEPT !.err = TRUE]}
    BY <1>9, Zenon DEF RunCall, Answer, CallTimeout, Respond
  <2>3. op'.plan = op.plan /\ op'.risk = op.risk /\ DOMAIN op' = OpFields /\ op'.started = op.started
    BY <1>a, <2>2, Zenon DEF OpFields
  <2>4. exempt' \in {exempt, [exempt EXCEPT !.unsure = @ \cup {c.dev}]}
    BY <1>9, Zenon DEF RunCall, Answer, CallTimeout, Unsure
  <2>5. DOMAIN exempt' = ExemptFields /\ exempt'.dangling = exempt.dangling
    BY <1>a, <2>4, Zenon DEF ExemptFields
  <2> QED BY <2>1, <2>3, <2>5, SameMeters, Zenon
<1>10. CASE Restart
  <2> DEFINE more == [Exempt EXCEPT !.unsure = {c.dev : c \in {x \in calls : x.st = "sent"}}]
  <2>1. Abort(more) /\ UNCHANGED tables
    BY <1>10, Zenon DEF Restart
  <2>2. more.dangling = {}
    BY Zenon DEF Exempt
  <2> HIDE DEF more
  <2> QED BY <2>1, <2>2, AbortMeters
<1> QED BY <1>1, <1>2, <1>3, <1>4, <1>5, <1>6, <1>7, <1>8, <1>9, <1>10 DEF Next

\* The invariant holds at first.
LEMMA InitMeters == ASSUME Init PROVE MetersInv
<1>1. tables.flows = << >> /\ Table(tables)
  BY DEF Init, Table
<1>2. \A ms : Backed(tables, ms)
  BY <1>1 DEF Backed, MetersOf, Range
<1>3. op.plan = << >> /\ op.risk = Exempt /\ DOMAIN op = OpFields /\ ~op.started
  BY Zenon DEF Init, Idle, OpFields
<1>4. DOMAIN exempt = ExemptFields
  BY ExemptFacts, Zenon DEF Init
<1>5. PlanBacked(<< >>, exempt.dangling, op.risk.dangling)
  BY DEF PlanBacked, IsSeq
<1> QED BY <1>1, <1>2, <1>3, <1>4, <1>5, ExemptFacts DEF MetersInv

\* Between operations the meter of a flow exists, whatever operations were cut short
\* by a timeout, a failed store or a restart of the core, but for the meter of a
\* MeterDelete that was: GetMeterConfig finds it.
THEOREM MetersExist == Spec => []FlowsHaveMeters
<1>1. Init => MetersInv
  BY InitMeters, Zenon
<1>2. MetersInv /\ [Next]_vars => MetersInv'
  BY NextKeepsMeters, Zenon
<1>3. MetersInv => FlowsHaveMeters
  <2> SUFFICES ASSUME MetersInv, op = Idle PROVE Backed(tables, exempt.dangling)
    BY Zenon DEF FlowsHaveMeters, Backed
  <2>1. op.plan = << >>
    BY Zenon DEF Idle
  <2> QED BY <2>1, Before, Zenon
<1> QED BY <1>1, <1>2, <1>3, PTL DEF Spec

-----------------------------------------------------------------------------
(***************************************************************************)
(* The rules that a flow has on a device.                                  *)
(***************************************************************************)
Single(rules) == \A d \in DOMAIN rules : \A x, y \in rules[d] : x = y

\* One rule on a device, none at all, and one on each of two devices.
LEMMA SingleRules ==
  /\ Single(NoRules)
  /\ \A d, x : Single(On(d, {x}))
  /\ \A d, e, x, y : Single(Put(On(d, {x}), On(e, {y})))
<1>1. Single(NoRules)
  BY DEF Single, NoRules
<1>2. ASSUME NEW d, NEW x PROVE Single(On(d, {x}))
  BY Zenon DEF Single, On
<1>3. ASSUME NEW d, NEW e, NEW x, NEW y PROVE Single(Put(On(d, {x}), On(e, {y})))
  BY Zenon DEF Single, On, Put
<1> QED BY <1>1, <1>2, <1>3, Zenon

\* DecomposeFlow gives a flow at most one rule on a device: AddFlowsAndGroup replaces
\* what was there for the device.
LEMMA DecomposeSingle ==
  ASSUME NEW n, NEW f, NEW groups, NEW rules \in DecomposeFlow(n, f, groups)
  PROVE  Single(rules)
<1> DEFINE ins == IF f.group # 0 /\ f.in = 0 /\ n.nnis # {} THEN n.nnis ELSE {f.in}
           Along(in, path) ==
             IF f.out = Controller THEN {ProcessControllerBoundFlow(n, path, in, f)}
             ELSE IF path[1].dev \notin DOMAIN n.devices THEN {}
             ELSE IF ~n.devices[path[1].dev].root
               THEN {ProcessUpstreamNonControllerBoundFlow(path, in, f.out, f)}
             ELSE DecomposeDownstream(n, path, in, f, groups)
           results == UNION {UNION {Along(in, path) : path \in GetRoute(n.dr, n.nnis, n.root, in, f.out)} : in \in ins}
<1>1. DecomposeFlow(n, f, groups)
        = {UpdateOutputPortForControllerBoundFlowForParentDevice(n, r) : r \in results}
  BY Zenon DEF DecomposeFlow
<1>2. ASSUME NEW path, NEW in PROVE Single(ProcessControllerBoundFlow(n, path, in, f))
  BY SingleRules, ZenonT(60) DEF ProcessControllerBoundFlow
<1>3. ASSUME NEW path, NEW in PROVE Single(ProcessUpstreamNonControllerBoundFlow(path, in, f.out, f))
  BY SingleRules, Zenon DEF ProcessUpstreamNonControllerBoundFlow
<1>4. ASSUME NEW path, NEW in, NEW r \in ProcessDownstreamFlowWithNextTable(n, path, in, f.out, f)
      PROVE  Single(r)
  BY SingleRules, ZenonT(60) DEF ProcessDownstreamFlowWithNextTable
<1>5. ASSUME NEW path PROVE Single(ProcessUnicastFlow(path, f))
  BY SingleRules, Zenon DEF ProcessUnicastFlow
<1>6. ASSUME NEW path PROVE Single(ProcessMulticastFlow(path, f, groups))
  BY SingleRules, Zenon DEF ProcessMulticastFlow
<1>7. ASSUME NEW path, NEW in, NEW r \in DecomposeDownstream(n, path, in, f, groups) PROVE Single(r)
  BY <1>4, <1>5, <1>6, Zenon DEF DecomposeDownstream
<1>8. ASSUME NEW path, NEW in, NEW r \in Along(in, path) PROVE Single(r)
  BY <1>2, <1>3, <1>7, Zenon
<1> HIDE DEF Along
<1>9. ASSUME NEW r \in results PROVE Single(r)
  BY <1>8
<1>10. PICK r \in results : rules = UpdateOutputPortForControllerBoundFlowForParentDevice(n, r)
  BY <1>1, Zenon
<1>11. Single(r)
  BY <1>9, Zenon
<1> QED BY <1>10, <1>11 DEF Single, UpdateOutputPortForControllerBoundFlowForParentDevice

-----------------------------------------------------------------------------
(***************************************************************************)
(* The calls of the devices' agents.                                       *)
(***************************************************************************)
Kinds == {"add", "delete", "update"}
CallFields == {"n", "dev", "do", "rules", "st", "open", "msg"}

Distinct(rules) == \A x, y \in rules : x.key = y.key => x = y

\* A plan adds rules with different keys, and where it replaces rules the devices
\* that take changes are unsure.
StageSafe(s, unsure) ==
  /\ s.do \in Kinds \cup {"store"}
  /\ s.do = "add" => Single(s.rules)
  /\ s.do = "update" => Incremental \subseteq unsure

PlanSafe(p, unsure) == \A i \in 1..Len(p) : StageSafe(p[i], unsure)

CallSafe(c) ==
  /\ DOMAIN c = CallFields
  /\ c.dev \in Devices /\ c.do \in Kinds /\ c.st \in {"wait", "sent"}
  /\ c.do = "add" => Distinct(c.rules)
  /\ c.do = "update" /\ c.dev \in Incremental => c.dev \in exempt.unsure
  /\ c.open => op.started

\* The calls on a device that is not unsure: there is one at most, the operation
\* waits for it, and before the request is sent, or once it is taken, the adapter
\* has the rules of the record.
DeviceSafe(d) ==
  d \notin exempt.unsure =>
    /\ \A c, e \in calls : c.dev = d /\ e.dev = d => c = e
    /\ \A c \in calls : c.dev = d =>
         /\ c.open
         /\ c.st = "wait" => hw[d] = rec[d]
         /\ c.st = "sent" => Told(d, c.msg) = rec[d]
    /\ (\A c \in calls : c.dev # d) => hw[d] = rec[d]

CallsInv ==
  /\ DOMAIN rec = Devices /\ DOMAIN hw = Devices
  /\ PlanSafe(op.plan, exempt.unsure)
  /\ \A c \in calls : CallSafe(c)
  /\ \A d \in Devices : DeviceSafe(d)

\* A request changes the rules that an adapter has from those of the old record to
\* those of the new one.
LEMMA RequestFits ==
  ASSUME NEW c, CallSafe(c), c.dev \notin exempt.unsure, hw[c.dev] = rec[c.dev]
  PROVE  Told(c.dev, RequestOf(c).msg) = RequestOf(c).keep
<1> DEFINE d == c.dev
           new == c.rules
<1>1. c.do \in Kinds /\ (d \in Incremental => c.do # "update")
  BY Zenon DEF CallSafe
<1>2. CASE d \notin Incremental
  <2>1. RequestOf(c).msg.all = RequestOf(c).keep
    BY <1>1, <1>2, Zenon DEF RequestOf, AddFlowsAndGroupsToAdapter, DeleteFlowsAndGroupsFromAdapter,
                      UpdateFlowsAndGroupsToAdapter, Request, UpdateFlowsBulk, Kinds
  <2> QED BY <1>2, <2>1, Zenon DEF Told
<1>3. CASE d \in Incremental /\ c.do = "delete"
  <2> DEFINE keep == {r \in rec[d] : r.key \notin RuleKeys(new)}
  <2>1. RequestOf(c).keep = keep /\ RequestOf(c).msg = UpdateFlowsIncremental({}, new, {})
    BY <1>3, Zenon DEF RequestOf, DeleteFlowsAndGroupsFromAdapter, Request
  <2>2. Told(d, UpdateFlowsIncremental({}, new, {})) = keep
    BY <1>3, Zenon DEF Told, UpdateFlowsIncremental
  <2> QED BY <2>1, <2>2, Zenon
<1>4. CASE d \in Incremental /\ c.do = "add"
  <2> DEFINE old == rec[d]
             updated == new \ old
             delete == {r \in old : r.key \in RuleKeys(updated)}
             keep == (old \ delete) \cup new
  <2>1. RequestOf(c).keep = keep /\ RequestOf(c).msg = UpdateFlowsIncremental(updated, delete, {})
    BY <1>4, Zenon DEF RequestOf, AddFlowsAndGroupsToAdapter, ToUpdateToDelete, Request
  <2>2. Told(d, UpdateFlowsIncremental(updated, delete, {}))
          = {r \in old : r.key \notin RuleKeys(delete)} \cup updated
    BY <1>4, Zenon DEF Told, UpdateFlowsIncremental
  <2>3. Distinct(new)
    BY <1>4, Zenon DEF CallSafe
  <2>4. \A r \in old : r.key \notin RuleKeys(delete) <=> r \notin delete
    BY Zenon DEF RuleKeys
  <2>5. \A r \in new \cap old : r \notin delete
    BY <2>3, Zenon DEF RuleKeys, Distinct
  <2>6. {r \in old : r.key \notin RuleKeys(delete)} \cup updated = keep
    BY <2>4, <2>5, Zenon
  <2> QED BY <2>1, <2>2, <2>6, Zenon
<1> QED BY <1>1, <1>2, <1>3, <1>4, Zenon DEF Kinds

\* The stages of the plans.
LEMMA SafeStages ==
  ASSUME NEW u, NEW x
  PROVE  /\ StageSafe(Store(x), u) /\ StageSafe(Call("delete", x), u)
         /\ Single(x) => StageSafe(Call("add", x), u)
         /\ Incremental \subseteq u => StageSafe(Call("update", x), u)
BY Zenon DEF Store, Call, StageSafe, Kinds

\* Plans of one, two and three stages.
LEMMA SafePlans ==
  ASSUME NEW u, NEW a, NEW b, NEW c, StageSafe(a, u)
  PROVE  /\ PlanSafe(<<a>>, u)
         /\ StageSafe(b, u) => PlanSafe(<<a, b>>, u)
         /\ StageSafe(b, u) /\ StageSafe(c, u) => PlanSafe(<<a, b, c>>, u)
<1>1. PlanSafe(<<a>>, u)
  BY DEF PlanSafe
<1>2. StageSafe(b, u) => PlanSafe(<<a, b>>, u)
  BY DEF PlanSafe
<1>3. StageSafe(b, u) /\ StageSafe(c, u) => PlanSafe(<<a, b, c>>, u)
  BY DEF PlanSafe
<1> QED BY <1>1, <1>2, <1>3, Zenon

\* More is left out, and nothing else changes.
LEMMA MoreUnsure ==
  ASSUME CallsInv, exempt.unsure \subseteq exempt'.unsure, UNCHANGED <<rec, hw, calls>>,
         PlanSafe(op'.plan, exempt'.unsure), \A c \in calls : c.open => op'.started
  PROVE  CallsInv'
<1>1. \A c \in calls : CallSafe(c)'
  BY Zenon DEF CallsInv, CallSafe
<1>2. \A d \in Devices : DeviceSafe(d)'
  BY DEF CallsInv, DeviceSafe, Told
<1> QED BY <1>1, <1>2, Zenon DEF CallsInv

\* An operation begins: no call is waited for then.
LEMMA BeginCalls ==
  ASSUME MetersInv, CallsInv, NEW plan, NEW done, NEW risk, Begin(plan, done, risk),
         PlanSafe(plan, exempt.unsure \cup done.unsure)
  PROVE  CallsInv'
<1>1. /\ op' = [plan |-> plan, started |-> FALSE, err |-> FALSE, risk |-> risk]
      /\ exempt' = Join(exempt, done) /\ op.plan = << >> /\ UNCHANGED <<rec, hw, calls>>
  BY Zenon DEF Begin, Unlocked
<1>2. exempt'.unsure = exempt.unsure \cup done.unsure
  <2>1. PICK e : e = exempt
    OBVIOUS
  <2>2. DOMAIN e = ExemptFields
    BY <2>1, Zenon DEF MetersInv
  <2>3. Join(e, done).unsure = e.unsure \cup done.unsure
    BY <2>2, JoinFields, Zenon
  <2> QED BY <1>1, <2>1, <2>3, Zenon
<1>3. ~op.started
  BY <1>1, Zenon DEF MetersInv
<1>4. \A c \in calls : ~c.open
  BY <1>3, Zenon DEF CallsInv, CallSafe
<1>5. PlanSafe(op'.plan, exempt'.unsure)
  BY <1>1, <1>2, Zenon
<1> QED BY <1>1, <1>2, <1>4, <1>5, MoreUnsure, Zenon

\* The rules of a flow, for the groups that there are.
LEMMA RulesForSingle == ASSUME MetersInv, NEW f \in Flows, NEW rules \in RulesFor(f) PROVE Single(rules)
<1>1. PICK gs : gs = DOMAIN tables.groups
  OBVIOUS
<1>2. gs \in SUBSET Groups
  BY <1>1, Zenon DEF MetersInv, Table
<1>3. RulesFor(f) = DecomposeFlow(net, f, gs)
  <2>1. PICK p \in Flows \X SUBSET Groups : p = <<f, gs>>
    BY <1>2, Zenon
  <2>2. Decomposition[p] = DecomposeFlow(net, p[1], p[2])
    BY Zenon DEF Decomposition
  <2>3. p[1] = f /\ p[2] = gs
    BY <2>1, Zenon
  <2> QED BY <1>1, <2>1, <2>2, <2>3, Zenon DEF RulesFor
<1> QED BY <1>3, DecomposeSingle, Zenon

\* The operations on the tables: flowAdd and groupAdd add one rule to a device.
LEMMA OperationsCalls ==
  ASSUME MetersInv, CallsInv, UpdateMeterTable \/ UpdateGroupTable \/ UpdateFlowTable
  PROVE  CallsInv'
<1>a. ASSUME NEW plan, NEW done, NEW risk, Begin(plan, done, risk), NEW a, NEW b, NEW c,
             plan \in {<<a>>, <<a, b>>, <<a, b, c>>}, NEW u, u = exempt.unsure \cup done.unsure,
             StageSafe(a, u), StageSafe(b, u), StageSafe(c, u)
      PROVE  CallsInv'
  <2>1. PlanSafe(plan, u)
    BY <1>a, SafePlans, Zenon
  <2> QED BY <1>a, <2>1, BeginCalls, Zenon
<1>b. ASSUME NEW plan, NEW done, NEW risk, Begin(plan, done, risk), NEW a, NEW b, NEW c,
             plan \in {<<a>>, <<a, b>>, <<a, b, c>>}, \A u : StageSafe(a, u),
             \A u : StageSafe(b, u), \A u : StageSafe(c, u)
      PROVE  CallsInv'
  <2>1. PICK u : u = exempt.unsure \cup done.unsure
    BY Zenon
  <2>2. StageSafe(a, u) /\ StageSafe(b, u) /\ StageSafe(c, u)
    BY <1>b, Zenon
  <2> QED BY <1>a, <1>b, <2>1, <2>2
<1>c. \A u, x : StageSafe(Store(x), u) /\ StageSafe(Call("delete", x), u)
  BY SafeStages, Zenon
<1>d. \A u, x : Single(x) => StageSafe(Call("add", x), u)
  BY SafeStages, Zenon
<1>e. ASSUME NEW plan, NEW done, NEW risk, Begin(plan, done, risk), NEW x, NEW y,
             plan \in {<<Store(x)>>, <<Store(x), Store(y)>>}
      PROVE  CallsInv'
  <2>1. PICK a, b : a = Store(x) /\ b = Store(y)
    OBVIOUS
  <2>2. plan \in {<<a>>, <<a, b>>, <<a, b, b>>}
    BY <1>e, <2>1, Zenon
  <2>3. (\A u : StageSafe(a, u)) /\ \A u : StageSafe(b, u)
    BY <1>c, <2>1, Zenon
  <2> QED BY <1>b, <1>e, <2>2, <2>3
<1>f. ASSUME NEW done, NEW risk, NEW z, NEW x, NEW more, NEW y, more \in {<< >>, <<Store(y)>>},
             Begin(<<z, Store(x)>> \o more, done, risk),
             StageSafe(z, exempt.unsure \cup done.unsure)
      PROVE  CallsInv'
  <2>1. PICK a, b : a = Store(x) /\ b = Store(y)
    OBVIOUS
  <2>2. PICK plan : plan = <<z, a>> \o more
    BY Zenon
  <2>3. plan \in {<<z>>, <<z, a>>, <<z, a, b>>}
    BY <1>f, <2>1, <2>2, JoinedPlans, Zenon
  <2>4. PICK u : u = exempt.unsure \cup done.unsure
    BY Zenon
  <2>5. StageSafe(z, u) /\ StageSafe(a, u) /\ StageSafe(b, u)
    BY <1>c, <1>f, <2>1, <2>4, Zenon
  <2>6. Begin(plan, done, risk)
    BY <1>f, <2>1, <2>2, Zenon
  <2> QED BY <1>a, <2>3, <2>4, <2>5, <2>6
<1>g. ASSUME NEW done, NEW risk, NEW z, NEW x, Begin(<<z, Store(x)>>, done, risk),
             StageSafe(z, exempt.unsure \cup done.unsure)
      PROVE  CallsInv'
  <2>1. <<z, Store(x)>> \o << >> = <<z, Store(x)>>
    BY JoinedPlans, Zenon
  <2> QED BY <1>f, <1>g, <2>1, Zenon
<1>1. ASSUME NEW m \in Meters, NEW v \in Values, MeterAdd(m, v) \/ MeterModify(m, v) PROVE CallsInv'
  <2>1. PICK x : Begin(<<Store(x)>>, Exempt, Exempt)
    BY <1>1, Zenon DEF MeterAdd, MeterModify
  <2> QED BY <1>e, <2>1, Zenon
<1>2. ASSUME NEW m \in Meters, MeterDelete(m) PROVE CallsInv'
  <2>1. \E x, y, plan, done, risk :
          Begin(plan, done, risk) /\ plan \in {<<Store(x)>>, <<Store(x), Store(y)>>}
    BY <1>2, Zenon DEF MeterDelete
  <2> QED BY <1>e, <2>1
<1>3. ASSUME NEW g \in Groups, NEW v \in Values, GroupAdd(g, v) PROVE CallsInv'
  <2>1. PICK r : r = On(Root, {GroupRule(g, v)})
    OBVIOUS
  <2>2. PICK x : Begin(<<Call("add", r), Store(x)>>, Exempt, Exempt)
    BY <1>3, <2>1, Zenon DEF GroupAdd
  <2>3. Single(r)
    BY <2>1, SingleRules, Zenon
  <2> QED BY <1>d, <1>g, <2>2, <2>3, Zenon
<1>4. ASSUME NEW g \in Groups, NEW v \in Values, GroupModify(g, v) PROVE CallsInv'
  <2>1. PICK r, x, done : /\ Begin(<<Call("update", r), Store(x)>>, done, Exempt)
                          /\ done = [Exempt EXCEPT !.holes = KeysOf({f \in Range(tables.flows) : HasRuleOn(f, Root)}),
                                                   !.unsure = Incremental]
    BY <1>4, Zenon DEF GroupModify
  <2>2. done.unsure = Incremental
    BY <2>1, Zenon DEF Exempt
  <2>3. StageSafe(Call("update", r), exempt.unsure \cup done.unsure)
    BY <2>2, SafeStages
  <2> QED BY <1>g, <2>1, <2>3, Zenon
<1>5. ASSUME NEW g \in Groups \cup {AllGroups}, GroupDelete(g) PROVE CallsInv'
  <2> DEFINE groups == IF g = AllGroups THEN << >> ELSE Dropping(tables.groups, g)
             members == {f \in Range(tables.flows) : f.group # 0 /\ g \in {f.group, AllGroups}}
             kept == IF g = AllGroups THEN tables.flows ELSE Only(tables.flows, {f \in Flows : f.group # g})
             stored == [tables EXCEPT !.groups = groups]
             more == IF kept = tables.flows THEN << >> ELSE <<Store([stored EXCEPT !.flows = kept])>>
             done == [Exempt EXCEPT !.loose = RulesOf(members), !.unsure = Incremental,
                                    !.holes = IF g = AllGroups THEN KeysOf(members) ELSE {},
                                    !.miscounted = IF g = AllGroups THEN {} ELSE MetersOf(members)]
             risk == [Exempt EXCEPT !.holes = KeysOf(members)]
  <2>1. PICK rules : Begin(<<Call("update", rules), Store(stored)>> \o more, done, risk)
    BY <1>5, Zenon DEF GroupDelete
  <2>2. done.unsure = Incremental
    BY Zenon DEF Exempt
  <2>3. PICK y : more \in {<< >>, <<Store(y)>>}
    BY Zenon
  <2> HIDE DEF stored, more, done, risk
  <2>4. StageSafe(Call("update", rules), exempt.unsure \cup done.unsure)
    BY <2>2, SafeStages, Zenon
  <2> QED BY <1>f, <2>1, <2>3, <2>4
<1>6. ASSUME NEW f \in Flows, FlowAdd(f) PROVE CallsInv'
  <2> DEFINE i == FindFlows(tables.flows, f)
             updated == i # 0 /\ ~f.check
             old == IF updated THEN {tables.flows[i]} ELSE {}
             stored == [tables EXCEPT !.flows = IF updated THEN [@ EXCEPT ![i] = f] ELSE Append(@, f)]
             counted == IF updated \/ f.meter = 0 THEN << >>
                        ELSE <<Store(UpdateFlowCountOfMeterStats(stored, f.meter, 1))>>
  <2>1. PICK rules \in RulesFor(f) : \E done, risk : Begin(<<Call("add", rules), Store(stored)>> \o counted, done, risk)
    BY <1>6 DEF FlowAdd
  <2>2. Single(rules)
    BY <2>1, RulesForSingle, Zenon
  <2>3. PICK y : counted \in {<< >>, <<Store(y)>>}
    OBVIOUS
  <2> HIDE DEF stored, counted
  <2>4. PICK done, risk : Begin(<<Call("add", rules), Store(stored)>> \o counted, done, risk)
    BY <2>1, Zenon
  <2>5. StageSafe(Call("add", rules), exempt.unsure \cup done.unsure)
    BY <1>d, <2>2, Zenon
  <2> QED BY <1>f, <2>3, <2>4, <2>5
<1>7. ASSUME NEW matched, FlowDelete(matched) PROVE CallsInv'
  <2>1. \E rules, x, done, risk : Begin(<<Call("delete", rules), Store(x)>>, done, risk)
    BY <1>7, Zenon DEF FlowDelete
  <2> QED BY <1>c, <1>g, <2>1, Zenon
<1>8. ASSUME NEW f \in Flows, FlowDeleteStrict(f) PROVE CallsInv'
  <2> DEFINE i == FindFlows(tables.flows, f)
             flow == tables.flows[i]
             known == flow.meter \in DOMAIN tables.meters
             counted == IF known THEN UpdateFlowCountOfMeterStats(tables, flow.meter, -1) ELSE tables
             first == IF known THEN <<Store(counted)>> ELSE << >>
  <2>1. \E done, risk, rules, y : \/ Begin(first, done, risk)
                                  \/ Begin(first \o <<Call("delete", rules), Store(y)>>, done, risk)
    BY <1>8, Zenon DEF FlowDeleteStrict
  <2>2. PICK x : first \in {<< >>, <<Store(x)>>}
    OBVIOUS
  <2> HIDE DEF first
  <2>3. PICK done, risk, rules, y : \/ Begin(first, done, risk)
                                    \/ Begin(first \o <<Call("delete", rules), Store(y)>>, done, risk)
    BY <2>1, Zenon
  <2>4. PICK a, b, c : a = Store(x) /\ b = Call("delete", rules) /\ c = Store(y)
    OBVIOUS
  <2>5. (\A u : StageSafe(a, u)) /\ (\A u : StageSafe(b, u)) /\ \A u : StageSafe(c, u)
    BY <1>c, <2>4, Zenon
  <2>6. CASE Begin(first, done, risk)
    <3>1. first = <<a>>
      BY <2>2, <2>4, <2>6, Zenon DEF Begin, Unlocked
    <3> QED BY <1>b, <2>5, <2>6, <3>1
  <2>7. CASE Begin(first \o <<Call("delete", rules), Store(y)>>, done, risk)
    <3>1. PICK plan : plan = first \o <<b, c>>
      BY Zenon
    <3>2. plan \in {<<b, c>>, <<a, b, c>>}
      <4>1. CASE first = << >>
        BY <3>1, <4>1, JoinedPlans, Zenon
      <4>2. CASE first = <<a>>
        BY <3>1, <4>2, JoinedPlans, ZenonT(60)
      <4> QED BY <2>2, <2>4, <4>1, <4>2, Zenon
    <3>3. Begin(plan, done, risk)
      BY <2>4, <2>7, <3>1, Zenon
    <3> QED BY <1>b, <2>5, <3>2, <3>3
  <2> QED BY <2>3, <2>6, <2>7, Zenon
<1> QED
  BY <1>1, <1>2, <1>3, <1>4, <1>5, <1>6, <1>7, <1>8, Zenon
     DEF UpdateMeterTable, UpdateGroupTable, UpdateFlowTable, FlowDeleteExact, FlowDeleteWild

\* The rest of a plan is safe.
LEMMA AdvanceCalls ==
  ASSUME MetersInv, CallsInv, op.plan # << >>, Advance, UNCHANGED <<exempt, rec, hw, calls>>, Open = {}
  PROVE  CallsInv'
<1>1. PlanSafe(op'.plan, exempt'.unsure)
  <2>1. PICK p, u : p = op.plan /\ u = exempt.unsure
    OBVIOUS
  <2>2. /\ Len(p) \in Nat \ {0} /\ Len(Tail(p)) = Len(p) - 1
        /\ \A i \in 1..(Len(p) - 1) : Tail(p)[i] = p[i + 1]
    BY <2>1, TailOfPlan, Zenon DEF MetersInv, PlanBacked
  <2>3. PlanSafe(p, u)
    BY <2>1, Zenon DEF CallsInv
  <2>4. CASE Len(p) = 1
    <3>1. op'.plan = << >>
      BY <2>1, <2>4, Zenon DEF Advance, Idle
    <3> QED BY <3>1 DEF PlanSafe
  <2>5. CASE Len(p) # 1
    <3>1. op'.plan = Tail(p)
      BY <2>1, <2>5, Zenon DEF Advance, MetersInv, OpFields
    <3>2. PICK q : q = Tail(p)
      BY Zenon
    <3>3. \A i \in 1..Len(q) : i + 1 \in 1..Len(p) /\ q[i] = p[i + 1]
      BY <2>2, <3>2
    <3>4. PlanSafe(q, u)
      BY <2>3, <3>3, Zenon DEF PlanSafe
    <3> QED BY <2>1, <3>1, <3>2, <3>4, Zenon
  <2> QED BY <2>4, <2>5, Zenon
<1>2. \A c \in calls : ~c.open
  BY Zenon DEF Open
<1> QED BY <1>1, <1>2, MoreUnsure, Zenon

\* What becomes unsure when an operation ends with an error.
LEMMA AbortUnsure ==
  ASSUME MetersInv, NEW more, Abort(more)
  PROVE  exempt.unsure \cup more.unsure \subseteq exempt'.unsure
<1>1. exempt' = Join(exempt, Join(op.risk, more))
  BY Zenon DEF Abort
<1>2. PICK e, r : e = exempt /\ r = op.risk
  OBVIOUS
<1>3. DOMAIN e = ExemptFields /\ DOMAIN r = ExemptFields
  BY <1>2, Zenon DEF MetersInv
<1>4. PICK j : j = Join(r, more)
  OBVIOUS
<1>5. j.unsure = r.unsure \cup more.unsure
  BY <1>3, <1>4, JoinFields, Zenon
<1>6. Join(e, j).unsure = e.unsure \cup j.unsure
  BY <1>3, JoinFields, Zenon
<1> QED BY <1>1, <1>2, <1>4, <1>5, <1>6, Zenon

\* The operation ends with an error, and no call is open.
LEMMA AbortCalls ==
  ASSUME MetersInv, CallsInv, NEW more, Abort(more), UNCHANGED <<rec, hw, calls>>, Open = {}
  PROVE  CallsInv'
<1>1. exempt.unsure \subseteq exempt'.unsure
  BY AbortUnsure, Zenon
<1>2. PlanSafe(op'.plan, exempt'.unsure)
  BY DEF Abort, Idle, PlanSafe
<1>3. \A c \in calls : ~c.open
  BY Zenon DEF Open
<1> QED BY <1>1, <1>2, <1>3, MoreUnsure, Zenon

\* StartCalls calls the agents of the devices, each once, and a device that is not
\* unsure has no call then.
LEMMA StartCallsCalls == ASSUME MetersInv, CallsInv, StartCalls PROVE CallsInv'
<1> DEFINE stage == op.plan[1]
           New(d) == [n |-> ops, dev |-> d, do |-> stage.do, rules |-> stage.rules[d],
                      st |-> "wait", open |-> TRUE, msg |-> NoRules]
           devs == DOMAIN stage.rules \cap Devices
<1>1. Len(op.plan) \in Nat \ {0} /\ Head(op.plan) = stage
  <2>1. PICK p : p = op.plan
    OBVIOUS
  <2>2. Len(p) \in Nat \ {0} /\ Head(p) = p[1]
    BY <2>1, TailOfPlan, Zenon DEF MetersInv, PlanBacked, StartCalls
  <2> QED BY <2>1, <2>2, Zenon
<1>2. stage.do # "store" /\ StageSafe(stage, exempt.unsure) /\ stage.do \in Kinds
  BY <1>1 DEF StartCalls, CallsInv, PlanSafe, StageSafe
<1>3. calls' = calls \cup {New(d) : d \in devs}
  BY <1>1, Zenon DEF StartCalls
<1>4. op'.started /\ op'.plan = op.plan /\ UNCHANGED <<rec, hw, exempt>> /\ ~op.started
  BY Zenon DEF StartCalls, MetersInv, OpFields
<1>5. \A c \in calls : ~c.open
  BY <1>4, Zenon DEF CallsInv, CallSafe
<1>6. ASSUME NEW d \in devs
      PROVE  /\ DOMAIN New(d) = CallFields /\ New(d).dev = d /\ New(d).do = stage.do
             /\ New(d).rules = stage.rules[d] /\ New(d).st = "wait" /\ New(d).open
  BY Zenon DEF CallFields
<1> HIDE DEF New
<1>7. ASSUME NEW d \in devs, NEW c, c = New(d) PROVE CallSafe(c)'
  <2>1. stage.do = "add" => Distinct(stage.rules[d])
    BY <1>2, Zenon DEF StageSafe, Single, Distinct
  <2>2. stage.do = "update" => Incremental \subseteq exempt.unsure
    BY <1>2, Zenon DEF StageSafe
  <2> QED BY <1>2, <1>4, <1>6, <1>7, <2>1, <2>2, Zenon DEF CallSafe
<1>8. \A c \in calls : CallSafe(c)'
  BY <1>4, <1>5, Zenon DEF CallsInv, CallSafe
<1>9. \A c \in calls' : CallSafe(c)'
  BY <1>3, <1>7, <1>8, Zenon
<1>10. ASSUME NEW d \in Devices PROVE DeviceSafe(d)'
  <2> SUFFICES ASSUME d \notin exempt.unsure
               PROVE  /\ \A c, e \in calls' : c.dev = d /\ e.dev = d => c = e
                      /\ \A c \in calls' : c.dev = d => c.open /\ c.st = "wait" /\ hw[d] = rec[d]
                      /\ hw[d] = rec[d]
    BY <1>4, Zenon DEF DeviceSafe, Told
  <2>1. \A c \in calls : c.dev # d
    BY <1>5, Zenon DEF CallsInv, DeviceSafe
  <2>2. hw[d] = rec[d]
    BY <2>1, Zenon DEF CallsInv, DeviceSafe
  <2>3. \A c \in calls' : c.dev = d => d \in devs /\ c = New(d)
    BY <1>3, <1>6, <2>1
  <2> QED BY <1>6, <2>2, <2>3
<1>11. PlanSafe(op.plan, exempt.unsure) /\ DOMAIN rec = Devices /\ DOMAIN hw = Devices
  BY Zenon DEF CallsInv
<1> QED BY <1>4, <1>9, <1>10, <1>11, Zenon DEF CallsInv

\* An operation ends while calls are open: their devices are unsure from then on, and
\* so are those of calls that were sent and stay.
LEMMA LeftBehind ==
  ASSUME MetersInv, CallsInv, NEW more, Abort(more), UNCHANGED <<rec, hw>>,
         NEW left, left \subseteq calls, calls' = {[c EXCEPT !.open = FALSE] : c \in left},
         \A c \in left : c.open => c.dev \in more.unsure,
         \A c \in calls \ left : c.st = "sent" => c.dev \in more.unsure
  PROVE  CallsInv'
<1>1. exempt.unsure \cup more.unsure \subseteq exempt'.unsure
  BY AbortUnsure, Zenon
<1>2. PlanSafe(op'.plan, exempt'.unsure)
  BY DEF Abort, Idle, PlanSafe
<1>3. ASSUME NEW c \in left
      PROVE  CallSafe([c EXCEPT !.open = FALSE])' /\ [c EXCEPT !.open = FALSE].dev = c.dev
  <2>1. PICK e : e = [c EXCEPT !.open = FALSE]
    BY Zenon
  <2>2. CallSafe(c)
    BY Zenon DEF CallsInv
  <2>3. /\ DOMAIN e = CallFields /\ e.dev = c.dev /\ e.do = c.do /\ e.st = c.st
        /\ e.rules = c.rules /\ ~e.open
    BY <2>1, <2>2, Zenon DEF CallSafe, CallFields
  <2>4. CallSafe(e)'
    BY <1>1, <2>2, <2>3, Zenon DEF CallSafe
  <2> QED BY <2>1, <2>3, <2>4, Zenon DEF CallSafe
<1>4. \A c \in calls' : CallSafe(c)'
  BY <1>3, Zenon
<1>5. ASSUME NEW d \in Devices, d \notin exempt'.unsure
      PROVE  (\A c \in calls' : c.dev # d) /\ hw[d] = rec[d]
  <2>1. DeviceSafe(d) /\ d \notin exempt.unsure /\ d \notin more.unsure
    BY <1>1, <1>5, Zenon DEF CallsInv
  <2>2. \A c \in left : c.dev # d
    BY <2>1, Zenon DEF DeviceSafe
  <2>3. \A c \in calls : c.dev = d => c.st = "wait"
    BY <2>1, <2>2, Zenon DEF CallsInv, CallSafe
  <2>4. hw[d] = rec[d]
    BY <2>1, <2>3, Zenon DEF DeviceSafe
  <2> QED BY <1>3, <2>2, <2>4, Zenon
<1>6. \A d \in Devices : DeviceSafe(d)'
  BY <1>5, Zenon DEF DeviceSafe
<1> QED BY <1>2, <1>4, <1>6, Zenon DEF CallsInv

\* A step of the agent of one device.
LEMMA OneDevice ==
  ASSUME CallsInv, NEW c \in calls, NEW new, Replace(c, new), \A e \in new : e.dev = c.dev /\ CallSafe(e)',
         DOMAIN rec' = Devices, DOMAIN hw' = Devices,
         \A d \in Devices : d # c.dev => rec'[d] = rec[d] /\ hw'[d] = hw[d],
         exempt'.unsure \in {exempt.unsure, exempt.unsure \cup {c.dev}},
         op'.plan = op.plan, op'.started = op.started, DeviceSafe(c.dev)'
  PROVE  CallsInv'
<1>1. calls' = (calls \ {c}) \cup new
  BY Zenon DEF Replace
<1>2. PlanSafe(op'.plan, exempt'.unsure)
  BY Zenon DEF CallsInv, PlanSafe, StageSafe
<1>3. \A e \in calls : CallSafe(e)'
  BY Zenon DEF CallsInv, CallSafe
<1>4. \A e \in calls' : CallSafe(e)'
  BY <1>1, <1>3, Zenon
<1>5. ASSUME NEW d \in Devices, d # c.dev PROVE DeviceSafe(d)'
  <2>1. \A e : e.dev = d => (e \in calls' <=> e \in calls)
    BY <1>1, <1>5, Zenon
  <2>2. DeviceSafe(d) /\ (d \in exempt'.unsure <=> d \in exempt.unsure)
    BY <1>5, Zenon DEF CallsInv
  <2>3. rec'[d] = rec[d] /\ hw'[d] = hw[d]
    BY <1>5, Zenon
  <2>4. \A m : Told(d, m)' = Told(d, m)
    BY <2>3, Zenon DEF Told
  <2> SUFFICES ASSUME d \notin exempt.unsure PROVE DeviceSafe(d)'
    BY <2>2, Zenon DEF DeviceSafe
  <2>5. \A x, y \in calls' : x.dev = d /\ y.dev = d => x = y
    BY <2>1, <2>2, Zenon DEF DeviceSafe
  <2>6. \A x \in calls' : x.dev = d => x.open
    BY <2>1, <2>2, Zenon DEF DeviceSafe
  <2>7. \A x \in calls' : x.dev = d /\ x.st = "wait" => hw'[d] = rec'[d]
    BY <2>1, <2>2, <2>3, Zenon DEF DeviceSafe
  <2>8. \A x \in calls' : x.dev = d /\ x.st = "sent" => Told(d, x.msg)' = rec'[d]
    <3>1. \A x \in calls : x.dev = d /\ x.st = "sent" => Told(d, x.msg) = rec[d]
      BY <2>2, Zenon DEF DeviceSafe
    <3> QED BY <2>1, <2>3, <2>4, <3>1, ZenonT(60)
  <2>9. (\A x \in calls' : x.dev # d) => hw'[d] = rec'[d]
    BY <2>1, <2>2, <2>3, Zenon DEF DeviceSafe
  <2> QED BY <2>5, <2>6, <2>7, <2>8, <2>9, Zenon DEF DeviceSafe
<1>6. \A d \in Devices : DeviceSafe(d)'
  <2> SUFFICES ASSUME NEW d \in Devices PROVE DeviceSafe(d)'
    OBVIOUS
  <2>1. CASE d = c.dev
    BY <2>1, Zenon DEF DeviceSafe
  <2> QED BY <1>5, <2>1, Zenon
<1> QED BY <1>2, <1>4, <1>6, Zenon DEF CallsInv

\* The response of a call leaves the plan as it is.
LEMMA RespondFields ==
  ASSUME MetersInv, NEW c, NEW ok, Respond(c, ok)
  PROVE  op'.plan = op.plan /\ op'.started = op.started
BY Zenon DEF Respond, MetersInv, OpFields

\* A device becomes unsure.
LEMMA UnsureFields ==
  ASSUME MetersInv, NEW d, Unsure(d)
  PROVE  exempt'.unsure = exempt.unsure \cup {d}
BY Zenon DEF Unsure, MetersInv, ExemptFields

\* A call that is sent, or that nobody waits for any more.
LEMMA ChangedCall ==
  ASSUME NEW c, CallSafe(c), NEW m
  PROVE  LET sent == [c EXCEPT !.st = "sent", !.msg = m]
             closed == [c EXCEPT !.open = FALSE]
             both == [sent EXCEPT !.open = FALSE]
         IN /\ DOMAIN sent = CallFields /\ sent.dev = c.dev /\ sent.do = c.do /\ sent.rules = c.rules
            /\ sent.st = "sent" /\ sent.msg = m /\ sent.open = c.open
            /\ DOMAIN closed = CallFields /\ closed.dev = c.dev /\ closed.do = c.do
            /\ closed.rules = c.rules /\ closed.st = c.st /\ ~closed.open
            /\ DOMAIN both = CallFields /\ both.dev = c.dev /\ both.do = c.do /\ both.rules = c.rules
            /\ both.st = "sent" /\ ~both.open
<1>1. DOMAIN c = CallFields
  BY Zenon DEF CallSafe
<1>2. PICK s : s = [c EXCEPT !.st = "sent", !.msg = m]
  OBVIOUS
<1>3. /\ DOMAIN s = CallFields /\ s.dev = c.dev /\ s.do = c.do /\ s.rules = c.rules
      /\ s.st = "sent" /\ s.msg = m /\ s.open = c.open
  BY <1>1, <1>2, Zenon DEF CallFields
<1>4. PICK e : e = [c EXCEPT !.open = FALSE]
  BY Zenon
<1>5. /\ DOMAIN e = CallFields /\ e.dev = c.dev /\ e.do = c.do
      /\ e.rules = c.rules /\ e.st = c.st /\ ~e.open
  BY <1>1, <1>4, Zenon DEF CallFields
<1>6. PICK b : b = [s EXCEPT !.open = FALSE]
  BY Zenon
<1>7. /\ DOMAIN b = CallFields /\ b.dev = s.dev /\ b.do = s.do
      /\ b.rules = s.rules /\ b.st = s.st /\ ~b.open
  BY <1>3, <1>6, Zenon DEF CallFields
<1>8. /\ DOMAIN b = CallFields /\ b.dev = c.dev /\ b.do = c.do /\ b.rules = c.rules
      /\ b.st = "sent" /\ ~b.open
  BY <1>3, <1>7, Zenon
<1> QED BY <1>2, <1>3, <1>4, <1>5, <1>6, <1>8, Zenon

\* The agent of a device runs a call: what it stores is what the adapter will have.
LEMMA RunCallCalls == ASSUME MetersInv, CallsInv, NEW c \in calls, RunCall(c) PROVE CallsInv'
<1>1. PICK req : req = RequestOf(c)
  OBVIOUS
<1>2. PICK sent : sent = [c EXCEPT !.st = "sent", !.msg = req.msg]
  OBVIOUS
<1>3. c.st = "wait" /\ UNCHANGED hw /\ CallSafe(c) /\ c.dev \in Devices /\ DeviceSafe(c.dev)
  BY Zenon DEF RunCall, CallsInv, CallSafe
<1>4. DOMAIN rec = Devices /\ DOMAIN hw = Devices
  BY Zenon DEF CallsInv
<1>5. \/ Respond(c, TRUE) /\ Replace(c, {}) /\ UNCHANGED <<rec, exempt>>
      \/ /\ rec' = [rec EXCEPT ![c.dev] = req.keep] /\ Replace(c, {sent}) /\ UNCHANGED <<op, exempt>>
      \/ /\ Respond(c, FALSE) /\ Replace(c, {[sent EXCEPT !.open = FALSE]})
         /\ Unsure(c.dev) /\ UNCHANGED rec
      \/ Respond(c, FALSE) /\ Replace(c, {}) /\ UNCHANGED <<rec, exempt>>
  BY <1>1, <1>2, Zenon DEF RunCall
<1>6. /\ DOMAIN sent = CallFields /\ sent.dev = c.dev /\ sent.do = c.do /\ sent.rules = c.rules
      /\ sent.st = "sent" /\ sent.msg = req.msg /\ sent.open = c.open
  BY <1>2, <1>3, ChangedCall
<1>7. c.dev \notin exempt.unsure => hw[c.dev] = rec[c.dev] /\ \A e \in calls : e.dev = c.dev => e = c /\ c.open
  BY <1>3, Zenon DEF DeviceSafe
<1>8. ASSUME NEW ok, Respond(c, ok), Replace(c, {}), UNCHANGED <<rec, exempt>> PROVE CallsInv'
  <2>1. DeviceSafe(c.dev)'
    BY <1>3, <1>7, <1>8, Zenon DEF DeviceSafe, Replace
  <2>2. op'.plan = op.plan /\ op'.started = op.started
    BY <1>8, RespondFields, Zenon
  <2>3. /\ DOMAIN rec' = Devices /\ DOMAIN hw' = Devices
        /\ \A d \in Devices : d # c.dev => rec'[d] = rec[d] /\ hw'[d] = hw[d]
        /\ exempt'.unsure \in {exempt.unsure, exempt.unsure \cup {c.dev}}
    BY <1>3, <1>4, <1>8, Zenon
  <2>4. PICK new : new = {}
    BY Zenon
  <2>5. Replace(c, new) /\ \A e \in new : e.dev = c.dev /\ CallSafe(e)'
    BY <1>8, <2>4, Zenon
  <2> QED BY <2>1, <2>2, <2>3, <2>5, OneDevice, Zenon
<1>9. CASE rec' = [rec EXCEPT ![c.dev] = req.keep] /\ Replace(c, {sent}) /\ UNCHANGED <<op, exempt>>
  <2>1. rec'[c.dev] = req.keep /\ DOMAIN rec' = Devices /\ \A d \in Devices : d # c.dev => rec'[d] = rec[d]
    BY <1>3, <1>4, <1>9, Zenon
  <2>2. CallSafe(sent)'
    BY <1>3, <1>6, <1>9, Zenon DEF CallSafe
  <2>3. c.dev \notin exempt.unsure => Told(c.dev, sent.msg) = req.keep
    BY <1>1, <1>3, <1>6, <1>7, RequestFits, Zenon
  <2>4. Told(c.dev, sent.msg)' = Told(c.dev, sent.msg)
    BY <1>3, Zenon DEF Told
  <2>5. DeviceSafe(c.dev)'
    <3> SUFFICES ASSUME c.dev \notin exempt.unsure PROVE DeviceSafe(c.dev)'
      BY <1>9, Zenon DEF DeviceSafe
    <3>1. \A e \in calls' : e.dev = c.dev => e = sent
      BY <1>7, <1>9, Zenon DEF Replace
    <3>2. sent \in calls' /\ sent.open /\ sent.dev = c.dev /\ sent.st = "sent"
      BY <1>6, <1>7, <1>9, Zenon DEF Replace
    <3>3. Told(c.dev, sent.msg)' = rec'[c.dev]
      BY <2>1, <2>3, <2>4, Zenon
    <3>4. \A x \in calls' : x.dev = c.dev => x.open /\ x.st = "sent" /\ Told(c.dev, x.msg)' = rec'[c.dev]
      BY <3>1, <3>2, <3>3, Zenon
    <3>5. \A x, y \in calls' : x.dev = c.dev /\ y.dev = c.dev => x = y
      BY <3>1, Zenon
    <3> QED BY <3>2, <3>4, <3>5, "sent" # "wait", Zenon DEF DeviceSafe
  <2>6. \A e \in {sent} : e.dev = c.dev /\ CallSafe(e)'
    BY <1>6, <2>2, Zenon
  <2> QED BY <1>3, <1>4, <1>9, <2>1, <2>5, <2>6, OneDevice
<1>10. CASE /\ Respond(c, FALSE) /\ Replace(c, {[sent EXCEPT !.open = FALSE]})
            /\ Unsure(c.dev) /\ UNCHANGED rec
  <2>1. PICK e : e = [sent EXCEPT !.open = FALSE]
    BY Zenon
  <2>2. /\ DOMAIN e = CallFields /\ e.dev = c.dev /\ e.do = c.do /\ e.rules = c.rules
        /\ e.st = "sent" /\ ~e.open
    BY <1>2, <1>3, <2>1, ChangedCall
  <2>3. exempt'.unsure = exempt.unsure \cup {c.dev}
    BY <1>10, UnsureFields, Zenon
  <2>4. CallSafe(e)' /\ DeviceSafe(c.dev)'
    BY <1>3, <2>2, <2>3, Zenon DEF CallSafe, DeviceSafe
  <2>5. \A x \in {e} : x.dev = c.dev /\ CallSafe(x)'
    BY <2>2, <2>4, Zenon
  <2>6. op'.plan = op.plan /\ op'.started = op.started
    BY <1>10, RespondFields, Zenon
  <2>7. Replace(c, {e})
    BY <1>10, <2>1, Zenon
  <2>8. DOMAIN rec' = Devices /\ DOMAIN hw' = Devices /\ \A d \in Devices : rec'[d] = rec[d] /\ hw'[d] = hw[d]
    BY <1>3, <1>4, <1>10, Zenon
  <2> QED BY <2>3, <2>4, <2>5, <2>6, <2>7, <2>8, OneDevice
<1> QED BY <1>5, <1>8, <1>9, <1>10, Zenon

\* An adapter takes a request, and answers or does not.
LEMMA AnswerCalls == ASSUME MetersInv, CallsInv, NEW c \in calls, Answer(c) PROVE CallsInv'
<1>1. c.st = "sent" /\ UNCHANGED rec /\ c.dev \in Devices /\ DeviceSafe(c.dev) /\ Replace(c, {})
  BY Zenon DEF Answer, CallsInv, CallSafe
<1>2. DOMAIN rec = Devices /\ DOMAIN hw = Devices
  BY DEF CallsInv
<1>3. PICK told : told = Told(c.dev, c.msg)
  OBVIOUS
<1>4. \/ hw' = [hw EXCEPT ![c.dev] = told] /\ Respond(c, TRUE) /\ UNCHANGED exempt
      \/ Respond(c, FALSE) /\ Unsure(c.dev) /\ hw' \in {hw, [hw EXCEPT ![c.dev] = told]}
  BY <1>3, Zenon DEF Answer
<1>5. op'.plan = op.plan /\ op'.started = op.started
  BY <1>4, RespondFields, Zenon
<1>6. DOMAIN rec' = Devices /\ DOMAIN hw' = Devices /\ \A d \in Devices : d # c.dev => rec'[d] = rec[d] /\ hw'[d] = hw[d]
  BY <1>1, <1>2, <1>4, Zenon
<1>7. exempt'.unsure \in {exempt.unsure, exempt.unsure \cup {c.dev}} /\ DeviceSafe(c.dev)'
  <2>1. CASE hw' = [hw EXCEPT ![c.dev] = told] /\ UNCHANGED exempt
    <3> SUFFICES ASSUME c.dev \notin exempt.unsure PROVE DeviceSafe(c.dev)'
      BY <2>1, Zenon DEF DeviceSafe
    <3>1. told = rec[c.dev] /\ \A e \in calls : e.dev = c.dev => e = c
      BY <1>1, <1>3, Zenon DEF DeviceSafe
    <3>2. hw'[c.dev] = rec'[c.dev]
      BY <1>1, <1>2, <2>1, <3>1
    <3>3. \A e \in calls' : e.dev # c.dev
      BY <1>1, <3>1, Zenon DEF Replace
    <3> QED BY <3>2, <3>3, Zenon DEF DeviceSafe
  <2>2. CASE Unsure(c.dev)
    BY <2>2, UnsureFields, ZenonT(60) DEF DeviceSafe
  <2> QED BY <1>4, <2>1, <2>2, Zenon
<1>8. PICK new : new = {}
  OBVIOUS
<1>9. Replace(c, new) /\ \A e \in new : e.dev = c.dev /\ CallSafe(e)'
  BY <1>1, <1>8, Zenon
<1> QED BY <1>5, <1>6, <1>7, <1>9, OneDevice, Zenon

\* The agent of a device stops waiting for the adapter.
LEMMA CallTimeoutCalls == ASSUME MetersInv, CallsInv, NEW c \in calls, CallTimeout(c) PROVE CallsInv'
<1>1. PICK e : e = [c EXCEPT !.open = FALSE]
  BY Zenon
<1>2. CallSafe(c) /\ Replace(c, {e}) /\ Respond(c, FALSE) /\ Unsure(c.dev) /\ UNCHANGED <<rec, hw>>
  BY <1>1, Zenon DEF CallTimeout, CallsInv
<1>3. /\ DOMAIN e = CallFields /\ e.dev = c.dev /\ e.do = c.do /\ e.rules = c.rules
      /\ e.st = c.st /\ ~e.open
  BY <1>1, <1>2, ChangedCall, Zenon
<1>4. exempt'.unsure = exempt.unsure \cup {c.dev} /\ op'.plan = op.plan /\ op'.started = op.started
  BY <1>2, UnsureFields, RespondFields, Zenon
<1>5. \A x \in {e} : x.dev = c.dev /\ CallSafe(x)'
  BY <1>2, <1>3, <1>4, Zenon DEF CallSafe
<1>6. DeviceSafe(c.dev)'
  BY <1>4, Zenon DEF DeviceSafe
<1>7. DOMAIN rec' = Devices /\ DOMAIN hw' = Devices /\ \A d \in Devices : rec'[d] = rec[d] /\ hw'[d] = hw[d]
  BY <1>2, Zenon DEF CallsInv
<1> QED BY <1>2, <1>4, <1>5, <1>6, <1>7, OneDevice

\* Every step keeps the calls safe.
LEMMA NextKeepsCalls == ASSUME MetersInv, CallsInv, [Next]_vars PROVE CallsInv'
<1>1. CASE UNCHANGED vars
  BY <1>1, MoreUnsure, Zenon DEF vars, CallsInv, CallSafe
<1>2. CASE UpdateMeterTable \/ UpdateGroupTable \/ UpdateFlowTable
  BY <1>2, OperationsCalls, Zenon
<1>3. CASE UpdateLogicalDeviceWithoutLock
  <2>1. op.plan # << >> /\ Head(op.plan).do = "store" /\ UNCHANGED <<rec, hw, calls>>
    BY <1>3, Zenon DEF UpdateLogicalDeviceWithoutLock
  <2>2. Head(op.plan) = op.plan[1]
    <3>1. PICK p : p = op.plan
      OBVIOUS
    <3>2. Head(p) = p[1]
      BY <2>1, <3>1, TailOfPlan, Zenon DEF MetersInv, PlanBacked
    <3> QED BY <3>1, <3>2, Zenon
  <2>3. ~op.started
    BY <2>1, <2>2, Zenon DEF MetersInv
  <2>4. Open = {}
    BY <2>3, Zenon DEF Open, CallsInv, CallSafe
  <2> QED BY <1>3, <2>1, <2>4, AdvanceCalls, AbortCalls, Zenon DEF UpdateLogicalDeviceWithoutLock
<1>4. CASE StartCalls
  BY <1>4, StartCallsCalls, Zenon
<1>5. CASE Collect
  <2>1. op.plan # << >> /\ Open = {} /\ UNCHANGED <<rec, hw, calls>>
    BY <1>5, Zenon DEF Collect, MetersInv
  <2>2. Abort(Exempt) \/ (Advance /\ UNCHANGED exempt)
    BY <1>5, Zenon DEF Collect
  <2> QED BY <2>1, <2>2, AdvanceCalls, AbortCalls, Zenon
<1>6. CASE Timeout
  <2> DEFINE more == [Exempt EXCEPT !.late = {c.dev : c \in {x \in Open : x.st = "wait"}},
                                    !.unsure = {c.dev : c \in Open}]
  <2>1. Abort(more) /\ calls' = {[c EXCEPT !.open = FALSE] : c \in calls} /\ UNCHANGED <<rec, hw>>
    BY <1>6, Zenon DEF Timeout
  <2>2. more.unsure = {c.dev : c \in Open}
    BY Zenon DEF Exempt
  <2> HIDE DEF more
  <2>3. \A c \in calls : c.open => c.dev \in more.unsure
    BY <2>2, Zenon DEF Open
  <2> QED BY <2>1, <2>3, LeftBehind, Zenon
<1>7. ASSUME NEW c \in calls, RunCall(c) \/ Answer(c) \/ CallTimeout(c) PROVE CallsInv'
  BY <1>7, RunCallCalls, AnswerCalls, CallTimeoutCalls, Zenon
<1>8. CASE Restart
  <2> DEFINE more == [Exempt EXCEPT !.unsure = {c.dev : c \in {x \in calls : x.st = "sent"}}]
  <2>1. Abort(more) /\ UNCHANGED <<rec, hw>>
    BY <1>8, Zenon DEF Restart
  <2>2. more.unsure = {c.dev : c \in {x \in calls : x.st = "sent"}}
    BY Zenon DEF Exempt
  <2> HIDE DEF more
  <2>3. PICK left \in SUBSET {c \in calls : c.st = "sent"} : calls' = {[c EXCEPT !.open = FALSE] : c \in left}
    BY <1>8, Zenon DEF Restart
  <2>4. left \subseteq calls /\ (\A c \in left : c.dev \in more.unsure)
        /\ \A c \in calls \ left : c.st = "sent" => c.dev \in more.unsure
    BY <2>2, Zenon
  <2> QED BY <2>1, <2>3, <2>4, LeftBehind, Zenon
<1> QED BY <1>1, <1>2, <1>3, <1>4, <1>5, <1>6, <1>7, <1>8, SMTT(30) DEF Next

\* An adapter that answered every request has the rules in the record of its device,
\* whether it is sent all of them or the changes: the changes that
\* addFlowsAndGroupsToAdapter and its siblings work out from the record are those that
\* take the adapter from the old record to the new one.
THEOREM AdaptersFollow == Spec => []HardwareFollows
<1> DEFINE IInv == MetersInv /\ CallsInv
<1>1. Init => IInv
  <2> SUFFICES ASSUME Init PROVE IInv
    OBVIOUS
  <2>1. MetersInv
    BY InitMeters, Zenon
  <2>2. op.plan = << >> /\ calls = {} /\ DOMAIN rec = Devices /\ DOMAIN hw = Devices
        /\ \A d \in Devices : hw[d] = rec[d]
    BY Zenon DEF Init, Idle
  <2>3. PlanSafe(<< >>, exempt.unsure)
    BY DEF PlanSafe
  <2> QED BY <2>1, <2>2, <2>3, Zenon DEF CallsInv, DeviceSafe
<1>2. IInv /\ [Next]_vars => IInv'
  BY NextKeepsMeters, NextKeepsCalls, Zenon
<1>3. IInv => HardwareFollows
  BY Zenon DEF HardwareFollows, CallsInv, DeviceSafe
<1> QED BY <1>1, <1>2, <1>3, PTL DEF Spec
=====
