------------------------ MODULE SettlementWorkerProofs ------------------------
(***************************************************************************)
(* The settlement worker, for any number of units, any sizes and limits    *)
(* and any channels closed under it: no unit is in two transactions that   *)
(* may both take effect, and submitters are told the truth.                *)
(***************************************************************************)
EXTENDS SettlementWorker, FiniteSetTheorems, WellFoundedInduction, TLAPS

(***************************************************************************)
(* A unit is in one place at a time: not submitted yet, in the channel, in *)
(* the batch being gathered, or in one group of one flush task.            *)
(***************************************************************************)
Distinct(s) == \A i, j \in 1..Len(s) : s[i] = s[j] => i = j

Members(groups) == {u \in Units : \E i \in 1..Len(groups) : u \in ToSet(groups[i])}

Packed(groups) ==
    /\ groups \in Seq(Seq(Units))
    /\ \A i \in 1..Len(groups) : groups[i] # <<>> /\ Distinct(groups[i])
    /\ \A i, j \in 1..Len(groups) : i # j => ToSet(groups[i]) \cap ToSet(groups[j]) = {}

Gathered == unsent \cup ToSet(queue) \cup ToSet(pending)

ActorInv ==
    /\ unsent \subseteq Units /\ queue \in Seq(Units) /\ pending \in Seq(Units)
    /\ Distinct(queue) /\ Distinct(pending)
    /\ unsent \cap ToSet(queue) = {} /\ unsent \cap ToSet(pending) = {}
    /\ ToSet(queue) \cap ToSet(pending) = {}
    /\ deadline => pending # <<>>

FlushInv ==
    /\ \A f \in flushes :
         /\ f = [groups |-> f.groups, holds |-> f.holds]
         /\ Packed(f.groups) /\ f.groups # <<>>
         /\ Members(f.groups) \cap Gathered = {}
    /\ \A f, g \in flushes : f # g => Members(f.groups) \cap Members(g.groups) = {}

(***************************************************************************)
(* What is still to be sent packed is in no transaction and in no          *)
(* confirmation task, and no two tasks confirm the same unit.              *)
(***************************************************************************)
Fresh(u) == u \in Gathered \/ \E f \in flushes : u \in Members(f.groups)

TaskFits(t) ==
    /\ t = [group |-> t.group, todo |-> t.todo, at |-> t.at]
    /\ t.at \in {"poll", "permit", "send", "alone"}
    /\ t.group \in Seq(Units) /\ t.group # <<>> /\ Distinct(t.group)
    /\ t.todo \in Seq(Units)
    /\ t.at # "poll" => /\ t.todo # <<>> /\ Distinct(t.todo)
                        /\ ToSet(t.todo) \subseteq ToSet(t.group)

TaskInv ==
    /\ \A t \in tasks : TaskFits(t) /\ \A u \in ToSet(t.group) : ~Fresh(u)
    /\ \A s, t \in tasks : s # t => ToSet(s.group) \cap ToSet(t.group) = {}

(***************************************************************************)
(* A group that is polled is in one transaction, and the units a task has  *)
(* still to settle alone are only in transactions that failed.             *)
(***************************************************************************)
Txs == [units : SUBSET Units, alone : BOOLEAN, state : MayApply \cup {"failed"}]

Over(us) == \A x \in txs : x.units \cap us # {} => x.state = "failed"

OneTx(us) == \A x, y \in txs : x.units \cap us # {} /\ y.units \cap us # {} => x = y

Settleable(t) ==
    /\ t.at = "poll" => OneTx(ToSet(t.group))
    /\ t.at \in {"permit", "send"} => Over(ToSet(t.todo))
    /\ t.at = "alone" => Over(ToSet(Tail(t.todo)))

TxInv ==
    /\ txs \subseteq Txs
    /\ \A x \in txs : \A u \in x.units : ~Fresh(u)
    /\ NeverTwoLive
    /\ \A t \in tasks : Settleable(t)

(***************************************************************************)
(* A transaction fails for a unit whose instructions fail, or as a whole   *)
(* when it settles several.                                                *)
(***************************************************************************)
ReplyInv ==
    /\ reply \in [Units -> Replies]
    /\ \A x \in txs : x.state = "failed" => x.units \cap bad # {} \/ Cardinality(x.units) > 1
    /\ AnswersAreTrue

WorkerInv == ActorInv /\ FlushInv /\ TaskInv /\ TxInv /\ ReplyInv

-----------------------------------------------------------------------------
(***************************************************************************)
(* Sequences and the sets of their elements.                               *)
(***************************************************************************)
LEMMA Elements ==
  ASSUME NEW S, NEW s \in Seq(S)
  PROVE  /\ ToSet(s) \subseteq S
         /\ \A u : u \in ToSet(s) <=> \E i \in 1..Len(s) : s[i] = u
BY DEF ToSet

LEMMA EmptyHasNone == ToSet(<<>>) = {} /\ Distinct(<<>>) /\ \A S : <<>> \in Seq(S)
BY DEF ToSet, Distinct

LEMMA OneElement ==
  ASSUME NEW S, NEW u \in S
  PROVE  /\ <<u>> \in Seq(S) /\ <<u>> # <<>> /\ Distinct(<<u>>) /\ ToSet(<<u>>) = {u}
<1> DEFINE s == <<u>>
<1>1. Len(s) = 1 /\ s[1] = u /\ s \in Seq(S) /\ s # <<>>
  OBVIOUS
<1> HIDE DEF s
<1>2. 1..Len(s) = {1}
  BY <1>1
<1>3. \A v : v \in ToSet(s) <=> \E i \in 1..Len(s) : s[i] = v
  BY <1>1, Elements
<1>4. \A v : v \in ToSet(s) <=> v = u
  BY <1>1, <1>2, <1>3
<1>5. QED
  BY <1>1, <1>2, <1>4 DEF Distinct, s

LEMMA Appended ==
  ASSUME NEW S, NEW s \in Seq(S), NEW u \in S
  PROVE  /\ Append(s, u) \in Seq(S) /\ Append(s, u) # <<>>
         /\ ToSet(Append(s, u)) = ToSet(s) \cup {u}
         /\ Distinct(s) /\ u \notin ToSet(s) => Distinct(Append(s, u))
<1> DEFINE a == Append(s, u)
<1>1. /\ a \in Seq(S) /\ Len(a) = Len(s) + 1 /\ a[Len(s) + 1] = u /\ Len(s) \in Nat
      /\ \A i \in 1..Len(s) : a[i] = s[i]
  OBVIOUS
<1>2. \A i : i \in 1..Len(a) <=> i \in 1..Len(s) \/ i = Len(s) + 1
  BY <1>1
<1>3. a # <<>>
  BY <1>1
<1> HIDE DEF a
<1>4. \A v : v \in ToSet(a) <=> v \in ToSet(s) \/ v = u
  BY <1>1, <1>2, Elements
<1>5. ASSUME Distinct(s), u \notin ToSet(s) PROVE Distinct(a)
  <2>1. \A i \in 1..Len(s) : s[i] # u
    BY <1>5, Elements
  <2>2. QED
    BY <1>1, <1>2, <1>5, <2>1 DEF Distinct
<1>6. QED
  BY <1>1, <1>3, <1>4, <1>5 DEF a

LEMMA HeadAndTail ==
  ASSUME NEW S, NEW s \in Seq(S), s # <<>>
  PROVE  /\ Head(s) \in S /\ Tail(s) \in Seq(S) /\ (Len(s) > 1 => Tail(s) # <<>>)
         /\ ToSet(s) = {Head(s)} \cup ToSet(Tail(s))
         /\ Distinct(s) => Distinct(Tail(s)) /\ Head(s) \notin ToSet(Tail(s))
<1> DEFINE r == Tail(s)
<1>1. /\ Len(s) \in Nat /\ Len(s) >= 1 /\ Head(s) = s[1] /\ s[1] \in S
      /\ r \in Seq(S) /\ Len(r) = Len(s) - 1 /\ \A i \in 1..Len(r) : r[i] = s[i + 1]
  OBVIOUS
<1>2. Len(s) > 1 => r # <<>>
  BY <1>1
<1> HIDE DEF r
<1>3. /\ 1 \in 1..Len(s) /\ \A i \in 1..Len(r) : i + 1 \in 1..Len(s) /\ i + 1 # 1
      /\ \A i \in 1..Len(s) : i = 1 \/ (i - 1 \in 1..Len(r) /\ r[i - 1] = s[i])
  BY <1>1
<1>4. \A v : v \in ToSet(s) <=> v = Head(s) \/ v \in ToSet(r)
  BY <1>1, <1>3, Elements
<1>5. ASSUME Distinct(s) PROVE Distinct(r) /\ Head(s) \notin ToSet(r)
  <2>1. Distinct(r)
    <3>1. SUFFICES ASSUME NEW i \in 1..Len(r), NEW j \in 1..Len(r), r[i] = r[j] PROVE i = j
      BY DEF Distinct
    <3>2. s[i + 1] = s[j + 1] /\ i + 1 \in 1..Len(s) /\ j + 1 \in 1..Len(s)
      BY <1>1, <1>3, <3>1
    <3>3. i + 1 = j + 1
      BY <1>5, <3>2 DEF Distinct
    <3>4. QED
      BY <3>3
  <2>2. \A i \in 1..Len(r) : r[i] # Head(s)
    BY <1>1, <1>3, <1>5 DEF Distinct
  <2>3. QED
    BY <1>1, <2>1, <2>2, Elements
<1>6. QED
  BY <1>1, <1>2, <1>4, <1>5 DEF r

LEMMA Joined ==
  ASSUME NEW S, NEW s \in Seq(S), NEW r \in Seq(S), Distinct(s), Distinct(r),
         ToSet(s) \cap ToSet(r) = {}
  PROVE  s \o r \in Seq(S) /\ Distinct(s \o r) /\ ToSet(s \o r) = ToSet(s) \cup ToSet(r)
<1> DEFINE c == s \o r
<1>1. /\ c \in Seq(S) /\ Len(s) \in Nat /\ Len(r) \in Nat /\ Len(c) = Len(s) + Len(r)
      /\ \A i \in 1..Len(c) : c[i] = IF i <= Len(s) THEN s[i] ELSE r[i - Len(s)]
  OBVIOUS
<1> HIDE DEF c
<1>2. \A i \in 1..Len(c) : \/ i \in 1..Len(s) /\ c[i] = s[i]
                           \/ i > Len(s) /\ i - Len(s) \in 1..Len(r) /\ c[i] = r[i - Len(s)]
  BY <1>1
<1>3. \A i \in 1..Len(s) : i \in 1..Len(c) /\ c[i] = s[i]
  BY <1>1
<1>s. ASSUME NEW i \in 1..Len(r) PROVE i + Len(s) \in 1..Len(c) /\ c[i + Len(s)] = r[i]
  <2>1. i + Len(s) \in 1..Len(c) /\ ~(i + Len(s) <= Len(s)) /\ (i + Len(s)) - Len(s) = i
    BY <1>1
  <2>2. QED
    BY <1>1, <2>1
<1>t. /\ \A v : v \in ToSet(c) <=> \E i \in 1..Len(c) : c[i] = v
      /\ \A v : v \in ToSet(s) <=> \E i \in 1..Len(s) : s[i] = v
      /\ \A v : v \in ToSet(r) <=> \E i \in 1..Len(r) : r[i] = v
  BY <1>1, Elements
<1>4. \A v : v \in ToSet(c) <=> v \in ToSet(s) \/ v \in ToSet(r)
  <2>1. \A v : v \in ToSet(s) => v \in ToSet(c)
    BY <1>t, <1>3
  <2>2. \A v : v \in ToSet(r) => v \in ToSet(c)
    BY <1>t, <1>s
  <2>3. \A v : v \in ToSet(c) => v \in ToSet(s) \/ v \in ToSet(r)
    BY <1>t, <1>2
  <2>4. QED
    BY <2>1, <2>2, <2>3
<1>5. \A i \in 1..Len(s), j \in 1..Len(r) : s[i] # r[j]
  BY Elements
<1>6. Distinct(c)
  <2>1. SUFFICES ASSUME NEW i \in 1..Len(c), NEW j \in 1..Len(c), c[i] = c[j] PROVE i = j
    BY DEF Distinct
  <2>2. CASE i \in 1..Len(s) /\ j \in 1..Len(s)
    BY <1>3, <2>1, <2>2 DEF Distinct
  <2>3. CASE /\ i - Len(s) \in 1..Len(r) /\ c[i] = r[i - Len(s)]
             /\ j - Len(s) \in 1..Len(r) /\ c[j] = r[j - Len(s)]
    <3>1. i - Len(s) = j - Len(s)
      BY <2>1, <2>3 DEF Distinct
    <3>2. QED
      BY <1>1, <3>1
  <2>4. QED
    BY <1>2, <1>5, <2>1, <2>2, <2>3
<1>7. QED
  BY <1>1, <1>4, <1>6 DEF c

(***************************************************************************)
(* Induction over the natural numbers, from their well-foundedness: a set  *)
(* of numbers has a least one, and one that is closed under successor is   *)
(* all of them.                                                            *)
(***************************************************************************)
LEMMA Least ==
  ASSUME NEW T \in SUBSET Nat, NEW n \in T
  PROVE  \E m \in T : \A k \in T : m <= k
<1> DEFINE R == OpToRel(<, Nat)
<1>1. IsWellFoundedOn(R, Nat)
  BY NatLessThanWellFounded, Zenon
<1>3. \A x, y \in Nat : <<y, x>> \in R <=> y < x
  BY DEF OpToRel
<1> HIDE DEF R
<1>2. \E x \in T : \A y \in T : ~ (<<y, x>> \in R)
  BY <1>1, WFMin, Zenon
<1>4. PICK x \in T : \A y \in T : ~ (<<y, x>> \in R)
  BY <1>2, Zenon
<1>5. \A y \in T : ~ (y < x)
  BY <1>3, <1>4, Zenon
<1>6. \A y \in T : x <= y
  BY <1>5
<1>7. QED
  BY <1>6

LEMMA Induct ==
  ASSUME NEW T \in SUBSET Nat, 0 \in T, \A n \in T : n + 1 \in T
  PROVE  T = Nat
<1>1. SUFFICES ASSUME T # Nat PROVE FALSE
  OBVIOUS
<1>2. PICK n \in Nat \ T : TRUE
  BY <1>1
<1>3. PICK m \in Nat \ T : \A k \in Nat \ T : m <= k
  BY Least
<1>4. m # 0 /\ m - 1 \in Nat
  BY <1>3
<1>5. m - 1 \in T
  BY <1>3, <1>4
<1>6. QED
  BY <1>3, <1>4, <1>5

-----------------------------------------------------------------------------
(***************************************************************************)
(* The units of a group that wait for an answer, and those that do not,    *)
(* keep their order and share nothing.                                     *)
(***************************************************************************)
LEMMA AmongKeeps ==
  ASSUME NEW group \in Seq(Units), Distinct(group), NEW us
  PROVE  /\ Among(group, us) \in Seq(Units) /\ Distinct(Among(group, us))
         /\ ToSet(Among(group, us)) = ToSet(group) \cap us
<1> DEFINE runs(g, n) == g = [l \in 0..n |->
                                IF l = 0 THEN <<>>
                                ELSE IF group[l] \in us THEN Append(g[l - 1], group[l])
                                     ELSE g[l - 1]]
           kept == CHOOSE g : runs(g, Len(group))
<1>u. Len(group) \in Nat /\ \A l \in 1..Len(group) : group[l] \in Units
  OBVIOUS
<1>w. Among(group, us) = kept[Len(group)]
  BY DEF Among
<1> HIDE DEF kept
<1>1. \E g : runs(g, Len(group))
  <2> DEFINE T == {n \in Nat : \E g : runs(g, n)}
  <2>1. 0 \in T
    <3> DEFINE g == [l \in 0..0 |-> <<>>]
    <3>1. runs(g, 0)
      OBVIOUS
    <3>2. QED
      BY <3>1
  <2>2. ASSUME NEW n \in T PROVE n + 1 \in T
    <3>1. PICK g : runs(g, n)
      OBVIOUS
    <3>0. /\ n \in Nat /\ \A l \in 0..n : l \in 0..(n + 1)
          /\ \A l \in 0..(n + 1) : l # 0 => l - 1 \in 0..n
      OBVIOUS
    <3> DEFINE h == [l \in 0..(n + 1) |->
                       IF l = 0 THEN <<>>
                       ELSE IF group[l] \in us THEN Append(g[l - 1], group[l]) ELSE g[l - 1]]
    <3>2. \A l \in 0..n : h[l] = g[l]
      BY <3>0, <3>1
    <3>3. \A l \in 0..(n + 1) : l # 0 => h[l - 1] = g[l - 1]
      BY <3>0, <3>2
    <3>4. runs(h, n + 1)
      BY <3>3
    <3>5. \E f : runs(f, n + 1)
      <4> HIDE DEF h, runs
      <4>1. QED
        BY <3>4, Zenon
    <3>6. n + 1 \in Nat
      OBVIOUS
    <3> HIDE DEF runs
    <3>7. QED
      BY <3>5, <3>6
  <2> HIDE DEF runs
  <2>3. T = Nat
    <3>1. T \in SUBSET Nat
      OBVIOUS
    <3> HIDE DEF T
    <3>2. QED
      BY <2>1, <2>2, <3>1, Induct
  <2>4. QED
    BY <1>u, <2>3
<1>2. runs(kept, Len(group))
  BY <1>1, Zenon DEF kept
<1> DEFINE good(s, n) ==
             /\ s \in Seq(Units) /\ Distinct(s)
             /\ \A u : u \in ToSet(s) <=> u \in us /\ \E m \in 1..n : group[m] = u
<1>3. kept[0] = <<>> /\ good(<<>>, 0)
  BY <1>2, <1>u, EmptyHasNone
<1>4. ASSUME NEW n \in Nat, n + 1 <= Len(group), NEW s, good(s, n)
      PROVE  /\ group[n + 1] \notin us => good(s, n + 1)
             /\ group[n + 1] \in us => good(Append(s, group[n + 1]), n + 1)
  <2>1. n + 1 \in 1..Len(group) /\ group[n + 1] \in Units
    BY <1>u, <1>4
  <2>2. \A m \in 1..n : group[m] # group[n + 1]
    <3>1. \A m \in 1..n : m \in 1..Len(group) /\ m # n + 1
      BY <1>4, <1>u
    <3>2. QED
      BY <2>1, <3>1 DEF Distinct
  <2>3. \A u : (\E m \in 1..(n + 1) : group[m] = u)
                 <=> (\E m \in 1..n : group[m] = u) \/ u = group[n + 1]
    <3>1. /\ n + 1 \in 1..(n + 1) /\ \A m \in 1..n : m \in 1..(n + 1)
          /\ \A m \in 1..(n + 1) : m \in 1..n \/ m = n + 1
      OBVIOUS
    <3>2. QED
      BY <3>1
  <2>4. CASE group[n + 1] \notin us
    BY <1>4, <2>3, <2>4
  <2>5. CASE group[n + 1] \in us
    <3> DEFINE u == group[n + 1]  a == Append(s, u)
    <3>1. u \notin ToSet(s) /\ u \in Units /\ s \in Seq(Units) /\ Distinct(s)
      BY <1>4, <2>1, <2>2
    <3> HIDE DEF u
    <3>2. a \in Seq(Units) /\ ToSet(a) = ToSet(s) \cup {u} /\ Distinct(a)
      BY <3>1, Appended
    <3> HIDE DEF a
    <3>3. good(a, n + 1)
      BY <1>4, <2>3, <2>5, <3>2 DEF u
    <3>4. QED
      BY <2>5, <3>3 DEF a, u
  <2>6. QED
    BY <2>4, <2>5
<1>5. \A n \in Nat : n <= Len(group) => good(kept[n], n)
  <2> DEFINE T == {n \in Nat : n <= Len(group) => good(kept[n], n)}
  <2> HIDE DEF good
  <2>1. 0 \in T
    BY <1>3
  <2>2. ASSUME NEW n \in T PROVE n + 1 \in T
    <3>1. SUFFICES ASSUME n + 1 <= Len(group) PROVE good(kept[n + 1], n + 1)
      OBVIOUS
    <3>2. n \in Nat /\ good(kept[n], n)
      BY <1>u, <3>1
    <3>3. kept[n + 1] = IF group[n + 1] \in us THEN Append(kept[n], group[n + 1]) ELSE kept[n]
      <4>1. n + 1 \in 0..Len(group) /\ n + 1 # 0 /\ (n + 1) - 1 = n
        BY <1>u, <3>1, <3>2
      <4>2. QED
        BY <1>2, <4>1
    <3>4. QED
      BY <1>4, <3>1, <3>2, <3>3
  <2>3. T = Nat
    <3>1. T \in SUBSET Nat
      OBVIOUS
    <3> HIDE DEF T
    <3>2. QED
      BY <2>1, <2>2, <3>1, Induct
  <2>4. QED
    BY <2>3
<1>6. good(kept[Len(group)], Len(group))
  BY <1>5, <1>u
<1>7. \A u : u \in ToSet(Among(group, us)) <=> u \in us /\ u \in ToSet(group)
  BY <1>6, <1>w, Elements
<1>8. QED
  BY <1>6, <1>7, <1>w

(***************************************************************************)
(* Settling a group alone takes each of its units once.                    *)
(***************************************************************************)
LEMMA InTurnKeeps ==
  ASSUME NEW group \in Seq(Units), Distinct(group), group # <<>>
  PROVE  /\ InTurn(group) \in Seq(Units) /\ Distinct(InTurn(group)) /\ InTurn(group) # <<>>
         /\ ToSet(InTurn(group)) = ToSet(group)
<1> DEFINE a == Among(group, awaits)  b == Among(group, Units \ awaits)
<1>1. /\ a \in Seq(Units) /\ Distinct(a) /\ ToSet(a) = ToSet(group) \cap awaits
      /\ b \in Seq(Units) /\ Distinct(b) /\ ToSet(b) = ToSet(group) \cap (Units \ awaits)
  BY AmongKeeps
<1>2. InTurn(group) = a \o b
  BY DEF InTurn
<1> HIDE DEF a, b
<1>3. a \o b \in Seq(Units) /\ Distinct(a \o b) /\ ToSet(a \o b) = ToSet(a) \cup ToSet(b)
  BY <1>1, Joined
<1>4. ToSet(group) \subseteq Units /\ Head(group) \in ToSet(group)
  BY Elements, HeadAndTail
<1>5. ToSet(a \o b) = ToSet(group)
  BY <1>1, <1>3, <1>4
<1>6. a \o b # <<>>
  BY <1>4, <1>5, EmptyHasNone
<1>7. QED
  BY <1>2, <1>3, <1>5, <1>6

-----------------------------------------------------------------------------
(***************************************************************************)
(* Packing.  A group that shares no unit with the others is added to them. *)
(***************************************************************************)
LEMMA Member ==
  ASSUME NEW gs \in Seq(Seq(Units)), NEW u
  PROVE  u \in Members(gs) <=> \E i \in 1..Len(gs) : u \in ToSet(gs[i])
<1>1. \A i \in 1..Len(gs) : gs[i] \in Seq(Units)
  OBVIOUS
<1>2. \A i \in 1..Len(gs) : ToSet(gs[i]) \subseteq Units
  BY <1>1, Elements
<1>3. QED
  BY <1>2 DEF Members

LEMMA PackAppend ==
  ASSUME NEW gs, Packed(gs), NEW g \in Seq(Units), g # <<>>, Distinct(g),
         Members(gs) \cap ToSet(g) = {}
  PROVE  /\ Packed(Append(gs, g)) /\ Append(gs, g) # <<>>
         /\ Members(Append(gs, g)) = Members(gs) \cup ToSet(g)
<1> DEFINE a == Append(gs, g)
<1>0. gs \in Seq(Seq(Units))
  BY DEF Packed
<1>1. /\ a \in Seq(Seq(Units)) /\ Len(a) = Len(gs) + 1 /\ a[Len(gs) + 1] = g
      /\ Len(gs) \in Nat /\ \A i \in 1..Len(gs) : a[i] = gs[i]
  <2> DEFINE S == Seq(Units)
  <2>1. gs \in Seq(S) /\ g \in S
    BY <1>0
  <2> HIDE DEF S
  <2>2. a \in Seq(S)
    BY <2>1
  <2>3. QED
    BY <2>1, <2>2 DEF S
<1> HIDE DEF a
<1>2. a # <<>>
  BY <1>1
<1>3. \A i : i \in 1..Len(a) <=> i \in 1..Len(gs) \/ i = Len(gs) + 1
  BY <1>1
<1>4. \A u : u \in Members(a) <=> u \in Members(gs) \/ u \in ToSet(g)
  <2>1. \A u : /\ u \in Members(a) <=> \E i \in 1..Len(a) : u \in ToSet(a[i])
               /\ u \in Members(gs) <=> \E i \in 1..Len(gs) : u \in ToSet(gs[i])
    BY <1>0, <1>1, Member
  <2>2. QED
    BY <1>1, <1>3, <2>1
<1>5. \A i \in 1..Len(a) : a[i] # <<>> /\ Distinct(a[i])
  BY <1>1, <1>3 DEF Packed
<1>6. \A i \in 1..Len(gs) : ToSet(gs[i]) \cap ToSet(g) = {}
  BY <1>0, Member
<1>7. \A i, j \in 1..Len(a) : i # j => ToSet(a[i]) \cap ToSet(a[j]) = {}
  BY <1>1, <1>3, <1>6 DEF Packed
<1>8. Packed(a)
  BY <1>1, <1>5, <1>7 DEF Packed
<1>9. QED
  BY <1>2, <1>4, <1>8 DEF a

(***************************************************************************)
(* What regroup has packed of the first n units.                           *)
(***************************************************************************)
PackedSoFar(acc, units, n) ==
    /\ Packed(acc.out)
    /\ acc.cur \in Seq(Units) /\ Distinct(acc.cur)
    /\ Members(acc.out) \cap ToSet(acc.cur) = {}
    /\ \A u : u \in Members(acc.out) \cup ToSet(acc.cur)
                => \E m \in 1..n : units[m] = u
    /\ n > 0 => acc.cur # <<>>

LEMMA PlaceKeeps ==
  ASSUME NEW units \in Seq(Units), Distinct(units), NEW n \in Nat, n + 1 <= Len(units),
         NEW acc, PackedSoFar(acc, units, n)
  PROVE  PackedSoFar(Place(acc, units[n + 1]), units, n + 1)
<1> DEFINE u == units[n + 1]
<1>1. n + 1 \in 1..Len(units) /\ u \in Units
  OBVIOUS
<1>2. \A m \in 1..n : units[m] # u
  <2>1. \A m \in 1..n : m \in 1..Len(units) /\ m # n + 1
    OBVIOUS
  <2>2. QED
    BY <1>1, <2>1 DEF Distinct
<1>3. n + 1 > 0 /\ n + 1 \in 1..(n + 1) /\ \A m \in 1..n : m \in 1..(n + 1)
  OBVIOUS
<1>4. units[n + 1] = u
  OBVIOUS
<1> HIDE DEF u
<1>5. u \notin Members(acc.out) /\ u \notin ToSet(acc.cur)
  BY <1>2 DEF PackedSoFar
<1>6. CASE acc.cur # <<>> /\ WouldOverflow(acc.cur, u)
  <2>1. Place(acc, u).out = Append(acc.out, acc.cur) /\ Place(acc, u).cur = <<u>>
    BY <1>6 DEF Place
  <2>2. /\ Packed(Append(acc.out, acc.cur))
        /\ Members(Append(acc.out, acc.cur)) = Members(acc.out) \cup ToSet(acc.cur)
    BY <1>6, PackAppend DEF PackedSoFar
  <2>3. <<u>> \in Seq(Units) /\ <<u>> # <<>> /\ Distinct(<<u>>) /\ ToSet(<<u>>) = {u}
    BY <1>1, OneElement
  <2>4. QED
    BY <1>3, <1>4, <1>5, <2>1, <2>2, <2>3 DEF PackedSoFar
<1>7. CASE ~(acc.cur # <<>> /\ WouldOverflow(acc.cur, u))
  <2>1. Place(acc, u).out = acc.out /\ Place(acc, u).cur = Append(acc.cur, u)
    BY <1>7 DEF Place
  <2>2. /\ Append(acc.cur, u) \in Seq(Units) /\ Append(acc.cur, u) # <<>>
        /\ Distinct(Append(acc.cur, u)) /\ ToSet(Append(acc.cur, u)) = ToSet(acc.cur) \cup {u}
    BY <1>1, <1>5, Appended DEF PackedSoFar
  <2>3. QED
    BY <1>3, <1>4, <1>5, <2>1, <2>2 DEF PackedSoFar
<1>8. QED
  BY <1>4, <1>6, <1>7

(***************************************************************************)
(* regroup packs distinct units into groups that share none.               *)
(***************************************************************************)
LEMMA RegroupPacks ==
  ASSUME NEW units \in Seq(Units), Distinct(units), units # <<>>
  PROVE  /\ Packed(Regroup(units)) /\ Regroup(units) # <<>>
         /\ Members(Regroup(units)) \subseteq ToSet(units)
<1> DEFINE base == [out |-> <<>>, cur |-> <<>>]
           runs(g, n) == g = [l \in 0..n |->
                                IF l = 0 THEN base ELSE Place(g[l - 1], units[l])]
           packed == CHOOSE g : runs(g, Len(units))
           last == packed[Len(units)]
<1>u. Len(units) \in Nat /\ Len(units) > 0
  OBVIOUS
<1>w. Regroup(units) = IF last.cur = <<>> THEN last.out ELSE Append(last.out, last.cur)
  BY DEF Regroup
<1>b. PackedSoFar(base, units, 0)
  <2>1. base.out = <<>> /\ base.cur = <<>> /\ Len(<<>>) = 0 /\ <<>> \in Seq(Seq(Units))
    OBVIOUS
  <2>2. 1..Len(<<>>) = {} /\ Members(<<>>) = {}
    BY <2>1 DEF Members
  <2>3. QED
    BY <2>1, <2>2, EmptyHasNone DEF PackedSoFar, Packed
<1> HIDE DEF base, packed
<1>1. \E g : runs(g, Len(units))
  <2> DEFINE T == {n \in Nat : \E g : runs(g, n)}
  <2>1. 0 \in T
    <3> DEFINE g == [l \in 0..0 |-> base]
    <3>1. runs(g, 0)
      OBVIOUS
    <3>2. QED
      BY <3>1
  <2>2. ASSUME NEW n \in T PROVE n + 1 \in T
    <3>1. PICK g : runs(g, n)
      OBVIOUS
    <3>0. /\ n \in Nat /\ \A l \in 0..n : l \in 0..(n + 1)
          /\ \A l \in 0..(n + 1) : l # 0 => l - 1 \in 0..n
      OBVIOUS
    <3> DEFINE h == [l \in 0..(n + 1) |->
                       IF l = 0 THEN base ELSE Place(g[l - 1], units[l])]
    <3>2. \A l \in 0..n : h[l] = g[l]
      BY <3>0, <3>1
    <3>3. \A l \in 0..(n + 1) : l # 0 => h[l - 1] = g[l - 1]
      BY <3>0, <3>2
    <3>4. runs(h, n + 1)
      BY <3>3
    <3>5. \E f : runs(f, n + 1)
      <4> HIDE DEF h, runs
      <4>1. QED
        BY <3>4, Zenon
    <3>6. n + 1 \in Nat
      OBVIOUS
    <3> HIDE DEF runs
    <3>7. QED
      BY <3>5, <3>6
  <2> HIDE DEF runs
  <2>3. T = Nat
    <3>1. T \in SUBSET Nat
      OBVIOUS
    <3> HIDE DEF T
    <3>2. QED
      BY <2>1, <2>2, <3>1, Induct
  <2>4. QED
    BY <1>u, <2>3
<1>2. runs(packed, Len(units))
  BY <1>1, Zenon DEF packed
<1>3. \A n \in Nat : n <= Len(units) => PackedSoFar(packed[n], units, n)
  <2> DEFINE T == {n \in Nat : n <= Len(units) => PackedSoFar(packed[n], units, n)}
  <2>1. 0 \in T
    <3>1. packed[0] = base
      BY <1>2, <1>u
    <3>2. QED
      BY <1>b, <3>1
  <2>2. ASSUME NEW n \in T PROVE n + 1 \in T
    <3>1. SUFFICES ASSUME n + 1 <= Len(units)
                   PROVE  PackedSoFar(packed[n + 1], units, n + 1)
      OBVIOUS
    <3>2. n \in Nat /\ PackedSoFar(packed[n], units, n)
      BY <1>u, <3>1
    <3>3. packed[n + 1] = Place(packed[n], units[n + 1])
      <4>1. n + 1 \in 0..Len(units) /\ n + 1 # 0 /\ (n + 1) - 1 = n
        BY <1>u, <3>1, <3>2
      <4>2. QED
        BY <1>2, <4>1
    <3>4. QED
      BY <3>1, <3>2, <3>3, PlaceKeeps
  <2>3. T = Nat
    <3>1. T \in SUBSET Nat
      OBVIOUS
    <3> HIDE DEF T
    <3>2. QED
      BY <2>1, <2>2, <3>1, Induct
  <2>4. QED
    BY <2>3
<1>4. PackedSoFar(last, units, Len(units))
  BY <1>3, <1>u
<1> HIDE DEF last
<1>5. last.cur # <<>> /\ Regroup(units) = Append(last.out, last.cur)
  BY <1>4, <1>u, <1>w DEF PackedSoFar
<1>6. /\ Packed(Regroup(units)) /\ Regroup(units) # <<>>
      /\ Members(Regroup(units)) = Members(last.out) \cup ToSet(last.cur)
  BY <1>4, <1>5, PackAppend DEF PackedSoFar
<1>7. QED
  BY <1>4, <1>6, Elements DEF PackedSoFar

-----------------------------------------------------------------------------
(***************************************************************************)
(* Nothing becomes fresh again, so what is not touched keeps its part.     *)
(***************************************************************************)
NothingFreshened == \A u : Fresh(u)' => Fresh(u)

LEMMA TasksRest ==
  ASSUME TaskInv, UNCHANGED tasks, NothingFreshened
  PROVE  TaskInv'
BY DEF TaskInv, NothingFreshened

LEMMA TxsRest ==
  ASSUME TxInv, UNCHANGED <<tasks, txs>>, NothingFreshened
  PROVE  TxInv'
<1>1. \A t : Settleable(t)' <=> Settleable(t)
  BY DEF Settleable, Over, OneTx
<1>2. NeverTwoLive'
  BY DEF TxInv, NeverTwoLive
<1>3. \A x \in txs : \A u \in x.units : ~Fresh(u)'
  BY DEF TxInv, NothingFreshened
<1>4. QED
  BY <1>1, <1>2, <1>3 DEF TxInv

LEMMA RepliesRest ==
  ASSUME ReplyInv, UNCHANGED <<txs, reply, bad>>
  PROVE  ReplyInv'
BY DEF ReplyInv, AnswersAreTrue

(***************************************************************************)
(* A flush takes over the batch.                                           *)
(***************************************************************************)
LEMMA Spawns ==
  ASSUME FlushInv, NEW batch \in Seq(Units), Distinct(batch), batch # <<>>,
         ToSet(batch) \subseteq Gathered, SpawnFlush(batch),
         Gathered' \subseteq Gathered, Gathered' \cap ToSet(batch) = {}
  PROVE  FlushInv' /\ NothingFreshened
<1> DEFINE gs == Regroup(batch)
<1>1. Packed(gs) /\ gs # <<>> /\ Members(gs) \subseteq ToSet(batch)
  BY RegroupPacks
<1> DEFINE f == [groups |-> gs, holds |-> FALSE]
<1>2. flushes' = flushes \cup {f} /\ f.groups = gs /\ f = [groups |-> f.groups, holds |-> f.holds]
  BY DEF SpawnFlush
<1> HIDE DEF gs, f
<1>3. \A g \in flushes : Members(g.groups) \cap Members(gs) = {}
  BY <1>1 DEF FlushInv
<1>4. FlushInv'
  <2>1. \A g \in flushes' :
          /\ g = [groups |-> g.groups, holds |-> g.holds]
          /\ Packed(g.groups) /\ g.groups # <<>> /\ Members(g.groups) \cap Gathered' = {}
    BY <1>1, <1>2 DEF FlushInv
  <2>2. \A g, h \in flushes' : g # h => Members(g.groups) \cap Members(h.groups) = {}
    BY <1>2, <1>3 DEF FlushInv
  <2>3. QED
    BY <2>1, <2>2 DEF FlushInv
<1>5. NothingFreshened
  BY <1>1, <1>2 DEF NothingFreshened, Fresh
<1>6. QED
  BY <1>4, <1>5

LEMMA FlushesRest ==
  ASSUME FlushInv, UNCHANGED flushes, Gathered' \subseteq Gathered
  PROVE  FlushInv' /\ NothingFreshened
BY DEF FlushInv, NothingFreshened, Fresh

(***************************************************************************)
(* The actor's steps.                                                      *)
(***************************************************************************)
LEMMA SubmitKeeps ==
  ASSUME ActorInv, FlushInv, NEW u \in Units, Submit(u)
  PROVE  ActorInv' /\ FlushInv' /\ NothingFreshened
<1>1. /\ queue \in Seq(Units) /\ u \in unsent /\ unsent' = unsent \ {u}
      /\ queue' = Append(queue, u) /\ UNCHANGED <<pending, deadline, flushes>>
  BY DEF ActorInv, Submit
<1>2. u \notin ToSet(queue) /\ u \notin ToSet(pending)
  BY <1>1 DEF ActorInv
<1>3. /\ queue' \in Seq(Units) /\ ToSet(queue') = ToSet(queue) \cup {u} /\ Distinct(queue')
  BY <1>1, <1>2, Appended DEF ActorInv
<1>4. ActorInv'
  BY <1>1, <1>2, <1>3 DEF ActorInv
<1>5. Gathered' \subseteq Gathered
  BY <1>1, <1>3 DEF Gathered
<1>6. QED
  BY <1>1, <1>4, <1>5, FlushesRest

LEMMA ReceiveKeeps ==
  ASSUME ActorInv, FlushInv, Receive
  PROVE  ActorInv' /\ FlushInv' /\ NothingFreshened
<1> DEFINE u == Head(queue)  batch == Append(pending, u)
<1>1. queue \in Seq(Units) /\ queue # <<>> /\ queue' = Tail(queue) /\ UNCHANGED unsent
  BY DEF ActorInv, Receive
<1>2. /\ u \in Units /\ queue' \in Seq(Units) /\ ToSet(queue) = {u} \cup ToSet(queue')
      /\ Distinct(queue') /\ u \notin ToSet(queue')
  BY <1>1, HeadAndTail DEF ActorInv
<1>3. \/ SpawnFlush(batch) /\ pending' = <<>> /\ deadline' = FALSE
      \/ pending' = batch /\ UNCHANGED flushes
  BY DEF Receive
<1> HIDE DEF u
<1>4. pending \in Seq(Units) /\ u \notin ToSet(pending) /\ Distinct(pending)
  BY <1>2 DEF ActorInv
<1>5. /\ batch \in Seq(Units) /\ batch # <<>> /\ ToSet(batch) = ToSet(pending) \cup {u}
      /\ Distinct(batch)
  BY <1>2, <1>4, Appended
<1> HIDE DEF batch
<1>6. CASE SpawnFlush(batch) /\ pending' = <<>> /\ deadline' = FALSE
  <2>1. ToSet(pending') = {} /\ Distinct(pending') /\ pending' \in Seq(Units)
    BY <1>6, EmptyHasNone
  <2>2. ActorInv'
    BY <1>1, <1>2, <1>6, <2>1 DEF ActorInv
  <2>3. Gathered' \subseteq Gathered /\ ToSet(batch) \subseteq Gathered
    BY <1>1, <1>2, <1>5, <2>1 DEF Gathered
  <2>4. Gathered' \cap ToSet(batch) = {}
    BY <1>1, <1>2, <1>5, <2>1 DEF Gathered, ActorInv
  <2>5. QED
    BY <1>5, <1>6, <2>2, <2>3, <2>4, Spawns
<1>7. CASE pending' = batch /\ UNCHANGED flushes
  <2>1. ActorInv'
    BY <1>1, <1>2, <1>5, <1>7 DEF ActorInv
  <2>2. Gathered' \subseteq Gathered
    BY <1>1, <1>2, <1>5, <1>7 DEF Gathered
  <2>3. QED
    BY <1>7, <2>1, <2>2, FlushesRest
<1>8. QED
  BY <1>3, <1>6, <1>7

LEMMA FlushPendingKeeps ==
  ASSUME ActorInv, FlushInv, pending # <<>>, SpawnFlush(pending), pending' = <<>>,
         deadline' = FALSE, UNCHANGED <<unsent, queue>>
  PROVE  ActorInv' /\ FlushInv' /\ NothingFreshened
<1>1. ToSet(pending') = {} /\ Distinct(pending') /\ pending' \in Seq(Units)
  BY EmptyHasNone
<1>2. ActorInv'
  BY <1>1 DEF ActorInv
<1>3. Gathered' \subseteq Gathered /\ ToSet(pending) \subseteq Gathered
  BY <1>1 DEF Gathered
<1>4. Gathered' \cap ToSet(pending) = {}
  BY <1>1 DEF Gathered, ActorInv
<1>5. QED
  BY <1>2, <1>3, <1>4, Spawns DEF ActorInv

LEMMA ActorKeeps ==
  ASSUME ActorInv, FlushInv, Linger \/ Drain \/ DropHandles
  PROVE  ActorInv' /\ FlushInv' /\ NothingFreshened
<1>1. CASE Linger
  BY <1>1, FlushPendingKeeps DEF Linger, ActorInv
<1>2. CASE Drain /\ pending # <<>>
  BY <1>2, FlushPendingKeeps DEF Drain
<1>3. CASE \/ Drain /\ pending = <<>>
           \/ DropHandles
  <2>1. UNCHANGED <<unsent, queue, pending, flushes>> /\ (deadline' => deadline)
    BY <1>3 DEF Drain, DropHandles
  <2>2. ActorInv' /\ Gathered' \subseteq Gathered
    BY <2>1 DEF ActorInv, Gathered
  <2>3. QED
    BY <2>1, <2>2, FlushesRest
<1>4. QED
  BY <1>1, <1>2, <1>3

-----------------------------------------------------------------------------
(***************************************************************************)
(* A flush task gives its first group away and keeps the others.           *)
(***************************************************************************)
LEMMA PackTail ==
  ASSUME NEW gs, Packed(gs), gs # <<>>
  PROVE  /\ Head(gs) \in Seq(Units) /\ Head(gs) # <<>> /\ Distinct(Head(gs))
         /\ Packed(Tail(gs)) /\ (Len(gs) > 1 => Tail(gs) # <<>>)
         /\ ToSet(Head(gs)) \subseteq Members(gs)
         /\ Members(Tail(gs)) \subseteq Members(gs)
         /\ Members(Tail(gs)) \cap ToSet(Head(gs)) = {}
<1> DEFINE S == Seq(Units)  r == Tail(gs)  g == Head(gs)
<1>0. gs \in Seq(S)
  BY DEF Packed
<1>1. /\ Len(gs) \in Nat /\ Len(gs) >= 1 /\ g = gs[1] /\ g \in S
      /\ r \in Seq(S) /\ Len(r) = Len(gs) - 1 /\ \A i \in 1..Len(r) : r[i] = gs[i + 1]
  <2> HIDE DEF S
  <2>1. QED
    BY <1>0
<1> HIDE DEF r, g
<1>2. Len(gs) > 1 => r # <<>>
  BY <1>1
<1>3. 1 \in 1..Len(gs) /\ \A i \in 1..Len(r) : i + 1 \in 1..Len(gs) /\ i + 1 # 1
  BY <1>1
<1>4. g # <<>> /\ Distinct(g)
  BY <1>1, <1>3 DEF Packed
<1>5. \A u : u \in ToSet(g) => u \in Members(gs)
  BY <1>0, <1>1, <1>3, Member
<1>6. \A u : u \in Members(r) => \E i \in 1..Len(r) : u \in ToSet(gs[i + 1])
  BY <1>1, Member
<1>7. \A u : u \in Members(r) => u \in Members(gs)
  BY <1>0, <1>3, <1>6, Member
<1>8. \A u : u \in Members(r) => u \notin ToSet(g)
  BY <1>1, <1>3, <1>6 DEF Packed
<1>9. Packed(r)
  <2>1. \A i \in 1..Len(r) : r[i] # <<>> /\ Distinct(r[i])
    BY <1>1, <1>3 DEF Packed
  <2>2. ASSUME NEW i \in 1..Len(r), NEW j \in 1..Len(r), i # j
        PROVE  ToSet(r[i]) \cap ToSet(r[j]) = {}
    <3>1. i + 1 # j + 1 /\ i + 1 \in 1..Len(gs) /\ j + 1 \in 1..Len(gs)
      BY <1>3, <2>2
    <3>2. ToSet(gs[i + 1]) \cap ToSet(gs[j + 1]) = {}
      BY <3>1 DEF Packed
    <3>3. QED
      BY <1>1, <3>2
  <2>3. QED
    BY <1>1, <2>1, <2>2 DEF Packed
<1>10. QED
  BY <1>1, <1>2, <1>4, <1>5, <1>7, <1>8, <1>9 DEF r, g

LEMMA AcquireKeeps ==
  ASSUME FlushInv, NEW f \in flushes, AcquireForGroup(f)
  PROVE  FlushInv' /\ NothingFreshened
<1> DEFINE h == [groups |-> f.groups, holds |-> TRUE]
<1>2. h.groups = f.groups /\ h = [groups |-> h.groups, holds |-> h.holds]
  OBVIOUS
<1>3. flushes' = (flushes \ {f}) \cup {h} /\ Gathered' = Gathered
  BY DEF AcquireForGroup, Gathered, actor
<1> HIDE DEF h
<1>4. FlushInv'
  <2>1. \A g \in flushes' :
          /\ g = [groups |-> g.groups, holds |-> g.holds]
          /\ Packed(g.groups) /\ g.groups # <<>> /\ Members(g.groups) \cap Gathered' = {}
    BY <1>2, <1>3 DEF FlushInv
  <2>2. \A g, k \in flushes' : g # k => Members(g.groups) \cap Members(k.groups) = {}
    BY <1>2, <1>3 DEF FlushInv
  <2>3. QED
    BY <2>1, <2>2 DEF FlushInv
<1>5. NothingFreshened
  BY <1>2, <1>3 DEF NothingFreshened, Fresh
<1>6. QED
  BY <1>4, <1>5

LEMMA GroupDoneKeeps ==
  ASSUME FlushInv, NEW f \in flushes, GroupDone(f), Gathered' = Gathered
  PROVE  /\ FlushInv'
         /\ \A u : Fresh(u)' => Fresh(u) /\ u \notin ToSet(Head(f.groups))
         /\ \A u \in ToSet(Head(f.groups)) : Fresh(u)
<1> DEFINE gs == f.groups  h == [groups |-> Tail(gs), holds |-> FALSE]  us == ToSet(Head(gs))
<1>1. Packed(gs) /\ gs # <<>> /\ Members(gs) \cap Gathered = {}
  BY DEF FlushInv
<1>2. /\ Packed(Tail(gs)) /\ (Len(gs) > 1 => Tail(gs) # <<>>) /\ us \subseteq Members(gs)
      /\ Members(Tail(gs)) \subseteq Members(gs) /\ Members(Tail(gs)) \cap us = {}
  BY <1>1, PackTail
<1>3. h.groups = Tail(gs) /\ h = [groups |-> h.groups, holds |-> h.holds]
  OBVIOUS
<1>4. flushes' = (flushes \ {f}) \cup IF Len(gs) > 1 THEN {h} ELSE {}
  BY DEF GroupDone
<1> HIDE DEF h, us
<1>5. \A g \in flushes' : g \in flushes \ {f} \/ (g = h /\ Len(gs) > 1)
  BY <1>4
<1>6. FlushInv'
  <2>1. \A g \in flushes' :
          /\ g = [groups |-> g.groups, holds |-> g.holds]
          /\ Packed(g.groups) /\ g.groups # <<>> /\ Members(g.groups) \cap Gathered' = {}
    BY <1>1, <1>2, <1>3, <1>5 DEF FlushInv
  <2>2. \A g \in flushes \ {f} : Members(g.groups) \cap Members(h.groups) = {}
    BY <1>2, <1>3 DEF FlushInv
  <2>3. \A g, k \in flushes' : g # k => Members(g.groups) \cap Members(k.groups) = {}
    BY <1>5, <2>2 DEF FlushInv
  <2>4. QED
    BY <2>1, <2>3 DEF FlushInv
<1>7. \A u : Fresh(u)' => Fresh(u) /\ u \notin us
  <2>1. SUFFICES ASSUME NEW u, Fresh(u)' PROVE Fresh(u) /\ u \notin us
    OBVIOUS
  <2>2. CASE u \in Gathered
    BY <1>1, <1>2, <2>2 DEF Fresh
  <2>3. ASSUME NEW g \in flushes', u \in Members(g.groups) PROVE Fresh(u) /\ u \notin us
    <3>1. CASE g \in flushes \ {f}
      BY <1>2, <2>3, <3>1 DEF Fresh, FlushInv
    <3>2. CASE g = h
      BY <1>2, <1>3, <2>3, <3>2 DEF Fresh
    <3>3. QED
      BY <1>5, <3>1, <3>2
  <2>4. QED
    BY <2>1, <2>2, <2>3 DEF Fresh
<1>8. \A u \in us : Fresh(u)
  BY <1>2 DEF Fresh
<1>9. QED
  BY <1>6, <1>7, <1>8 DEF us

(***************************************************************************)
(* A packed transaction of units that were fresh until now.                *)
(***************************************************************************)
LEMMA SendsPacked ==
  ASSUME TaskInv, TxInv, NEW us \in SUBSET Units, \A u \in us : Fresh(u),
         \A u : Fresh(u)' => Fresh(u) /\ u \notin us, Sent(us, FALSE),
         \A t \in tasks' : t \in tasks \/ (t.at = "poll" /\ ToSet(t.group) = us)
  PROVE  TxInv'
<1> DEFINE n == [units |-> us, alone |-> FALSE, state |-> "flying"]
<1>1. txs' = txs \cup {n} /\ n.units = us /\ n \in Txs
  BY DEF Sent, Txs, MayApply
<1> HIDE DEF n
<1>2. \A x \in txs : x.units \cap us = {}
  BY DEF TxInv
<1>3. txs' \subseteq Txs
  BY <1>1 DEF TxInv
<1>4. \A x \in txs' : \A u \in x.units : ~Fresh(u)'
  BY <1>1 DEF TxInv
<1>5. NeverTwoLive'
  BY <1>1, <1>2 DEF TxInv, NeverTwoLive
<1>6. ASSUME NEW t \in tasks' PROVE Settleable(t)'
  <2>1. CASE t \in tasks
    <3>1. ToSet(t.group) \cap us = {} /\ Settleable(t) /\ TaskFits(t)
      BY <2>1 DEF TaskInv, TxInv
    <3>2. OneTx(ToSet(t.group)) => OneTx(ToSet(t.group))'
      BY <1>1, <3>1 DEF OneTx
    <3>3. \A vs : Over(vs) /\ vs \cap us = {} => Over(vs)'
      BY <1>1 DEF Over
    <3>4. t.at # "poll" => ToSet(t.todo) \cap us = {} /\ ToSet(Tail(t.todo)) \cap us = {}
      BY <3>1, HeadAndTail DEF TaskFits
    <3>5. QED
      BY <3>1, <3>2, <3>3, <3>4 DEF Settleable
  <2>2. CASE t.at = "poll" /\ ToSet(t.group) = us
    BY <1>1, <1>2, <2>2 DEF Settleable, OneTx
  <2>3. QED
    BY <2>1, <2>2
<1>7. QED
  BY <1>3, <1>4, <1>5, <1>6 DEF TxInv

LEMMA SettleGroupKeeps ==
  ASSUME ActorInv, FlushInv, TaskInv, TxInv, NEW f \in flushes,
         SettleGroup(f) \/ SettleGroupFails(f)
  PROVE  FlushInv' /\ TaskInv' /\ TxInv'
<1> DEFINE group == Head(f.groups)  us == ToSet(group)
<1>1. GroupDone(f) /\ Gathered' = Gathered
  BY DEF SettleGroup, SettleGroupFails, Gathered, actor
<1>2. /\ FlushInv' /\ \A u \in us : Fresh(u)
      /\ \A u : Fresh(u)' => Fresh(u) /\ u \notin us
  BY <1>1, GroupDoneKeeps
<1>3. group \in Seq(Units) /\ group # <<>> /\ Distinct(group)
  BY PackTail DEF FlushInv
<1>4. us \subseteq Units /\ NothingFreshened
  BY <1>2, <1>3, Elements DEF NothingFreshened
<1>5. CASE SettleGroupFails(f)
  <2>1. UNCHANGED tasks /\ (UNCHANGED txs \/ Sent(us, FALSE))
    BY <1>5 DEF SettleGroupFails, NotSent
  <2>2. TaskInv'
    BY <1>4, <2>1, TasksRest
  <2>3. TxInv'
    BY <1>2, <1>4, <2>1, TxsRest, SendsPacked
  <2>4. QED
    BY <1>2, <2>2, <2>3
<1>6. CASE SettleGroup(f)
  <2> DEFINE n == [group |-> group, todo |-> <<>>, at |-> "poll"]
  <2>1. tasks' = tasks \cup {n} /\ Sent(us, FALSE)
    BY <1>6 DEF SettleGroup
  <2>2. n.group = group /\ n.at = "poll" /\ TaskFits(n)
    BY <1>3 DEF TaskFits
  <2> HIDE DEF n
  <2>3. \A t \in tasks : ToSet(t.group) \cap us = {}
    BY <1>2 DEF TaskInv
  <2>4. TaskInv'
    <3>1. \A t \in tasks' : TaskFits(t) /\ \A u \in ToSet(t.group) : ~Fresh(u)'
      BY <1>2, <2>1, <2>2 DEF TaskInv
    <3>2. \A s, t \in tasks' : s # t => ToSet(s.group) \cap ToSet(t.group) = {}
      BY <2>1, <2>2, <2>3 DEF TaskInv
    <3>3. QED
      BY <3>1, <3>2 DEF TaskInv
  <2>5. \A t \in tasks' : t \in tasks \/ (t.at = "poll" /\ ToSet(t.group) = us)
    BY <2>1, <2>2
  <2>6. TxInv'
    BY <1>2, <1>4, <2>1, <2>5, SendsPacked
  <2>7. QED
    BY <1>2, <2>4, <2>6
<1>7. QED
  BY <1>5, <1>6

-----------------------------------------------------------------------------
(***************************************************************************)
(* A confirmation task goes on with the same group, or ends.               *)
(***************************************************************************)
Becomes(t, N) ==
    /\ tasks' = (tasks \ {t}) \cup N
    /\ \A s \in N : TaskFits(s) /\ s.group = t.group
    /\ \A r, s \in N : r = s

LEMMA TaskMoves ==
  ASSUME TaskInv, NEW t \in tasks, NEW N, Becomes(t, N), NothingFreshened
  PROVE  TaskInv'
<1>1. \A s \in tasks' : TaskFits(s) /\ \A u \in ToSet(s.group) : ~Fresh(u)'
  BY DEF TaskInv, Becomes, NothingFreshened
<1>2. \A r, s \in tasks' : r # s => ToSet(r.group) \cap ToSet(s.group) = {}
  BY DEF TaskInv, Becomes
<1>3. QED
  BY <1>1, <1>2 DEF TaskInv

LEMMA TxsStay ==
  ASSUME TxInv, NEW t \in tasks, NEW N, Becomes(t, N), \A s \in N : Settleable(s),
         UNCHANGED txs, NothingFreshened
  PROVE  TxInv'
<1>1. \A s : Settleable(s) => Settleable(s)'
  BY DEF Settleable, Over, OneTx
<1>2. NeverTwoLive'
  BY DEF TxInv, NeverTwoLive
<1>3. \A x \in txs' : \A u \in x.units : ~Fresh(u)'
  BY DEF TxInv, NothingFreshened
<1>4. QED
  BY <1>1, <1>2, <1>3 DEF TxInv, Becomes

(***************************************************************************)
(* Sending the unit at the head alone.                                     *)
(***************************************************************************)
LEMMA SendsAlone ==
  ASSUME TaskInv, TxInv, NEW t \in tasks, t.at = "send", NEW N, Becomes(t, N),
         \A s \in N : \/ s.at = "alone" /\ s.todo = t.todo
                      \/ s.at = "permit" /\ s.todo = Tail(t.todo),
         Sent({Head(t.todo)}, TRUE), NothingFreshened
  PROVE  TxInv'
<1> DEFINE h == Head(t.todo)  n == [units |-> {h}, alone |-> TRUE, state |-> "flying"]
<1>1. /\ TaskFits(t) /\ t.todo \in Seq(Units) /\ t.todo # <<>> /\ Distinct(t.todo)
      /\ Over(ToSet(t.todo)) /\ ToSet(t.todo) \subseteq ToSet(t.group)
  BY DEF TaskInv, TxInv, TaskFits, Settleable
<1>2. /\ h \in Units /\ h \notin ToSet(Tail(t.todo))
      /\ ToSet(t.todo) = {h} \cup ToSet(Tail(t.todo))
  BY <1>1, HeadAndTail
<1>3. txs' = txs \cup {n} /\ n.units = {h}
  BY DEF Sent
<1>4. n \in Txs
  BY <1>2 DEF Txs, MayApply
<1> HIDE DEF n, h
<1>5. \A x \in txs : h \in x.units => x.state = "failed"
  BY <1>1, <1>2 DEF Over
<1>6. txs' \subseteq Txs
  BY <1>3, <1>4 DEF TxInv
<1>7. h \in ToSet(t.group) /\ ~Fresh(h)
  BY <1>1, <1>2 DEF TaskInv
<1>8. \A x \in txs' : \A u \in x.units : ~Fresh(u)'
  BY <1>3, <1>7 DEF TxInv, NothingFreshened
<1>9. NeverTwoLive'
  <2>1. "failed" \notin MayApply
    BY DEF MayApply
  <2>2. QED
    BY <1>3, <1>5, <2>1 DEF TxInv, NeverTwoLive
<1>10. \A vs : Over(vs) /\ h \notin vs => Over(vs)'
  BY <1>3 DEF Over
<1>11. ASSUME NEW s \in tasks' PROVE Settleable(s)'
  <2>1. CASE s \in N
    <3>1. Over(ToSet(Tail(t.todo)))'
      <4>1. Over(ToSet(Tail(t.todo)))
        BY <1>1, <1>2 DEF Over
      <4> DEFINE vs == ToSet(Tail(t.todo))
      <4>2. Over(vs) /\ h \notin vs
        BY <1>2, <4>1
      <4>3. PICK ws : ws = vs
        OBVIOUS
      <4> HIDE DEF vs
      <4>4. Over(ws)'
        BY <1>10, <4>2, <4>3
      <4>5. QED
        BY <4>3, <4>4 DEF vs
    <3>2. QED
      BY <2>1, <3>1 DEF Settleable
  <2>2. CASE s \in tasks /\ s # t
    <3>1. Settleable(s) /\ TaskFits(s) /\ h \notin ToSet(s.group)
      BY <1>7, <2>2 DEF TaskInv, TxInv
    <3>2. s.at # "poll" => h \notin ToSet(s.todo) /\ h \notin ToSet(Tail(s.todo))
      BY <3>1, HeadAndTail DEF TaskFits
    <3>3. OneTx(ToSet(s.group)) => OneTx(ToSet(s.group))'
      BY <1>3, <3>1 DEF OneTx
    <3>4. QED
      BY <1>10, <3>1, <3>2, <3>3 DEF Settleable
  <2>3. QED
    BY <2>1, <2>2 DEF Becomes
<1>12. QED
  BY <1>6, <1>8, <1>9, <1>11 DEF TxInv

(***************************************************************************)
(* What a task becomes when the unit at its head is done.                  *)
(***************************************************************************)
Rest(t) ==
    IF Len(t.todo) > 1
    THEN {[group |-> t.group, todo |-> Tail(t.todo), at |-> "permit"]} ELSE {}

LEMMA RestFits ==
  ASSUME NEW t, TaskFits(t), t.at # "poll", tasks' = (tasks \ {t}) \cup Rest(t)
  PROVE  Becomes(t, Rest(t)) /\ \A s \in Rest(t) : s.at = "permit" /\ s.todo = Tail(t.todo)
<1> DEFINE r == [group |-> t.group, todo |-> Tail(t.todo), at |-> "permit"]
<1>2. r.group = t.group /\ r.todo = Tail(t.todo) /\ r.at = "permit"
  OBVIOUS
<1>3. r = [group |-> r.group, todo |-> r.todo, at |-> r.at]
  OBVIOUS
<1>4. /\ Tail(t.todo) \in Seq(Units) /\ (Len(t.todo) > 1 => Tail(t.todo) # <<>>)
      /\ Distinct(Tail(t.todo)) /\ ToSet(Tail(t.todo)) \subseteq ToSet(t.group)
  BY HeadAndTail DEF TaskFits
<1>5. \A s \in Rest(t) : s = r /\ Len(t.todo) > 1
  BY DEF Rest
<1> HIDE DEF r
<1>6. Len(t.todo) > 1 => TaskFits(r)
  BY <1>2, <1>3, <1>4 DEF TaskFits
<1>7. QED
  BY <1>2, <1>5, <1>6 DEF Becomes

LEMMA AtFits ==
  ASSUME NEW t, TaskFits(t), t.at # "poll", NEW p \in {"send", "alone"}, At(t, p)
  PROVE  \E s : Becomes(t, {s}) /\ s.at = p /\ s.todo = t.todo
<1> DEFINE r == [t EXCEPT !.at = p]
<1>1. t = [group |-> t.group, todo |-> t.todo, at |-> t.at]
  BY DEF TaskFits
<1>2. r.group = t.group /\ r.todo = t.todo /\ r.at = p
  BY <1>1
<1>3. r = [group |-> r.group, todo |-> r.todo, at |-> r.at]
  BY <1>1
<1>4. tasks' = (tasks \ {t}) \cup {r}
  BY DEF At
<1> HIDE DEF r
<1>5. TaskFits(r)
  BY <1>2, <1>3 DEF TaskFits
<1>6. QED
  BY <1>2, <1>4, <1>5 DEF Becomes

(***************************************************************************)
(* The steps of a confirmation task.  A group that is settled alone was in *)
(* one transaction, which failed.                                          *)
(***************************************************************************)
LEMMA ConfirmKeeps ==
  ASSUME TaskInv, TxInv, NEW t \in tasks, Confirm(t), NothingFreshened
  PROVE  TaskInv' /\ TxInv'
<1>1. /\ TaskFits(t) /\ t.at = "poll" /\ t.group \in Seq(Units) /\ t.group # <<>>
      /\ Distinct(t.group) /\ OneTx(ToSet(t.group)) /\ UNCHANGED txs
  BY DEF TaskInv, TxInv, TaskFits, Settleable, Confirm
<1>2. CASE tasks' = tasks \ {t}
  <2>1. Becomes(t, {})
    BY <1>2 DEF Becomes
  <2>2. QED
    BY <1>1, <2>1, TaskMoves, TxsStay
<1>3. CASE /\ Outcome(ToSet(t.group), FALSE, "failed")
           /\ tasks' = (tasks \ {t}) \cup
                {[group |-> t.group, todo |-> InTurn(t.group), at |-> "permit"]}
  <2> DEFINE d == InTurn(t.group)  r == [group |-> t.group, todo |-> d, at |-> "permit"]
  <2>1. d \in Seq(Units) /\ Distinct(d) /\ d # <<>> /\ ToSet(d) = ToSet(t.group)
    BY <1>1, InTurnKeeps
  <2> HIDE DEF d
  <2>2. r.group = t.group /\ r.todo = d /\ r.at = "permit" /\ TaskFits(r)
    BY <1>1, <2>1 DEF TaskFits
  <2>3. tasks' = (tasks \ {t}) \cup {r}
    BY <1>3 DEF d
  <2> HIDE DEF r
  <2>4. Becomes(t, {r})
    BY <2>2, <2>3 DEF Becomes
  <2>5. Head(t.group) \in ToSet(t.group)
    BY <1>1, HeadAndTail
  <2>6. PICK x \in txs : x.units = ToSet(t.group) /\ x.state = "failed"
    <3>1. \E x \in txs : x.units = ToSet(t.group)
             /\ "failed" = CASE x.state = "applied" -> "confirmed"
                             [] x.state = "failed" -> "failed"
                             [] OTHER -> "unconfirmed"
      BY <1>3 DEF Outcome
    <3>2. QED
      BY <3>1
  <2>7. Over(ToSet(t.group))
    BY <1>1, <2>5, <2>6 DEF Over, OneTx
  <2>8. Settleable(r)
    BY <2>1, <2>2, <2>7 DEF Settleable
  <2>9. QED
    BY <1>1, <2>4, <2>8, TaskMoves, TxsStay
<1>4. QED
  BY <1>2, <1>3 DEF Confirm

LEMMA AloneKeeps ==
  ASSUME TaskInv, TxInv, NEW t \in tasks, NothingFreshened,
         AcquireAlone(t) \/ SendAlone(t) \/ ConfirmAlone(t)
  PROVE  TaskInv' /\ TxInv'
<1>1. TaskFits(t) /\ Settleable(t) /\ t.at # "poll"
  BY DEF TaskInv, TxInv, AcquireAlone, SendAlone, ConfirmAlone
<1>2. ToSet(Tail(t.todo)) \subseteq ToSet(t.todo)
  BY <1>1, HeadAndTail DEF TaskFits
<1>3. CASE AcquireAlone(t)
  <2>1. At(t, "send") /\ UNCHANGED txs /\ Over(ToSet(t.todo))
    BY <1>1, <1>3 DEF AcquireAlone, Settleable
  <2>2. PICK s : Becomes(t, {s}) /\ s.at = "send" /\ s.todo = t.todo
    BY <1>1, <2>1, AtFits
  <2>3. Settleable(s)
    BY <2>1, <2>2 DEF Settleable
  <2>4. QED
    BY <2>1, <2>2, <2>3, TaskMoves, TxsStay
<1>4. ASSUME tasks' = (tasks \ {t}) \cup Rest(t), Over(ToSet(Tail(t.todo))), UNCHANGED txs
      PROVE  TaskInv' /\ TxInv'
  <2>1. Becomes(t, Rest(t)) /\ \A s \in Rest(t) : s.at = "permit" /\ s.todo = Tail(t.todo)
    BY <1>1, <1>4, RestFits
  <2>2. \A s \in Rest(t) : Settleable(s)
    BY <1>4, <2>1 DEF Settleable
  <2>3. QED
    BY <1>4, <2>1, <2>2, TaskMoves, TxsStay
<1>5. CASE SendAlone(t)
  <2>1. t.at = "send" /\ Over(ToSet(Tail(t.todo)))
    BY <1>1, <1>2, <1>5 DEF SendAlone, Settleable, Over
  <2>2. CASE Sent({Head(t.todo)}, TRUE) /\ At(t, "alone")
    <3>1. PICK s : Becomes(t, {s}) /\ s.at = "alone" /\ s.todo = t.todo
      BY <1>1, <2>2, AtFits
    <3> DEFINE N == {s}
    <3>2. /\ Becomes(t, N)
          /\ \A r \in N : \/ r.at = "alone" /\ r.todo = t.todo
                          \/ r.at = "permit" /\ r.todo = Tail(t.todo)
      BY <3>1
    <3> HIDE DEF N
    <3>3. TxInv'
      BY <2>1, <2>2, <3>2, SendsAlone
    <3>4. QED
      BY <3>2, <3>3, TaskMoves
  <2>3. CASE Sent({Head(t.todo)}, TRUE) /\ tasks' = (tasks \ {t}) \cup Rest(t)
    <3>1. Becomes(t, Rest(t)) /\ \A s \in Rest(t) : s.at = "permit" /\ s.todo = Tail(t.todo)
      BY <1>1, <2>3, RestFits
    <3>2. QED
      BY <2>1, <2>3, <3>1, TaskMoves, SendsAlone
  <2>4. CASE UNCHANGED txs /\ tasks' = (tasks \ {t}) \cup Rest(t)
    BY <1>4, <2>1, <2>4
  <2>5. QED
    BY <1>5, <2>2, <2>3, <2>4 DEF SendAlone, NotSent, AloneDone, Rest
<1>6. CASE ConfirmAlone(t)
  BY <1>1, <1>4, <1>6 DEF ConfirmAlone, AloneDone, Rest, Settleable
<1>7. QED
  BY <1>3, <1>5, <1>6

(***************************************************************************)
(* A transaction lands.  It was in flight, so no unit waits on its failure.*)
(***************************************************************************)
LEMMA LandKeeps ==
  ASSUME TxInv, NEW x \in txs, Land(x), NothingFreshened
  PROVE  TxInv'
<1>1. PICK s \in {"applied", "failed"} : txs' = (txs \ {x}) \cup {[x EXCEPT !.state = s]}
  BY DEF Land
<1> DEFINE y == [x EXCEPT !.state = s]
<1>2. x \in Txs /\ x.state = "flying" /\ UNCHANGED tasks
  BY DEF TxInv, Land
<1>3. y \in Txs /\ y.units = x.units /\ y.state = s
  BY <1>2 DEF Txs, MayApply
<1>4. txs' = (txs \ {x}) \cup {y}
  BY <1>1
<1> HIDE DEF y
<1>5. x.state \in MayApply
  BY <1>2 DEF MayApply
<1>6. txs' \subseteq Txs
  BY <1>3, <1>4 DEF TxInv
<1>7. \A z \in txs' : \A u \in z.units : ~Fresh(u)'
  BY <1>3, <1>4 DEF TxInv, NothingFreshened
<1>8. NeverTwoLive'
  <2>1. NeverTwoLive
    BY DEF TxInv
  <2>2. \A z \in txs : z # x /\ z.state \in MayApply => z.units \cap x.units = {}
    BY <1>5, <2>1 DEF NeverTwoLive
  <2>3. QED
    BY <1>3, <1>4, <2>1, <2>2 DEF NeverTwoLive
<1>9. \A us : Over(us) => Over(us)'
  BY <1>2, <1>3, <1>4 DEF Over
<1>10. \A us : OneTx(us) => OneTx(us)'
  BY <1>3, <1>4 DEF OneTx
<1>11. \A t \in tasks' : Settleable(t)'
  BY <1>2, <1>9, <1>10 DEF TxInv, Settleable
<1>12. QED
  BY <1>6, <1>7, <1>8, <1>11 DEF TxInv

-----------------------------------------------------------------------------
(***************************************************************************)
(* Answers.  A transaction that took effect stays, a unit that fails goes  *)
(* on failing, and a failed transaction of one unit failed for it.         *)
(***************************************************************************)
FailedForAFault ==
    \A x \in txs : x.state = "failed" => x.units \cap bad # {} \/ Cardinality(x.units) > 1

Remembered ==
    /\ \A x \in txs : x.state = "applied" => x \in txs'
    /\ bad \subseteq bad'

LEMMA Answers ==
  ASSUME ReplyInv, NEW us, NEW r \in Replies, Answer(us, r), Remembered, FailedForAFault',
         r = "confirmed" => \A u \in us : \E x \in txs' : u \in x.units /\ x.state = "applied",
         r = "failed" => us \subseteq bad'
  PROVE  ReplyInv'
<1>1. /\ reply \in [Units -> Replies]
      /\ reply' = [u \in Units |-> IF u \in us THEN r ELSE reply[u]]
  BY DEF ReplyInv, Answer
<1>2. reply' \in [Units -> Replies]
  BY <1>1
<1>3. ASSUME NEW u \in Units
      PROVE  /\ reply'[u] = "confirmed" => \E x \in txs' : u \in x.units /\ x.state = "applied"
             /\ reply'[u] = "failed" => u \in bad'
  <2>1. CASE u \in us
    BY <1>1, <2>1
  <2>2. CASE u \notin us
    <3>1. reply'[u] = reply[u]
      BY <1>1, <2>2
    <3>2. QED
      BY <3>1 DEF ReplyInv, AnswersAreTrue, Remembered
  <2>3. QED
    BY <2>1, <2>2
<1>4. AnswersAreTrue'
  BY <1>3 DEF AnswersAreTrue
<1>5. QED
  BY <1>2, <1>4 DEF ReplyInv, FailedForAFault

LEMMA NoNewAnswers ==
  ASSUME ReplyInv, UNCHANGED reply, Remembered, FailedForAFault'
  PROVE  ReplyInv'
BY DEF ReplyInv, AnswersAreTrue, Remembered, FailedForAFault

(***************************************************************************)
(* What polling may end with.                                              *)
(***************************************************************************)
LEMMA OutcomeIsTrue ==
  ASSUME ReplyInv, NEW us, NEW alone, NEW o, Outcome(us, alone, o)
  PROVE  /\ o = "confirmed" => \E x \in txs : x.units = us /\ x.state = "applied"
         /\ o = "failed" => us \cap bad # {} \/ Cardinality(us) > 1
<1>1. CASE o = "unconfirmed"
  BY <1>1
<1>2. ASSUME NEW x \in txs, x.units = us,
             o = CASE x.state = "applied" -> "confirmed"
                   [] x.state = "failed" -> "failed"
                   [] OTHER -> "unconfirmed"
      PROVE  /\ o = "confirmed" => x.state = "applied"
             /\ o = "failed" => x.state = "failed"
  BY <1>2
<1>3. QED
  BY <1>1, <1>2 DEF Outcome, ReplyInv

LEMMA OneUnitFails ==
  ASSUME NEW us, NEW u, us = {u}, us \cap bad # {} \/ Cardinality(us) > 1
  PROVE  us \subseteq bad
<1>1. Cardinality({u}) = 1
  BY FS_Singleton, Zenon
<1>2. ~(1 > 1)
  OBVIOUS
<1>3. us \cap bad # {}
  BY <1>1, <1>2
<1>4. QED
  BY <1>3

LEMMA SentKeeps ==
  ASSUME ReplyInv, UNCHANGED bad, NEW us, NEW alone, UNCHANGED txs \/ Sent(us, alone)
  PROVE  Remembered /\ FailedForAFault'
<1>1. CASE UNCHANGED txs
  BY <1>1 DEF Remembered, FailedForAFault, ReplyInv
<1>2. CASE Sent(us, alone)
  <2> DEFINE n == [units |-> us, alone |-> alone, state |-> "flying"]
  <2>1. txs' = txs \cup {n} /\ n.state = "flying"
    BY <1>2 DEF Sent
  <2> HIDE DEF n
  <2>2. QED
    BY <2>1 DEF Remembered, FailedForAFault, ReplyInv
<1>3. QED
  BY <1>1, <1>2

LEMMA GroupAnswers ==
  ASSUME ReplyInv, NEW f \in flushes, SettleGroup(f) \/ SettleGroupFails(f)
  PROVE  ReplyInv'
<1> DEFINE us == ToSet(Head(f.groups))
<1>1. UNCHANGED bad /\ (UNCHANGED txs \/ Sent(us, FALSE))
  BY DEF SettleGroup, SettleGroupFails, NotSent
<1>2. Remembered /\ FailedForAFault'
  BY <1>1, SentKeeps
<1>3. Answer(us, "error") \/ Answer(us \ awaits, "sent")
  BY DEF SettleGroup, SettleGroupFails
<1>4. {"error", "sent"} \subseteq Replies
  BY DEF Replies
<1>5. QED
  BY <1>2, <1>3, <1>4, Answers

LEMMA TaskAnswers ==
  ASSUME TaskInv, ReplyInv, NEW t \in tasks, ConfirmTask(t)
  PROVE  ReplyInv'
<1>0. TaskFits(t) /\ UNCHANGED bad
  BY DEF TaskInv, ConfirmTask, Confirm, AcquireAlone, SendAlone, ConfirmAlone
<1>1. {"confirmed", "failed", "unconfirmed", "error"} \subseteq Replies
  BY DEF Replies
<1>2. CASE Confirm(t)
  <2>1. Remembered /\ FailedForAFault'
    BY <1>0, <1>2, SentKeeps DEF Confirm
  <2>2. CASE UNCHANGED reply
    BY <2>1, <2>2, NoNewAnswers
  <2>3. ASSUME NEW o \in {"confirmed", "failed", "unconfirmed"},
               Outcome(ToSet(t.group), FALSE, o), o # "failed" \/ Len(t.group) = 1,
               Answer(ToSet(t.group) \cap awaits, o)
        PROVE  ReplyInv'
    <3>1. /\ o = "confirmed" => \E x \in txs : x.units = ToSet(t.group) /\ x.state = "applied"
          /\ o = "failed" => ToSet(t.group) \cap bad # {} \/ Cardinality(ToSet(t.group)) > 1
      BY <2>3, OutcomeIsTrue
    <3>2. Len(t.group) = 1 => \E u : ToSet(t.group) = {u}
      <4>1. ASSUME Len(t.group) = 1 PROVE \E u : ToSet(t.group) = {u}
        <5>1. t.group \in Seq(Units) /\ 1..Len(t.group) = {1}
          BY <1>0, <4>1 DEF TaskFits
        <5>2. \A u : u \in ToSet(t.group) <=> u = t.group[1]
          BY <5>1, Elements
        <5>3. ToSet(t.group) = {t.group[1]}
          BY <5>2
        <5>4. QED
          BY <5>3
      <4>2. QED
        BY <4>1
    <3>3. o = "failed" => ToSet(t.group) \subseteq bad
      BY <2>3, <3>1, <3>2, OneUnitFails
    <3>4. o = "confirmed" =>
            \A u \in ToSet(t.group) \cap awaits :
              \E x \in txs' : u \in x.units /\ x.state = "applied"
      BY <3>1, <1>2 DEF Confirm
    <3>5. o \in Replies /\ (o = "failed" => ToSet(t.group) \cap awaits \subseteq bad')
      BY <1>0, <1>1, <3>3
    <3>6. QED
      BY <2>1, <2>3, <3>4, <3>5, Answers
  <2>4. QED
    BY <1>2, <2>2, <2>3 DEF Confirm
<1>3. CASE AcquireAlone(t)
  <2>1. UNCHANGED <<reply, txs>>
    BY <1>3 DEF AcquireAlone
  <2>2. Remembered /\ FailedForAFault'
    BY <1>0, <2>1, SentKeeps
  <2>3. QED
    BY <2>1, <2>2, NoNewAnswers
<1>4. CASE SendAlone(t)
  <2> DEFINE us == {Head(t.todo)}
  <2>1. UNCHANGED txs \/ Sent(us, TRUE)
    BY <1>4 DEF SendAlone, NotSent
  <2>2. Remembered /\ FailedForAFault'
    BY <1>0, <2>1, SentKeeps
  <2>3. UNCHANGED reply \/ Answer(us \cap awaits, "error")
    BY <1>4 DEF SendAlone, AloneDone
  <2>4. QED
    BY <1>1, <2>2, <2>3, Answers, NoNewAnswers
<1>5. CASE ConfirmAlone(t)
  <2> DEFINE us == {Head(t.todo)}
  <2>1. PICK o \in {"confirmed", "failed", "unconfirmed"} :
          Outcome(us, TRUE, o) /\ Answer(us \cap awaits, o)
    BY <1>5 DEF ConfirmAlone, AloneDone
  <2>2. UNCHANGED txs /\ Remembered /\ FailedForAFault'
    BY <1>0, <1>5, SentKeeps DEF ConfirmAlone
  <2>3. /\ o = "confirmed" => \E x \in txs : x.units = us /\ x.state = "applied"
        /\ o = "failed" => us \cap bad # {} \/ Cardinality(us) > 1
    BY <2>1, OutcomeIsTrue
  <2>4. o = "failed" => us \subseteq bad
    BY <2>3, OneUnitFails
  <2>5. o = "confirmed" =>
          \A u \in us \cap awaits : \E x \in txs' : u \in x.units /\ x.state = "applied"
    BY <2>2, <2>3
  <2>6. o \in Replies /\ (o = "failed" => us \cap awaits \subseteq bad')
    BY <1>0, <1>1, <2>4
  <2>7. QED
    BY <2>1, <2>2, <2>5, <2>6, Answers
<1>6. QED
  BY <1>2, <1>3, <1>4, <1>5 DEF ConfirmTask

LEMMA LandAnswers ==
  ASSUME ReplyInv, TxInv, NEW x \in txs, Land(x)
  PROVE  ReplyInv'
<1>1. PICK s \in {"applied", "failed"} :
        /\ txs' = (txs \ {x}) \cup {[x EXCEPT !.state = s]}
        /\ s = "failed" => x.units \cap bad # {} \/ Cardinality(x.units) > 1
  BY DEF Land
<1> DEFINE y == [x EXCEPT !.state = s]
<1>2. x \in Txs /\ x.state = "flying" /\ UNCHANGED <<bad, reply>>
  BY DEF TxInv, Land
<1>3. y.units = x.units /\ y.state = s
  BY <1>2 DEF Txs
<1>4. txs' = (txs \ {x}) \cup {y}
  BY <1>1
<1> HIDE DEF y
<1>5. Remembered
  BY <1>2, <1>4 DEF Remembered
<1>6. FailedForAFault'
  BY <1>1, <1>2, <1>3, <1>4 DEF FailedForAFault, ReplyInv
<1>7. QED
  BY <1>2, <1>5, <1>6, NoNewAnswers

-----------------------------------------------------------------------------
(***************************************************************************)
(* Nothing is sent and nobody answered at first.                           *)
(***************************************************************************)
LEMMA WorkerInit == Init => WorkerInv
<1> SUFFICES ASSUME Init PROVE WorkerInv
  OBVIOUS
<1>1. ActorInv
  BY EmptyHasNone DEF Init, ActorInv
<1>2. FlushInv /\ TaskInv /\ TxInv
  BY DEF Init, FlushInv, TaskInv, TxInv, NeverTwoLive
<1>3. ReplyInv
  <2>1. reply = [u \in Units |-> "none"] /\ txs = {}
    BY DEF Init
  <2>2. reply \in [Units -> Replies] /\ \A u \in Units : reply[u] = "none"
    BY <2>1 DEF Replies
  <2>3. QED
    BY <2>1, <2>2 DEF ReplyInv, AnswersAreTrue
<1>4. QED
  BY <1>1, <1>2, <1>3 DEF WorkerInv

LEMMA WorkerStep == WorkerInv /\ [Next]_vars => WorkerInv'
<1> SUFFICES ASSUME WorkerInv, [Next]_vars PROVE WorkerInv'
  OBVIOUS
<1>0. ActorInv /\ FlushInv /\ TaskInv /\ TxInv /\ ReplyInv
  BY DEF WorkerInv
<1>1. ASSUME ActorInv' /\ FlushInv' /\ NothingFreshened, UNCHANGED <<tasks, txs, reply, bad>>
      PROVE  WorkerInv'
  BY <1>0, <1>1, TasksRest, TxsRest, RepliesRest DEF WorkerInv
<1>2. ASSUME UNCHANGED <<actor, flushes>>
      PROVE  ActorInv' /\ FlushInv' /\ NothingFreshened
  <2>1. UNCHANGED <<unsent, queue, pending, deadline, flushes>>
    BY <1>2 DEF actor
  <2>2. ActorInv' /\ Gathered' = Gathered
    BY <1>0, <2>1 DEF ActorInv, Gathered
  <2>3. QED
    BY <1>0, <2>1, <2>2, FlushesRest
<1>3. ASSUME NEW u \in Units, Submit(u) PROVE WorkerInv'
  BY <1>0, <1>1, <1>3, SubmitKeeps DEF Submit
<1>4. CASE Receive
  BY <1>0, <1>1, <1>4, ReceiveKeeps DEF Receive
<1>5. CASE Linger \/ Drain \/ DropHandles
  BY <1>0, <1>1, <1>5, ActorKeeps DEF Linger, Drain, DropHandles
<1>6. ASSUME NEW u \in Units, PayerCloses(u) PROVE WorkerInv'
  <2>1. UNCHANGED <<actor, flushes, tasks, txs, reply>> /\ bad \subseteq bad'
    BY <1>6 DEF PayerCloses
  <2>2. Remembered /\ FailedForAFault'
    BY <1>0, <2>1 DEF Remembered, FailedForAFault, ReplyInv
  <2>3. ReplyInv'
    BY <1>0, <2>1, <2>2, NoNewAnswers
  <2>4. QED
    BY <1>0, <1>2, <2>1, <2>3, TasksRest, TxsRest DEF WorkerInv
<1>7. ASSUME NEW f \in flushes, AcquireForGroup(f) PROVE WorkerInv'
  <2>1. UNCHANGED <<actor, tasks, txs, reply, bad>>
    BY <1>7 DEF AcquireForGroup
  <2>2. ActorInv'
    BY <1>0, <2>1 DEF ActorInv, actor
  <2>3. QED
    BY <1>0, <1>1, <1>7, <2>1, <2>2, AcquireKeeps
<1>8. ASSUME NEW f \in flushes, SettleGroup(f) \/ SettleGroupFails(f) PROVE WorkerInv'
  <2>1. UNCHANGED actor
    BY <1>8 DEF SettleGroup, SettleGroupFails
  <2>2. ActorInv'
    BY <1>0, <2>1 DEF ActorInv, actor
  <2>3. QED
    BY <1>0, <1>8, <2>2, SettleGroupKeeps, GroupAnswers DEF WorkerInv
<1>9. ASSUME NEW t \in tasks, ConfirmTask(t) PROVE WorkerInv'
  <2>1. UNCHANGED <<actor, flushes>>
    BY <1>9 DEF ConfirmTask, Confirm, AcquireAlone, SendAlone, ConfirmAlone
  <2>2. ActorInv' /\ FlushInv' /\ NothingFreshened
    BY <1>2, <2>1
  <2>3. TaskInv' /\ TxInv'
    BY <1>0, <1>9, <2>2, ConfirmKeeps, AloneKeeps DEF ConfirmTask
  <2>4. QED
    BY <1>0, <1>9, <2>2, <2>3, TaskAnswers DEF WorkerInv
<1>10. ASSUME NEW x \in txs, Land(x) PROVE WorkerInv'
  <2>1. UNCHANGED <<actor, flushes, tasks>>
    BY <1>10 DEF Land
  <2>2. QED
    BY <1>0, <1>2, <1>10, <2>1, TasksRest, LandKeeps, LandAnswers DEF WorkerInv
<1>11. CASE UNCHANGED vars
  BY <1>1, <1>2, <1>11 DEF vars, actor
<1>12. QED
  BY <1>3, <1>4, <1>5, <1>6, <1>7, <1>8, <1>9, <1>10, <1>11 DEF Next, FlushTask

(***************************************************************************)
(* The inductive invariant of the worker: every unit is in one place, what *)
(* is still to be packed was never sent, and what a task has still to      *)
(* settle alone is only in transactions that failed on chain.              *)
(***************************************************************************)
THEOREM WorkerInvariant == Spec => []WorkerInv
BY WorkerInit, WorkerStep, PTL DEF Spec

(***************************************************************************)
(* No settlement is in two transactions that may both take effect          *)
(* (NeverTwoLive): settle_group retries a unit alone only after the one    *)
(* transaction that held it was seen to fail, never one it has lost sight  *)
(* of or one whose send returned an error.                                 *)
(***************************************************************************)
THEOREM OneLiveHolds == Spec => []NeverTwoLive
<1>1. WorkerInv => NeverTwoLive
  BY DEF WorkerInv, TxInv
<1>2. QED
  BY <1>1, WorkerInvariant, PTL

(***************************************************************************)
(* Submitters are told the truth (AnswersAreTrue): settle_confirmed        *)
(* returns a signature only for a settlement that took effect, and a unit  *)
(* is reported as failed only for its own fault.                           *)
(***************************************************************************)
THEOREM AnswersHold == Spec => []AnswersAreTrue
<1>1. WorkerInv => AnswersAreTrue
  BY DEF WorkerInv, ReplyInv
<1>2. QED
  BY <1>1, WorkerInvariant, PTL

-----------------------------------------------------------------------------
(***************************************************************************)
(* A permit is held by each flush task and each settle_alone that sends.   *)
(***************************************************************************)
Sending == {f \in flushes : f.holds}

SendingAlone == {t \in tasks : t.at = "send"}

PermitInv ==
    /\ permits \in Nat /\ IsFiniteSet(Sending) /\ IsFiniteSet(SendingAlone)
    /\ permits + Cardinality(Sending) + Cardinality(SendingAlone) = Max({MaxInFlight, 1})

PlainInv ==
    /\ awaits \subseteq Units /\ bad \subseteq Units /\ tried \subseteq Units
    /\ open \in BOOLEAN /\ running \in BOOLEAN /\ deadline \in BOOLEAN
    /\ \A f \in flushes : f.holds \in BOOLEAN

LEMMA OneMore ==
  ASSUME NEW S, IsFiniteSet(S), NEW x, x \notin S
  PROVE  /\ IsFiniteSet(S \cup {x}) /\ Cardinality(S \cup {x}) = Cardinality(S) + 1
         /\ Cardinality(S) \in Nat
BY FS_AddElement, FS_CardinalityType

LEMMA OneLess ==
  ASSUME NEW S, IsFiniteSet(S), NEW x \in S
  PROVE  /\ IsFiniteSet(S \ {x}) /\ Cardinality(S \ {x}) = Cardinality(S) - 1
         /\ Cardinality(S) \in Nat
BY FS_RemoveElement, FS_CardinalityType

LEMMA PermitTaken ==
  ASSUME PermitInv, permits > 0, permits' = permits - 1, NEW x,
         \/ /\ x \notin Sending /\ Sending' = Sending \cup {x} /\ SendingAlone' = SendingAlone
         \/ /\ x \notin SendingAlone /\ SendingAlone' = SendingAlone \cup {x}
            /\ Sending' = Sending
  PROVE  PermitInv'
<1> DEFINE A == Sending  B == SendingAlone
<1>1. /\ permits \in Nat /\ IsFiniteSet(A) /\ IsFiniteSet(B)
      /\ permits + Cardinality(A) + Cardinality(B) = Max({MaxInFlight, 1})
  BY DEF PermitInv
<1>2. Cardinality(A) \in Nat /\ Cardinality(B) \in Nat
  BY <1>1, FS_CardinalityType
<1>3. CASE x \notin A /\ Sending' = A \cup {x} /\ SendingAlone' = B
  <2>1. IsFiniteSet(A \cup {x}) /\ Cardinality(A \cup {x}) = Cardinality(A) + 1
    BY <1>1, <1>3, OneMore
  <2>2. QED
    BY <1>1, <1>2, <1>3, <2>1 DEF PermitInv
<1>4. CASE x \notin B /\ SendingAlone' = B \cup {x} /\ Sending' = A
  <2>1. IsFiniteSet(B \cup {x}) /\ Cardinality(B \cup {x}) = Cardinality(B) + 1
    BY <1>1, <1>4, OneMore
  <2>2. QED
    BY <1>1, <1>2, <1>4, <2>1 DEF PermitInv
<1>5. QED
  BY <1>3, <1>4

LEMMA PermitGiven ==
  ASSUME PermitInv, permits' = permits + 1, NEW x,
         \/ /\ x \in Sending /\ Sending' = Sending \ {x} /\ SendingAlone' = SendingAlone
         \/ /\ x \in SendingAlone /\ SendingAlone' = SendingAlone \ {x}
            /\ Sending' = Sending
  PROVE  PermitInv'
<1> DEFINE A == Sending  B == SendingAlone
<1>1. /\ permits \in Nat /\ IsFiniteSet(A) /\ IsFiniteSet(B)
      /\ permits + Cardinality(A) + Cardinality(B) = Max({MaxInFlight, 1})
  BY DEF PermitInv
<1>2. Cardinality(A) \in Nat /\ Cardinality(B) \in Nat
  BY <1>1, FS_CardinalityType
<1>3. CASE x \in A /\ Sending' = A \ {x} /\ SendingAlone' = B
  <2>1. IsFiniteSet(A \ {x}) /\ Cardinality(A \ {x}) = Cardinality(A) - 1
    BY <1>1, <1>3, OneLess
  <2>2. QED
    BY <1>1, <1>2, <1>3, <2>1 DEF PermitInv
<1>4. CASE x \in B /\ SendingAlone' = B \ {x} /\ Sending' = A
  <2>1. IsFiniteSet(B \ {x}) /\ Cardinality(B \ {x}) = Cardinality(B) - 1
    BY <1>1, <1>4, OneLess
  <2>2. QED
    BY <1>1, <1>2, <1>4, <2>1 DEF PermitInv
<1>5. QED
  BY <1>3, <1>4

(***************************************************************************)
(* Every step keeps the count.                                             *)
(***************************************************************************)
LEMMA PermitStep == WorkerInv /\ PermitInv /\ [Next]_vars => PermitInv'
<1> SUFFICES ASSUME WorkerInv, PermitInv, [Next]_vars PROVE PermitInv'
  OBVIOUS
<1>0. ASSUME UNCHANGED permits, Sending' = Sending, SendingAlone' = SendingAlone
      PROVE  PermitInv'
  BY <1>0 DEF PermitInv
<1>1. ASSUME NEW batch, SpawnFlush(batch), UNCHANGED <<permits, tasks>> PROVE PermitInv'
  <2>1. Sending' = Sending
    BY <1>1 DEF SpawnFlush, Sending
  <2>2. QED
    BY <1>0, <1>1, <2>1 DEF SendingAlone
<1>2. CASE UNCHANGED <<permits, tasks, flushes>>
  BY <1>0, <1>2 DEF Sending, SendingAlone
<1>3. ASSUME NEW f \in flushes, AcquireForGroup(f) PROVE PermitInv'
  <2> DEFINE h == [groups |-> f.groups, holds |-> TRUE]
  <2>1. /\ ~f.holds /\ permits > 0 /\ permits' = permits - 1 /\ UNCHANGED tasks
        /\ flushes' = (flushes \ {f}) \cup {h}
    BY <1>3 DEF AcquireForGroup
  <2>2. h.groups = f.groups /\ h.holds
    OBVIOUS
  <2> HIDE DEF h
  <2>3. h \notin flushes
    <3>1. SUFFICES ASSUME h \in flushes PROVE FALSE
      OBVIOUS
    <3>2. h # f
      BY <2>1, <2>2
    <3>3. Members(f.groups) \cap Members(f.groups) = {}
      BY <2>2, <3>1, <3>2 DEF WorkerInv, FlushInv
    <3>4. Packed(f.groups) /\ f.groups # <<>>
      BY DEF WorkerInv, FlushInv
    <3>5. Head(f.groups) \in Seq(Units) /\ Head(f.groups) # <<>>
          /\ ToSet(Head(f.groups)) \subseteq Members(f.groups)
      BY <3>4, PackTail
    <3>6. Head(Head(f.groups)) \in ToSet(Head(f.groups))
      BY <3>5, HeadAndTail
    <3>7. QED
      BY <3>3, <3>5, <3>6
  <2>4. Sending' = Sending \cup {h} /\ h \notin Sending /\ SendingAlone' = SendingAlone
    BY <2>1, <2>2, <2>3 DEF Sending, SendingAlone
  <2>5. QED
    BY <2>1, <2>4, PermitTaken
<1>4. ASSUME NEW f \in flushes, SettleGroup(f) \/ SettleGroupFails(f) PROVE PermitInv'
  <2>1. f.holds /\ GroupDone(f)
    BY <1>4 DEF SettleGroup, SettleGroupFails
  <2>2. permits' = permits + 1 /\ Sending' = Sending \ {f} /\ f \in Sending
    BY <2>1 DEF GroupDone, Sending
  <2>3. SendingAlone' = SendingAlone
    <3>1. CASE UNCHANGED tasks
      BY <3>1 DEF SendingAlone
    <3>2. CASE SettleGroup(f)
      <4> DEFINE n == [group |-> Head(f.groups), todo |-> <<>>, at |-> "poll"]
      <4>1. tasks' = tasks \cup {n} /\ n.at # "send"
        BY <3>2 DEF SettleGroup
      <4> HIDE DEF n
      <4>2. QED
        BY <4>1 DEF SendingAlone
    <3>3. QED
      BY <1>4, <3>1, <3>2 DEF SettleGroupFails
  <2>4. QED
    BY <2>2, <2>3, PermitGiven
<1>5. ASSUME NEW t \in tasks, Confirm(t) \/ ConfirmAlone(t) PROVE PermitInv'
  <2>1. UNCHANGED <<permits, flushes>> /\ t.at # "send"
    BY <1>5 DEF Confirm, ConfirmAlone
  <2>2. tasks \ {t} \subseteq tasks' /\ \A s \in tasks' : s \in tasks \ {t} \/ s.at = "permit"
    <3>1. CASE tasks' = tasks \ {t}
      BY <3>1
    <3>2. ASSUME NEW d, tasks' = (tasks \ {t}) \cup {[group |-> t.group, todo |-> d, at |-> "permit"]}
          PROVE  /\ tasks \ {t} \subseteq tasks'
                 /\ \A s \in tasks' : s \in tasks \ {t} \/ s.at = "permit"
      BY <3>2
    <3>3. \/ tasks' = tasks \ {t}
          \/ \E d : tasks' = (tasks \ {t}) \cup {[group |-> t.group, todo |-> d, at |-> "permit"]}
      BY <1>5 DEF Confirm, ConfirmAlone, AloneDone
    <3>4. QED
      BY <3>1, <3>2, <3>3
  <2>3. SendingAlone' = SendingAlone
    BY <2>1, <2>2 DEF SendingAlone
  <2>4. QED
    BY <1>0, <2>1, <2>3 DEF Sending
<1>6. ASSUME NEW t \in tasks, AcquireAlone(t) PROVE PermitInv'
  <2>1. /\ permits > 0 /\ permits' = permits - 1 /\ UNCHANGED flushes
        /\ At(t, "send") /\ t.at = "permit" /\ TaskFits(t)
    BY <1>6 DEF AcquireAlone, WorkerInv, TaskInv
  <2>2. PICK s : Becomes(t, {s}) /\ s.at = "send" /\ s.todo = t.todo
    BY <2>1, AtFits
  <2>3. s.group = t.group /\ tasks' = (tasks \ {t}) \cup {s}
    BY <2>2 DEF Becomes
  <2>4. s \notin tasks
    <3>1. s # t
      BY <2>1, <2>2
    <3>2. Head(t.group) \in ToSet(t.group)
      BY <2>1, HeadAndTail DEF TaskFits
    <3>3. QED
      BY <2>3, <3>1, <3>2 DEF WorkerInv, TaskInv
  <2>5. SendingAlone' = SendingAlone \cup {s} /\ s \notin SendingAlone /\ Sending' = Sending
    BY <2>1, <2>2, <2>3, <2>4 DEF Sending, SendingAlone
  <2>6. QED
    BY <2>1, <2>5, PermitTaken
<1>7. ASSUME NEW t \in tasks, SendAlone(t) PROVE PermitInv'
  <2>1. /\ permits' = permits + 1 /\ UNCHANGED flushes /\ t.at = "send" /\ TaskFits(t)
    BY <1>7 DEF SendAlone, WorkerInv, TaskInv
  <2>2. tasks \ {t} \subseteq tasks' /\ \A s \in tasks' : s \in tasks \ {t} \/ s.at # "send"
    <3>1. CASE At(t, "alone")
      <4>1. PICK s : Becomes(t, {s}) /\ s.at = "alone"
        BY <2>1, <3>1, AtFits
      <4>2. QED
        BY <4>1 DEF Becomes
    <3>2. CASE AloneDone(t, "error")
      BY <3>2 DEF AloneDone
    <3>3. QED
      BY <1>7, <3>1, <3>2 DEF SendAlone
  <2>3. SendingAlone' = SendingAlone \ {t} /\ t \in SendingAlone /\ Sending' = Sending
    BY <2>1, <2>2 DEF Sending, SendingAlone
  <2>4. QED
    BY <2>1, <2>3, PermitGiven
<1>8. CASE Receive \/ Linger \/ Drain
  BY <1>1, <1>2, <1>8 DEF Receive, Linger, Drain
<1>9. QED
  BY <1>2, <1>3, <1>4, <1>5, <1>6, <1>7, <1>8
  DEF Next, vars, Submit, PayerCloses, DropHandles, Land, FlushTask, ConfirmTask

LEMMA PlainStep == WorkerInv /\ PlainInv /\ [Next]_vars => PlainInv'
<1> SUFFICES ASSUME WorkerInv, PlainInv, [Next]_vars PROVE PlainInv'
  OBVIOUS
<1>1. awaits' \subseteq Units /\ bad' \subseteq Units /\ tried' \subseteq Units
  <2>1. ASSUME NEW t \in tasks, AcquireAlone(t) PROVE tried' \subseteq Units
    <3>1. Head(t.todo) \in Units
      BY <2>1, HeadAndTail DEF AcquireAlone, WorkerInv, TaskInv, TaskFits
    <3>2. QED
      BY <2>1, <3>1 DEF AcquireAlone, PlainInv
  <2>2. tried' = tried \/ \E t \in tasks : AcquireAlone(t)
    BY DEF Next, vars, Submit, PayerCloses, Receive, Linger, DropHandles, Drain, FlushTask,
       AcquireForGroup, SettleGroup, SettleGroupFails, ConfirmTask, Confirm, SendAlone,
       ConfirmAlone, Land
  <2>3. awaits' = awaits /\ (bad' = bad \/ \E u \in Units : bad' = bad \cup {u})
    BY DEF Next, vars, Submit, PayerCloses, Receive, Linger, DropHandles, Drain, FlushTask,
       AcquireForGroup, SettleGroup, SettleGroupFails, ConfirmTask, Confirm, AcquireAlone,
       SendAlone, ConfirmAlone, Land
  <2>4. QED
    BY <2>1, <2>2, <2>3 DEF PlainInv
<1>2. open' \in BOOLEAN /\ running' \in BOOLEAN /\ deadline' \in BOOLEAN
  <2>1. open' \in {open, FALSE} /\ running' \in {running, FALSE}
        /\ deadline' \in {deadline, TRUE, FALSE}
    BY Zenon DEF Next, vars, Submit, PayerCloses, Receive, Linger, DropHandles, Drain, FlushTask,
       AcquireForGroup, SettleGroup, SettleGroupFails, ConfirmTask, Confirm, AcquireAlone,
       SendAlone, ConfirmAlone, Land, actor
  <2>2. QED
    BY <2>1, Zenon DEF PlainInv
<1>3. \A f \in flushes' : f.holds \in BOOLEAN
  <2>1. \A f \in flushes' : f \in flushes \/ \E gs : \E b \in BOOLEAN :
                                               f = [groups |-> gs, holds |-> b]
    BY DEF Next, vars, Submit, PayerCloses, Receive, Linger, DropHandles, Drain, FlushTask,
       AcquireForGroup, SettleGroup, SettleGroupFails, ConfirmTask, Confirm, AcquireAlone,
       SendAlone, ConfirmAlone, Land, actor, GroupDone, SpawnFlush
  <2>2. QED
    BY <2>1 DEF PlainInv
<1>4. QED
  BY <1>1, <1>2, <1>3, Zenon DEF PlainInv

LEMMA PermitInit == Init => PermitInv /\ PlainInv
<1> SUFFICES ASSUME Init PROVE PermitInv /\ PlainInv
  OBVIOUS
<1>1. Sending = {} /\ SendingAlone = {} /\ permits = Max({MaxInFlight, 1})
  BY DEF Init, Sending, SendingAlone
<1>2. Max({MaxInFlight, 1}) \in Nat
  <2>1. MaxInFlight \in Nat
    BY WorkerAssumption
  <2>2. \E x \in {MaxInFlight, 1} : \A y \in {MaxInFlight, 1} : x >= y
    BY <2>1
  <2>3. QED
    BY <2>1, <2>2 DEF Max
<1>3. IsFiniteSet({}) /\ Cardinality({}) = 0
  BY FS_EmptySet
<1>4. PermitInv
  BY <1>1, <1>2, <1>3 DEF PermitInv
<1>5. open \in BOOLEAN /\ running \in BOOLEAN /\ deadline \in BOOLEAN
  BY Zenon DEF Init
<1>6. QED
  BY <1>4, <1>5, Zenon DEF Init, PlainInv

(***************************************************************************)
(* Type correctness of the worker.  Its last part is the semaphore: with   *)
(* the permits that are left, the flush tasks and the settle_alone calls   *)
(* that are sending add up to max_in_flight_tx, so none is lost on an      *)
(* error path and never more transactions are sent at a time.              *)
(***************************************************************************)
THEOREM WorkerTyped == Spec => []TypeOK
<1>1. WorkerInv /\ PermitInv /\ PlainInv => TypeOK
  <2> SUFFICES ASSUME WorkerInv, PermitInv, PlainInv PROVE TypeOK
    OBVIOUS
  <2>1. \A f \in flushes : f.groups \in Seq(Seq(Units)) /\ f.holds \in BOOLEAN
    BY Zenon DEF WorkerInv, FlushInv, Packed, PlainInv
  <2>2. \A t \in tasks : /\ t.group \in Seq(Units) /\ t.todo \in Seq(Units)
                         /\ t.at \in {"poll", "permit", "send", "alone"}
    BY DEF WorkerInv, TaskInv, TaskFits
  <2>3. \A t \in txs : /\ t.units \subseteq Units /\ t.alone \in BOOLEAN
                       /\ t.state \in MayApply \cup {"failed"}
    <3>1. txs \subseteq Txs
      BY DEF WorkerInv, TxInv
    <3>2. QED
      BY <3>1 DEF Txs
  <2>4. {open, running, deadline} \subseteq BOOLEAN
    BY Zenon DEF PlainInv
  <2>5. /\ awaits \subseteq Units /\ bad \subseteq Units /\ tried \subseteq Units
        /\ unsent \subseteq Units /\ queue \in Seq(Units) /\ pending \in Seq(Units)
        /\ reply \in [Units -> Replies]
    BY DEF PlainInv, WorkerInv, ActorInv, ReplyInv
  <2>6. permits + Cardinality({f \in flushes : f.holds})
               + Cardinality({t \in tasks : t.at = "send"}) = Max({MaxInFlight, 1})
    BY DEF PermitInv, Sending, SendingAlone
  <2>7. QED
    BY <2>1, <2>2, <2>3, <2>4, <2>5, <2>6, Zenon DEF TypeOK
<1>2. Spec => [](WorkerInv /\ PermitInv /\ PlainInv)
  BY WorkerInit, WorkerStep, PermitInit, PermitStep, PlainStep, PTL DEF Spec
<1>3. QED
  BY <1>1, <1>2, PTL

=============================================================================
