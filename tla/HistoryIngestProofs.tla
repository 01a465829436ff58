------------------------ MODULE HistoryIngestProofs ------------------------
(***************************************************************************)
(* Machine-checked safety of the history ingest, for any calls, entries and *)
(* limits: HistoryInv is inductive and implies BucketsReplayLog and         *)
(* OneEffectPerRequest; with MetricsInv, inductive on top of it, it implies *)
(* MetricsConserve.                                                         *)
(***************************************************************************)
EXTENDS HistoryIngest, FiniteSetTheorems, NaturalsInduction, TLAPS

Pcs == {"new", "arrived", "registered", "merging", "completed", "responded", "done"}

Statuses == {0, 200, 202, 400, 401, 405, 409, 413, 415, 426, 500}

\* A row of market_history_buckets, and one of market_history_ingest_raw.
RowType == [observed : Nat, count : Int, price : SUBSET Int]

RawType == [key : Int \X Int \X Int \X Int \X Int, observed : Nat, count : Int, price : SUBSET Int]

Written == UNION {[D -> RowType] : D \in SUBSET Keys}

CallType == [pc : Pcs, status : Statuses, locks : SUBSET Keys, writes : Written,
             accepted : Nat, touched : Nat, duplicate : BOOLEAN]

RequestType == [status : {"none", "completed"}, hash : {<<>>} \cup {Request[c] : c \in Sound},
                accepted : Nat, touched : Nat]

Logged == {log[n] : n \in DOMAIN log}

StateTyped ==
    /\ requests \in [Ids -> RequestType]
    /\ raw \in [Ids -> Seq(RawType)]
    /\ buckets \in [Keys -> RowType]
    /\ call \in [Calls -> CallType]
    /\ log \in Seq(Sound)

\* A call that has a transaction, or waits to register, has no answer yet and
\* nobody has committed its identifier.
InTransaction(c, r) ==
    /\ r.pc \in {"arrived", "registered", "merging", "completed"} => c \in Sound
    /\ r.pc \notin {"responded", "done"} => r.status = 0 /\ ~r.duplicate /\ c \notin Logged
    /\ r.pc \in {"registered", "merging", "completed"} => requests[Id[c]].status = "none"

\* What the upsert has locked and written so far: the row written for a key
\* is the latest of the batch, and it is written exactly when it touches the
\* row that is still the committed one.
Merged(c, r) ==
    /\ r.pc \notin {"merging", "completed"} => r.locks = {} /\ DOMAIN r.writes = {}
    /\ DOMAIN r.writes \subseteq r.locks
    /\ r.pc \in {"merging", "completed"} =>
          /\ r.locks \subseteq KeysOf[c]
          /\ Len(Rows[c]) = Received[c]
          /\ \A k \in r.locks :
                /\ k \in DOMAIN r.writes <=> Touches(buckets[k], Latest[c][k])
                /\ k \in DOMAIN r.writes => r.writes[k] = Latest[c][k]
    /\ r.pc = "completed" => r.locks = KeysOf[c] /\ r.accepted = Received[c]

\* What an answer says of the stored request.
Answered(c, r) ==
    /\ c \in Logged \/ r.duplicate \/ r.status = 409 =>
          c \in Sound /\ requests[Id[c]].status = "completed"
    /\ c \in Logged =>
          /\ ~r.duplicate /\ r.status \in {202, 500}
          /\ Len(Rows[c]) = Received[c]
          /\ raw[Id[c]] = Rows[c]
          /\ requests[Id[c]].hash = Request[c]
          /\ requests[Id[c]].accepted = Received[c]
          /\ r.status = 202 => r.accepted = Received[c] /\ r.touched = requests[Id[c]].touched
    /\ r.duplicate =>
          /\ r.status = 200 /\ requests[Id[c]].hash = Request[c]
          /\ r.accepted = requests[Id[c]].accepted
          /\ r.touched = requests[Id[c]].touched
    /\ r.status = 409 => requests[Id[c]].hash # Request[c]
    /\ r.status \in {200, 202} => r.duplicate \/ c \in Logged

\* Two calls never share a row lock or an open identifier.
Apart(c, r, d, s) ==
    /\ r.locks \cap s.locks = {}
    /\ ~(/\ r.pc \in {"registered", "merging", "completed"} /\ s.pc \in {"registered", "merging", "completed"}
         /\ Id[c] = Id[d])

AllApart == \A c, d \in Calls : c # d => Apart(c, call[c], d, call[d])

\* A request row is there because some call committed it, and without it the
\* audit trail has no row of the identifier.
RequestsLogged ==
    \A i \in Ids : /\ requests[i].status = "completed" => \E c \in Logged : Id[c] = i
                   /\ requests[i].status = "none" => raw[i] = <<>>

\* No two commits have the same identifier.
LogApart == \A m, n \in DOMAIN log : Id[log[m]] = Id[log[n]] => m = n

\* In the log g, row m of commit n is of key k.
IsCapture(g, k, n, m) == n \in DOMAIN g /\ m \in DOMAIN Rows[g[n]] /\ Rows[g[n]][m].key = k

\* In the log g, row q of commit p is no newer than row m of commit n.
Before(g, p, q, n, m) ==
    LET x == Rows[g[p]][q].observed
        y == Rows[g[n]][m].observed IN
    x < y \/ (x = y /\ (p < n \/ (p = n /\ q <= m)))

\* v is the last capture of key k in the log g.
LastOf(g, k, v) ==
    \/ v = NoBucket /\ \A p, q : ~IsCapture(g, k, p, q)
    \/ \E n, m : /\ IsCapture(g, k, n, m)
                 /\ v = Values(Rows[g[n]][m])
                 /\ \A p, q : IsCapture(g, k, p, q) => Before(g, p, q, n, m)

\* BucketsReplayLog with the last capture of every bucket as a witness.
Replayed == \A k \in Keys : LastOf(log, k, buckets[k])

\* The inductive invariant of the tables.
HistoryInv ==
    /\ StateTyped
    /\ \A c \in Calls : /\ InTransaction(c, call[c])
                        /\ Merged(c, call[c])
                        /\ Answered(c, call[c])
    /\ AllApart
    /\ RequestsLogged
    /\ LogApart
    /\ Replayed

MetricsType == [requests : Nat, inFlight : Nat, succeeded : Nat, errors : Nat,
                duplicates : Nat, received : Nat, stored : Nat, rejected : Nat,
                duplicated : Nat, touched : Nat]

Active == {c \in Calls : call[c].pc \notin {"new", "done"}}

\* The inductive invariant of the metrics, on top of HistoryInv.
MetricsInv ==
    /\ metrics \in MetricsType
    /\ IsFiniteSet(Active) /\ metrics.inFlight = Cardinality(Active)
    /\ metrics.requests = metrics.inFlight + metrics.succeeded + metrics.errors
    /\ metrics.received = metrics.stored + metrics.rejected + metrics.duplicated
    /\ IsFiniteSet(StoredRows(DOMAIN log)) /\ IsFiniteSet(StoredRows(Unconfirmed))
    /\ Cardinality(StoredRows(DOMAIN log)) = metrics.stored + Cardinality(StoredRows(Unconfirmed))

-----------------------------------------------------------------------------
(* Sums, sequences and finite sets.                                         *)

\* A nonempty set of naturals has a least element.
LEMMA LeastNatural ==
    ASSUME NEW S, S \subseteq Nat, S # {}
    PROVE  \E n \in S : \A m \in S : n <= m
<1> DEFINE R == OpToRel(<, Nat)
<1>1. IsWellFoundedOn(R, Nat)
    BY NatLessThanWellFounded
<1>2. \A x, y \in Nat : x < y => <<x, y>> \in R
    BY DEF OpToRel
<1> HIDE DEF R
<1>3. PICK x \in S : \A y \in S : ~ (<<y, x>> \in R)
    BY <1>1, WFMin
<1>4. ASSUME NEW y \in S  PROVE x <= y
  <2>1. x \in Nat /\ y \in Nat /\ ~ (<<y, x>> \in R)
      BY <1>3
  <2> QED BY <1>2, <2>1
<1> QED BY <1>3, <1>4

\* The recursion of FlattenSeq has a solution on every prefix.
LEMMA FlattenDefined ==
    ASSUME NEW s, Len(s) \in Nat
    PROVE  \E g : g = [i \in 1..Len(s) |-> IF i = 1 THEN s[i] ELSE g[i-1] \o s[i]]
<1> DEFINE Good(m) == \E g : g = [i \in 1..m |-> IF i = 1 THEN s[i] ELSE g[i-1] \o s[i]]
           Bad == {m \in 0..Len(s) : ~Good(m)}
<1>1. SUFFICES ASSUME Bad # {} PROVE FALSE
  <2>1. Len(s) \in 0..Len(s)
      OBVIOUS
  <2>2. Bad = {} => Good(Len(s))
      BY <2>1
  <2> QED BY <2>2
<1>2. PICK m \in Bad : \A k \in Bad : m <= k
  <2> HIDE DEF Good
  <2>1. Bad \subseteq Nat
      OBVIOUS
  <2> HIDE DEF Bad
  <2> QED BY <1>1, <2>1, LeastNatural
<1>3. m # 0
  <2>1. Good(0)
    <3> DEFINE g == [i \in 1..0 |-> <<>>]
    <3>1. g = [i \in 1..0 |-> IF i = 1 THEN s[i] ELSE g[i-1] \o s[i]]
        OBVIOUS
    <3> HIDE DEF g
    <3> QED BY <3>1
  <2> QED BY <2>1
<1>4. m - 1 \in 0..Len(s) /\ m \in 1..Len(s) /\ Good(m - 1)
  <2> HIDE DEF Good
  <2>1. m \in 1..Len(s) /\ m - 1 \in 0..Len(s)
      BY <1>3
  <2>2. m - 1 \notin Bad
      BY <1>2, <2>1
  <2> QED BY <2>1, <2>2
<1>5. PICK g : g = [i \in 1..(m-1) |-> IF i = 1 THEN s[i] ELSE g[i-1] \o s[i]]
    BY <1>4
<1> DEFINE h == [i \in 1..m |-> IF i < m THEN g[i] ELSE IF i = 1 THEN s[i] ELSE g[i-1] \o s[i]]
<1>6. \A i \in 1..m : h[i] = IF i = 1 THEN s[i] ELSE h[i-1] \o s[i]
  <2> TAKE i \in 1..m
  <2>1. CASE i = m
      BY <1>4, <2>1
  <2>2. CASE i < m
    <3>1. i \in 1..(m-1) /\ h[i] = g[i]
        BY <1>4, <2>2
    <3>2. g[i] = IF i = 1 THEN s[i] ELSE g[i-1] \o s[i]
        BY <1>5, <3>1
    <3>3. i # 1 => h[i-1] = g[i-1]
        BY <1>4, <2>2
    <3> QED BY <3>1, <3>2, <3>3
  <2> QED BY <1>4, <2>1, <2>2
<1>7. h = [i \in 1..m |-> IF i = 1 THEN s[i] ELSE h[i-1] \o s[i]]
  <2>1. h = [i \in 1..m |-> h[i]]
      OBVIOUS
  <2> HIDE DEF h
  <2> QED BY <1>6, <2>1
<1>8. Good(m)
  <2> HIDE DEF h
  <2> QED BY <1>7
<1> QED BY <1>2, <1>8

\* Flattening a sequence of sequences over T gives a sequence over T.
LEMMA FlattenType ==
    ASSUME NEW T, NEW s \in Seq(Seq(T))
    PROVE  FlattenSeq(s) \in Seq(T)
<1> DEFINE F == CHOOSE g : g = [i \in 1..Len(s) |-> IF i = 1 THEN s[i] ELSE g[i-1] \o s[i]]
           Bad == {i \in 1..Len(s) : F[i] \notin Seq(T)}
<1>1. CASE Len(s) = 0
   <2>1. s = <<>>
       BY <1>1
   <2>2. FlattenSeq(s) = s
       BY <1>1 DEF FlattenSeq
   <2> HIDE DEF F, Bad
   <2>3. <<>> \in Seq(T)
       OBVIOUS
   <2> QED BY <2>1, <2>2, <2>3, Zenon
<1>2. CASE Len(s) # 0
   <2>1. FlattenSeq(s) = F[Len(s)]
       BY <1>2 DEF FlattenSeq
   <2>2. F = [i \in 1..Len(s) |-> IF i = 1 THEN s[i] ELSE F[i-1] \o s[i]]
     <3>1. \E g : g = [i \in 1..Len(s) |-> IF i = 1 THEN s[i] ELSE g[i-1] \o s[i]]
       <4>1. Len(s) \in Nat
           OBVIOUS
       <4> QED BY <4>1, FlattenDefined, Zenon
     <3> QED BY <3>1
   <2> HIDE DEF F
   <2>3. \A i \in 1..Len(s) : F[i] = IF i = 1 THEN s[i] ELSE F[i-1] \o s[i]
       BY <2>2
   <2>4. ASSUME Bad # {} PROVE FALSE
     <3>1. PICK m \in Bad : \A k \in Bad : m <= k
       <4>1. Bad \subseteq Nat
           OBVIOUS
       <4> HIDE DEF Bad
       <4> QED BY <2>4, <4>1, LeastNatural
     <3>2. m \in 1..Len(s) /\ s[m] \in Seq(T)
         OBVIOUS
     <3>3. m # 1 => m - 1 \in 1..Len(s) /\ F[m-1] \in Seq(T)
         BY <3>1, <3>2
     <3>4. CASE m = 1
         BY <2>3, <3>2, <3>4
     <3>5. CASE m # 1
       <4>1. F[m] = F[m-1] \o s[m]
           BY <2>3, <3>2, <3>5
       <4>2. \A x, y \in Seq(T) : x \o y \in Seq(T)
           OBVIOUS
       <4>3. F[m] \in Seq(T)
           BY <3>2, <3>3, <3>5, <4>1, <4>2, Zenon
       <4> QED BY <4>3
     <3> QED BY <3>4, <3>5
   <2>5. Len(s) \in 1..Len(s)
       BY <1>2
   <2> QED BY <2>1, <2>4, <2>5
<1> QED BY <1>1, <1>2

\* ch picks a member of every subset of D, and g sums w over the subsets of D
\* in the order of these picks.
Picks(ch, D) == \A S \in SUBSET D : S # {} => ch[S] \in S

Sums(g, D, w, ch) == g = [S \in SUBSET D |-> IF S = {} THEN 0 ELSE g[S \ {ch[S]}] + w[ch[S]]]

\* The recursion of the fold has a solution on the subsets of a finite set.
LEMMA SumDefined ==
    ASSUME NEW D, IsFiniteSet(D), NEW w, NEW ch, Picks(ch, D)
    PROVE  \E g : Sums(g, D, w, ch)
<1> DEFINE Up(m) == {S \in SUBSET D : Cardinality(S) <= m}
           Good(m) == \E g : g = [S \in Up(m) |-> IF S = {} THEN 0 ELSE g[S \ {ch[S]}] + w[ch[S]]]
           Bad == {m \in Nat : ~Good(m)}
<1>1. \A S \in SUBSET D : IsFiniteSet(S) /\ Cardinality(S) \in Nat /\ Cardinality(S) <= Cardinality(D)
    BY FS_Subset, FS_CardinalityType
<1>2. Cardinality(D) \in Nat /\ Up(Cardinality(D)) = SUBSET D
    BY <1>1, FS_CardinalityType
<1>3. \A S \in SUBSET D : S # {} => S \ {ch[S]} \in SUBSET D /\ Cardinality(S \ {ch[S]}) = Cardinality(S) - 1
    BY <1>1, FS_RemoveElement DEF Picks
<1>4. SUFFICES ASSUME Bad # {} PROVE FALSE
  <2>1. SUFFICES ASSUME Good(Cardinality(D)) PROVE \E g : Sums(g, D, w, ch)
    <3> HIDE DEF Good
    <3> QED BY <1>2
  <2>2. PICK g : g = [S \in Up(Cardinality(D)) |-> IF S = {} THEN 0 ELSE g[S \ {ch[S]}] + w[ch[S]]]
      BY <2>1
  <2> HIDE DEF Up
  <2>3. Sums(g, D, w, ch)
      BY <1>2, <2>2 DEF Sums
  <2> QED BY <2>3
<1>5. PICK m \in Bad : \A k \in Bad : m <= k
  <2> HIDE DEF Good
  <2>1. Bad \subseteq Nat
      OBVIOUS
  <2> HIDE DEF Bad
  <2> QED BY <1>4, <2>1, LeastNatural
<1>6. m # 0
  <2>1. Good(0)
    <3>1. \A S \in Up(0) : S = {}
        BY <1>1, FS_EmptySet
    <3> DEFINE g == [S \in Up(0) |-> 0]
    <3> HIDE DEF Up
    <3>2. g = [S \in Up(0) |-> IF S = {} THEN 0 ELSE g[S \ {ch[S]}] + w[ch[S]]]
        BY <3>1
    <3> HIDE DEF g
    <3> QED BY <3>2
  <2> HIDE DEF Good
  <2> QED BY <2>1
<1>7. m - 1 \in Nat /\ m \in Nat /\ Good(m - 1)
  <2> HIDE DEF Good
  <2>1. m \in Nat /\ m - 1 \in Nat
      BY <1>6
  <2>2. m - 1 \notin Bad
      BY <1>5, <2>1
  <2> QED BY <2>1, <2>2
<1>8. PICK g : g = [S \in Up(m - 1) |-> IF S = {} THEN 0 ELSE g[S \ {ch[S]}] + w[ch[S]]]
    BY <1>7
<1> DEFINE Val(S) == IF S = {} THEN 0 ELSE g[S \ {ch[S]}] + w[ch[S]]
           h == [S \in Up(m) |-> Val(S)]
<1>9. \A S \in Up(m) : S # {} => S \ {ch[S]} \in Up(m - 1) /\ S \ {ch[S]} \in Up(m)
    BY <1>1, <1>3, <1>7
<1>10. \A S \in Up(m - 1) : S \in Up(m) /\ g[S] = Val(S)
  <2>1. \A S \in Up(m - 1) : S \in Up(m)
      BY <1>1, <1>7
  <2> HIDE DEF Up
  <2> QED BY <1>8, <2>1
<1> HIDE DEF Up
<1>11. \A S \in Up(m) : h[S] = IF S = {} THEN 0 ELSE h[S \ {ch[S]}] + w[ch[S]]
  <2>1. \A S \in Up(m - 1) : h[S] = g[S]
      BY <1>10
  <2> QED BY <1>9, <2>1
<1>12. h = [S \in Up(m) |-> IF S = {} THEN 0 ELSE h[S \ {ch[S]}] + w[ch[S]]]
  <2>1. h = [S \in Up(m) |-> h[S]]
      OBVIOUS
  <2> HIDE DEF h
  <2> QED BY <1>11, <2>1
<1>13. Good(m)
  <2> HIDE DEF h
  <2> QED BY <1>12
<1> QED BY <1>5, <1>13

\* The sum of naturals is one.
LEMMA SumType ==
    ASSUME NEW D, IsFiniteSet(D), NEW w \in [D -> Nat], NEW ch, Picks(ch, D),
           NEW g, Sums(g, D, w, ch)
    PROVE  g[D] \in Nat
<1> DEFINE Bad == {S \in SUBSET D : g[S] \notin Nat}
           B == {Cardinality(S) : S \in Bad}
<1>1. \A S \in SUBSET D : IsFiniteSet(S) /\ Cardinality(S) \in Nat
    BY FS_Subset, FS_CardinalityType
<1>2. \A S \in SUBSET D : S # {} => S \ {ch[S]} \in SUBSET D /\ Cardinality(S \ {ch[S]}) = Cardinality(S) - 1
    BY <1>1, FS_RemoveElement DEF Picks
<1>3. \A S \in SUBSET D : /\ S = {} => g[S] = 0
                          /\ S # {} => g[S] = g[S \ {ch[S]}] + w[ch[S]]
    BY DEF Sums
<1>4. ASSUME Bad # {} PROVE FALSE
  <2>1. PICK n \in B : \A m \in B : n <= m
    <3>1. B # {} /\ B \subseteq Nat
        BY <1>1, <1>4
    <3> HIDE DEF B
    <3> QED BY <3>1, LeastNatural
  <2>2. PICK S \in Bad : n = Cardinality(S)
      OBVIOUS
  <2>3. S # {}
    <3>1. S \in SUBSET D /\ g[S] \notin Nat
        OBVIOUS
    <3> HIDE DEF Bad, B
    <3>2. S = {} => g[S] = 0
        BY <1>3, <3>1
    <3> QED BY <3>1, <3>2
  <2>4. ASSUME S \ {ch[S]} \in Bad PROVE FALSE
    <3>1. Cardinality(S) \in Nat /\ Cardinality(S \ {ch[S]}) = Cardinality(S) - 1
        BY <1>1, <1>2, <2>3
    <3>2. n <= Cardinality(S \ {ch[S]})
        BY <2>1, <2>4
    <3> QED BY <2>2, <3>1, <3>2
  <2>5. g[S \ {ch[S]}] \in Nat /\ w[ch[S]] \in Nat
      BY <1>2, <2>3, <2>4 DEF Picks
  <2>6. g[S] = g[S \ {ch[S]}] + w[ch[S]] /\ g[S] \notin Nat
      BY <1>3, <2>3
  <2> QED BY <2>5, <2>6
<1> QED BY <1>4

\* The sum does not depend on the function that computes it.
LEMMA SumUnique ==
    ASSUME NEW D, IsFiniteSet(D), NEW w, NEW ch, Picks(ch, D),
           NEW g, Sums(g, D, w, ch), NEW h, Sums(h, D, w, ch)
    PROVE  g[D] = h[D]
<1> DEFINE Bad == {S \in SUBSET D : g[S] # h[S]}
           B == {Cardinality(S) : S \in Bad}
<1>1. \A S \in SUBSET D : IsFiniteSet(S) /\ Cardinality(S) \in Nat
    BY FS_Subset, FS_CardinalityType
<1>2. \A S \in SUBSET D : S # {} => S \ {ch[S]} \in SUBSET D /\ Cardinality(S \ {ch[S]}) = Cardinality(S) - 1
    BY <1>1, FS_RemoveElement DEF Picks
<1>3. \A S \in SUBSET D : /\ S = {} => g[S] = 0 /\ h[S] = 0
                          /\ S # {} => /\ g[S] = g[S \ {ch[S]}] + w[ch[S]]
                                       /\ h[S] = h[S \ {ch[S]}] + w[ch[S]]
    BY DEF Sums
<1>4. ASSUME Bad # {} PROVE FALSE
  <2>1. PICK n \in B : \A m \in B : n <= m
    <3>1. B # {} /\ B \subseteq Nat
        BY <1>1, <1>4
    <3> HIDE DEF B
    <3> QED BY <3>1, LeastNatural
  <2>2. PICK S \in Bad : n = Cardinality(S)
      OBVIOUS
  <2>3. S \in SUBSET D /\ g[S] # h[S]
      OBVIOUS
  <2>4. S # {}
    <3> HIDE DEF Bad, B
    <3> QED BY <1>3, <2>3
  <2>5. ASSUME S \ {ch[S]} \in Bad PROVE FALSE
    <3>1. Cardinality(S) \in Nat /\ Cardinality(S \ {ch[S]}) = Cardinality(S) - 1
        BY <1>1, <1>2, <2>3, <2>4
    <3>2. n <= Cardinality(S \ {ch[S]})
        BY <2>1, <2>5
    <3> QED BY <2>2, <3>1, <3>2
  <2>6. g[S \ {ch[S]}] = h[S \ {ch[S]}]
      BY <1>2, <2>3, <2>4, <2>5
  <2> HIDE DEF Bad, B
  <2>7. g[S] = g[S \ {ch[S]}] + w[ch[S]] /\ h[S] = h[S \ {ch[S]}] + w[ch[S]]
      BY <1>3, <2>3, <2>4
  <2> QED BY <2>3, <2>6, <2>7
<1> QED BY <1>4

\* What FoldSeq adds up for the entries s, and the order in which it does.
Lengths(s) == [n \in DOMAIN s |-> Len(s[n].history)]

Chosen(D) == [S \in SUBSET D |-> CHOOSE x \in S : TRUE]

\* The number of buckets of a request is the sum of the lengths.
LEMMA BucketsInSum ==
    ASSUME NEW s, IsFiniteSet(DOMAIN s), \A n \in DOMAIN s : Len(s[n].history) \in Nat
    PROVE  /\ Lengths(s) \in [DOMAIN s -> Nat] /\ Picks(Chosen(DOMAIN s), DOMAIN s)
           /\ \E g : Sums(g, DOMAIN s, Lengths(s), Chosen(DOMAIN s)) /\ BucketsIn(s) = g[DOMAIN s]
<1> DEFINE D == DOMAIN s
           w == Lengths(s)
           ch == Chosen(D)
           Raw(g) == [S \in SUBSET D |-> IF S = {} THEN 0
                         ELSE g[S \ {CHOOSE x \in S : TRUE}] + Len(s[CHOOSE x \in S : TRUE].history)]
           G == CHOOSE g : g = Raw(g)
<1>1. BucketsIn(s) = G[D]
    BY DEF BucketsIn, FoldSeq, FoldFunction, FoldFunctionOnSet, MapThenFoldSet
<1>2. Picks(ch, D)
    BY DEF Picks, Chosen
<1>3. w \in [D -> Nat] /\ IsFiniteSet(D)
    BY DEF Lengths
<1>4. ASSUME NEW g PROVE Sums(g, D, w, ch) <=> g = Raw(g)
  <2>1. \A S \in SUBSET D : S # {} => ch[S] = (CHOOSE x \in S : TRUE) /\ w[ch[S]] = Len(s[CHOOSE x \in S : TRUE].history)
      BY <1>2 DEF Picks, Chosen, Lengths
  <2> HIDE DEF ch, w
  <2>2. Raw(g) = [S \in SUBSET D |-> IF S = {} THEN 0 ELSE g[S \ {ch[S]}] + w[ch[S]]]
      BY <2>1, ZenonT(60)
  <2> HIDE DEF Raw
  <2> QED BY <2>2 DEF Sums
<1> HIDE DEF D, w, ch, Raw
<1>5. \E g : Sums(g, D, w, ch)
    BY <1>2, <1>3, SumDefined
<1>6. G = Raw(G)
    BY <1>4, <1>5, Zenon
<1>7. Sums(G, D, w, ch)
    BY <1>4, <1>6, Zenon
<1> HIDE DEF G
<1> QED BY <1>1, <1>2, <1>3, <1>7 DEF D, w, ch

\* It is a natural number ...
LEMMA BucketsInType ==
    ASSUME NEW s, IsFiniteSet(DOMAIN s), \A n \in DOMAIN s : Len(s[n].history) \in Nat
    PROVE  BucketsIn(s) \in Nat
<1> DEFINE D == DOMAIN s
           w == Lengths(s)
           ch == Chosen(D)
<1>1. PICK g : Sums(g, D, w, ch) /\ BucketsIn(s) = g[D]
    BY BucketsInSum
<1>2. w \in [D -> Nat] /\ Picks(ch, D)
    BY BucketsInSum
<1> HIDE DEF w, ch
<1> QED BY <1>1, <1>2, SumType

\* ... and depends on the lengths alone.
LEMMA BucketsInSame ==
    ASSUME NEW s, IsFiniteSet(DOMAIN s), \A n \in DOMAIN s : Len(s[n].history) \in Nat,
           NEW t, DOMAIN t = DOMAIN s, \A n \in DOMAIN s : Len(t[n].history) = Len(s[n].history)
    PROVE  BucketsIn(t) = BucketsIn(s)
<1> DEFINE D == DOMAIN s
           w == Lengths(s)
           ch == Chosen(D)
<1>1. PICK g : Sums(g, D, w, ch) /\ BucketsIn(s) = g[D]
    BY BucketsInSum
<1>2. Lengths(t) = w
    BY DEF Lengths
<1>3. PICK h : Sums(h, D, w, ch) /\ BucketsIn(t) = h[D]
  <2>1. \E h : Sums(h, DOMAIN t, Lengths(t), Chosen(DOMAIN t)) /\ BucketsIn(t) = h[DOMAIN t]
    <3>1. IsFiniteSet(DOMAIN t) /\ \A n \in DOMAIN t : Len(t[n].history) \in Nat
        OBVIOUS
    <3> QED BY <3>1, BucketsInSum
  <2> QED BY <1>2, <2>1
<1>4. Picks(ch, D)
    BY BucketsInSum
<1> HIDE DEF w, ch
<1> QED BY <1>1, <1>3, <1>4, SumUnique

\* A finite family of finite sets has a member that contains no other.
LEMMA FiniteMinimal ==
    ASSUME NEW S, IsFiniteSet(S), NEW T, T \subseteq SUBSET S, T # {}
    PROVE  \E X \in T : \A Y \in T : Y \subseteq X => Y = X
<1>1. T \subseteq FiniteSubsetsOf(S)
    BY FS_Subset DEF FiniteSubsetsOf
<1>2. PICK X \in T : \A Y \in T : ~ (<<Y, X>> \in StrictSubsetOrdering(S))
    BY <1>1, WFMin, FS_StrictSubsetOrderingWellFounded
<1>3. ASSUME NEW Y \in T, Y \subseteq X, Y # X PROVE FALSE
    BY <1>2, <1>3 DEF StrictSubsetOrdering
<1> QED BY <1>3

\* A finite set with a total and transitive relation has a greatest element.
LEMMA FiniteMaximum ==
    ASSUME NEW S, IsFiniteSet(S), S # {}, NEW R,
           \A x, y \in S : <<x, y>> \in R \/ <<y, x>> \in R,
           \A x, y, z \in S : <<x, y>> \in R /\ <<y, z>> \in R => <<x, z>> \in R
    PROVE  \E m \in S : \A x \in S : <<x, m>> \in R
<1> DEFINE Up(m) == {x \in S : <<m, x>> \in R}
           T == {Up(m) : m \in S}
<1>1. T # {} /\ T \subseteq SUBSET S
    OBVIOUS
<1>2. PICK X \in T : \A Y \in T : Y \subseteq X => Y = X
  <2> HIDE DEF T
  <2> QED BY <1>1, FiniteMinimal
<1>3. PICK m \in S : X = Up(m)
    OBVIOUS
<1>4. ASSUME NEW x \in S PROVE <<x, m>> \in R
  <2>1. CASE <<m, x>> \in R
    <3>1. Up(x) \subseteq Up(m)
        BY <2>1
    <3>2. Up(x) \in T
        OBVIOUS
    <3>3. Up(x) = Up(m)
        BY <1>2, <1>3, <3>1, <3>2
    <3>4. m \in Up(m)
        OBVIOUS
    <3> QED BY <3>3, <3>4
  <2> QED BY <2>1
<1> QED BY <1>4

-----------------------------------------------------------------------------
(* The rows of a request.                                                   *)

LEMMA WrittenUse ==
    ASSUME NEW f \in Written
    PROVE  DOMAIN f \subseteq Keys /\ \A k \in DOMAIN f : f[k] \in RowType
<1>1. PICK D \in SUBSET Keys : f \in [D -> RowType]
    BY DEF Written
<1> QED BY <1>1

LEMMA WrittenMake ==
    ASSUME NEW D, D \subseteq Keys, NEW f \in [D -> RowType]
    PROVE  f \in Written
<1>1. D \in SUBSET Keys
    OBVIOUS
<1> QED BY <1>1 DEF Written

\* Every call has a number of buckets.
LEMMA ReceivedType ==
    ASSUME NEW c \in Calls
    PROVE  Received[c] \in Nat
<1> DEFINE es == Input(c).entries
<1>1. es \in Seq(EntryType)
    BY HistoryAssumption
<1>2. DOMAIN es = 1 .. Len(es) /\ Len(es) \in Nat /\ \A n \in DOMAIN es : es[n] \in EntryType
    BY <1>1
<1>3. \A n \in DOMAIN es : Len(es[n].history) \in Nat
    BY <1>2 DEF EntryType
<1>4. IsFiniteSet(DOMAIN es)
    BY <1>2, FS_Interval
<1>5. Received[c] = BucketsIn(es)
    BY DEF Received
<1> HIDE DEF es
<1> QED BY <1>3, <1>4, <1>5, BucketsInType

\* The normalised entries are entries.
LEMMA NormalizedType ==
    ASSUME NEW c \in Sound
    PROVE  /\ c \in Calls /\ Request[c] = Normalized(Input(c))
           /\ Request[c].id = Input(c).id /\ Request[c].server = Input(c).server
           /\ Request[c].server \in 1..3
           /\ Request[c].entries \in Seq(EntryType)
<1> DEFINE es == Input(c).entries
           Norm(e) == [m \in DOMAIN e.history |-> NormalizeBucket(e.history[m])]
<1>1. c \in Calls /\ Input(c).server \in 1..3 /\ Request[c] = Normalized(Input(c))
    BY DEF Sound, Valid, Servers, Request
<1>2. es \in Seq(EntryType)
    BY <1>1, HistoryAssumption
<1>3. /\ Request[c].id = Input(c).id /\ Request[c].server = Input(c).server
      /\ Request[c].entries = [n \in DOMAIN es |-> [es[n] EXCEPT !.history = Norm(es[n])]]
    BY <1>1 DEF Normalized
<1>4. \A b \in BucketType : NormalizeBucket(b) \in BucketType
    BY DEF NormalizeBucket, BucketType
<1>5. ASSUME NEW e \in EntryType PROVE [e EXCEPT !.history = Norm(e)] \in EntryType
  <2>1. e.history \in Seq(BucketType)
      BY DEF EntryType
  <2>2. Norm(e) \in Seq(BucketType)
    <3>1. DOMAIN e.history = 1 .. Len(e.history) /\ Len(e.history) \in Nat
          /\ \A m \in DOMAIN e.history : e.history[m] \in BucketType
        BY <2>1
    <3>2. Norm(e) \in [1 .. Len(e.history) -> BucketType]
        BY <1>4, <3>1
    <3> HIDE DEF Norm
    <3> QED BY <3>1, <3>2
  <2> HIDE DEF Norm
  <2> QED BY <2>2 DEF EntryType
<1>6. Request[c].entries \in Seq(EntryType)
  <2>1. DOMAIN es = 1 .. Len(es) /\ Len(es) \in Nat /\ \A n \in DOMAIN es : es[n] \in EntryType
      BY <1>2
  <2> HIDE DEF es, Norm
  <2>2. Request[c].entries \in [1 .. Len(es) -> EntryType]
      BY <1>3, <1>5, <2>1
  <2> QED BY <2>1, <2>2
<1> QED BY <1>1, <1>3, <1>6

\* The rows copied for a request: a sequence, of keys of the request.
LEMMA RowsType ==
    ASSUME NEW c \in Sound
    PROVE  /\ Rows[c] \in Seq(RawType) /\ Len(Rows[c]) \in Nat
           /\ DOMAIN Rows[c] = 1 .. Len(Rows[c])
           /\ IsFiniteSet(DOMAIN Rows[c]) /\ Cardinality(DOMAIN Rows[c]) = Len(Rows[c])
           /\ \A n \in DOMAIN Rows[c] :
                 /\ Rows[c][n].observed \in Nat
                 /\ Rows[c][n].key \in KeysOf[c] /\ Rows[c][n].key \in Keys
                 /\ Values(Rows[c][n]) \in RowType
                 /\ Values(Rows[c][n]).observed = Rows[c][n].observed
           /\ KeysOf[c] = {Rows[c][n].key : n \in DOMAIN Rows[c]}
           /\ KeysOf[c] \subseteq Keys /\ IsFiniteSet(KeysOf[c])
<1> DEFINE q == Request[c]
           es == q.entries
           Of(e) == [m \in DOMAIN e.history |->
                       [key |-> <<q.server, e.location, e.item, e.quality, e.history[m].at>>,
                        observed |-> e.observed,
                        count |-> e.history[m].count, price |-> e.history[m].price]]
           parts == [n \in DOMAIN es |-> Of(es[n])]
<1>1. q.server \in 1..3 /\ es \in Seq(EntryType)
    BY NormalizedType
<1>2. Rows[c] = FlattenSeq(parts)
    BY DEF Rows, CopyRows
<1>3. ASSUME NEW e \in EntryType PROVE Of(e) \in Seq(RawType)
  <2>1. /\ e.location \in Int /\ e.item \in Int /\ e.quality \in Int /\ e.observed \in Nat
        /\ e.history \in Seq(BucketType)
      BY DEF EntryType
  <2>2. DOMAIN e.history = 1 .. Len(e.history) /\ Len(e.history) \in Nat
        /\ \A m \in DOMAIN e.history : e.history[m] \in BucketType
      BY <2>1
  <2>3. \A m \in DOMAIN e.history : /\ e.history[m].at \in Int /\ e.history[m].count \in Int
                                    /\ e.history[m].price \in SUBSET Int
      BY <2>2 DEF BucketType
  <2>4. ASSUME NEW m \in DOMAIN e.history
        PROVE  [key |-> <<q.server, e.location, e.item, e.quality, e.history[m].at>>, observed |-> e.observed,
                count |-> e.history[m].count, price |-> e.history[m].price] \in RawType
    <3>1. q.server \in Int
        BY <1>1
    <3>2. <<q.server, e.location, e.item, e.quality, e.history[m].at>> \in Int \X Int \X Int \X Int \X Int
      <4> HIDE DEF q
      <4> QED BY <2>1, <2>3, <3>1
    <3> DEFINE key == <<q.server, e.location, e.item, e.quality, e.history[m].at>>
    <3> HIDE DEF key
    <3>3. /\ key \in Int \X Int \X Int \X Int \X Int /\ e.observed \in Nat
          /\ e.history[m].count \in Int /\ e.history[m].price \in SUBSET Int
        BY <2>1, <2>3, <3>2 DEF key
    <3>4. [key |-> key, observed |-> e.observed,
           count |-> e.history[m].count, price |-> e.history[m].price] \in RawType
        BY <3>3, Zenon DEF RawType
    <3> QED BY <3>4 DEF key
  <2>5. Of(e) \in [1 .. Len(e.history) -> RawType]
    <3>1. DOMAIN Of(e) = 1 .. Len(e.history) /\ \A m \in DOMAIN e.history : Of(e)[m] \in RawType
        BY <2>2, <2>4
    <3>2. Of(e) = [m \in 1 .. Len(e.history) |-> Of(e)[m]]
        BY <2>2
    <3> HIDE DEF Of
    <3> QED BY <2>2, <3>1, <3>2
  <2> HIDE DEF Of
  <2> QED BY <2>2, <2>5
<1>4. parts \in Seq(Seq(RawType))
  <2>1. DOMAIN es = 1 .. Len(es) /\ Len(es) \in Nat /\ \A n \in DOMAIN es : es[n] \in EntryType
      BY <1>1
  <2> HIDE DEF es, Of
  <2>2. parts \in [1 .. Len(es) -> Seq(RawType)]
      BY <1>3, <2>1
  <2> HIDE DEF parts
  <2> QED BY <2>1, <2>2
<1> HIDE DEF q, es, Of, parts
<1>5. Rows[c] \in Seq(RawType)
    BY <1>2, <1>4, FlattenType
<1>6. /\ DOMAIN Rows[c] = 1 .. Len(Rows[c]) /\ Len(Rows[c]) \in Nat
      /\ \A n \in DOMAIN Rows[c] : Rows[c][n] \in RawType
    BY <1>5
<1>7. IsFiniteSet(DOMAIN Rows[c]) /\ Cardinality(DOMAIN Rows[c]) = Len(Rows[c])
    BY <1>6, FS_Interval
<1>8. KeysOf[c] = {Rows[c][n].key : n \in DOMAIN Rows[c]}
    BY DEF KeysOf
<1>9. KeysOf[c] \subseteq Keys
    BY DEF Keys
<1>10. IsFiniteSet(KeysOf[c])
  <2> DEFINE f == [n \in DOMAIN Rows[c] |-> Rows[c][n].key]
  <2>1. f \in Surjection(DOMAIN Rows[c], KeysOf[c])
      BY <1>8 DEF Surjection
  <2> HIDE DEF f
  <2> QED BY <1>7, <2>1, FS_Surjection
<1>11. \A n \in DOMAIN Rows[c] : /\ Rows[c][n].observed \in Nat
                                 /\ Values(Rows[c][n]) \in RowType
                                 /\ Values(Rows[c][n]).observed = Rows[c][n].observed
    BY <1>6 DEF RawType, RowType, Values
<1> QED BY <1>5, <1>6, <1>7, <1>8, <1>9, <1>10, <1>11

\* distinct on ... order by observed_at desc, id desc: the row chosen is of
\* the key, as new as any other of it, and the last of the equally new ones.
LEMMA LatestIsLast ==
    ASSUME NEW c \in Sound, NEW k \in KeysOf[c]
    PROVE  \E m \in DOMAIN Rows[c] :
              /\ Rows[c][m].key = k
              /\ Latest[c][k] = Values(Rows[c][m])
              /\ Latest[c][k] \in RowType
              /\ \A n \in DOMAIN Rows[c] : Rows[c][n].key = k =>
                    \/ Rows[c][n].observed < Rows[c][m].observed
                    \/ Rows[c][n].observed = Rows[c][m].observed /\ n <= m
<1> DEFINE D == {n \in DOMAIN Rows[c] : Rows[c][n].key = k}
           After(m, n) == \/ Rows[c][m].observed > Rows[c][n].observed
                          \/ Rows[c][m].observed = Rows[c][n].observed /\ m >= n
           R == {p \in D \X D : After(p[2], p[1])}
<1>1. /\ IsFiniteSet(DOMAIN Rows[c]) /\ DOMAIN Rows[c] = 1 .. Len(Rows[c]) /\ Len(Rows[c]) \in Nat
      /\ \A n \in DOMAIN Rows[c] : Rows[c][n].observed \in Nat
      /\ KeysOf[c] = {Rows[c][n].key : n \in DOMAIN Rows[c]}
      /\ \A n \in DOMAIN Rows[c] : Values(Rows[c][n]) \in RowType
    BY RowsType
<1>2. D \subseteq DOMAIN Rows[c] /\ IsFiniteSet(D) /\ D # {}
    BY <1>1, FS_Subset
<1>3. Latest[c][k] = Values(Rows[c][CHOOSE m \in D : \A n \in D : After(m, n)])
    BY DEF Latest, LatestRow
<1>4. \A n \in D : n \in Nat /\ Rows[c][n].observed \in Nat
    BY <1>1, <1>2
<1> HIDE DEF D
<1>5. \A x, y \in D : <<x, y>> \in R <=> After(y, x)
    OBVIOUS
<1>6. \A x, y \in D : After(x, y) \/ After(y, x)
    BY <1>4
<1>7. \A x, y, z \in D : After(y, x) /\ After(z, y) => After(z, x)
    BY <1>4
<1> HIDE DEF R, After
<1>8. \E m \in D : \A n \in D : <<n, m>> \in R
    BY <1>2, <1>5, <1>6, <1>7, FiniteMaximum
<1>9. PICK m \in D : m = (CHOOSE x \in D : \A n \in D : After(x, n)) /\ \A n \in D : After(m, n)
    BY <1>5, <1>8
<1>10. m \in DOMAIN Rows[c] /\ Rows[c][m].key = k /\ Latest[c][k] = Values(Rows[c][m]) /\ Latest[c][k] \in RowType
    BY <1>1, <1>3, <1>9 DEF D
<1>11. ASSUME NEW n \in DOMAIN Rows[c], Rows[c][n].key = k
       PROVE  \/ Rows[c][n].observed < Rows[c][m].observed
              \/ Rows[c][n].observed = Rows[c][m].observed /\ n <= m
  <2>1. n \in D
      BY <1>11 DEF D
  <2> QED BY <1>4, <1>9, <2>1 DEF After
<1> QED BY <1>10, <1>11

LEMMA NoBucketType == NoBucket \in RowType /\ NoBucket.observed = 0
BY DEF NoBucket, RowType

-----------------------------------------------------------------------------
(* Statements.                                                              *)

LEMMA NewCallType ==
    /\ NewCall \in CallType
    /\ NewCall.pc = "new" /\ NewCall.status = 0 /\ NewCall.locks = {} /\ DOMAIN NewCall.writes = {}
    /\ ~NewCall.duplicate
<1>1. [k \in {} |-> NoBucket] \in [{} -> RowType]
    OBVIOUS
<1>2. [k \in {} |-> NoBucket] \in Written
    BY <1>1, WrittenMake
<1>3. DOMAIN [k \in {} |-> NoBucket] = {}
    OBVIOUS
<1> DEFINE e == [k \in {} |-> NoBucket]
<1> HIDE DEF e
<1>4. NewCall = [pc |-> "new", status |-> 0, locks |-> {}, writes |-> e,
                 accepted |-> 0, touched |-> 0, duplicate |-> FALSE]
    BY DEF NewCall, e
<1>5. e \in Written /\ DOMAIN e = {}
    BY <1>2, <1>3 DEF e
<1> QED BY <1>4, <1>5 DEF CallType, Pcs, Statuses

\* Every identifier of a sound call has a request row.
LEMMA IdType ==
    ASSUME NEW c \in Sound
    PROVE  c \in Calls /\ Id[c] \in Ids
BY DEF Sound, Ids

LEMMA InitHistory == Init => HistoryInv
<1> SUFFICES ASSUME Init PROVE HistoryInv
    OBVIOUS
<1>1. \A c \in Calls : call[c] = NewCall
    BY DEF Init
<1>2. log = <<>> /\ Logged = {} /\ DOMAIN log = {}
    BY DEF Init, Logged
<1>3. StateTyped
  <2>1. requests \in [Ids -> RequestType]
    <3>1. NoRequest \in RequestType
        BY DEF NoRequest, RequestType
    <3> QED BY <3>1 DEF Init
  <2>2. raw \in [Ids -> Seq(RawType)]
    <3>1. <<>> \in Seq(RawType)
        OBVIOUS
    <3> QED BY <3>1 DEF Init
  <2>3. buckets \in [Keys -> RowType]
      BY NoBucketType DEF Init
  <2>4. call \in [Calls -> CallType]
      BY NewCallType DEF Init
  <2>5. log \in Seq(Sound)
      BY <1>2
  <2> QED BY <2>1, <2>2, <2>3, <2>4, <2>5 DEF StateTyped
<1>4. \A c \in Calls : InTransaction(c, call[c]) /\ Merged(c, call[c]) /\ Answered(c, call[c])
    BY <1>1, <1>2, NewCallType DEF InTransaction, Merged, Answered
<1>5. AllApart
    BY <1>1, NewCallType DEF AllApart, Apart
<1>6. RequestsLogged
    BY DEF RequestsLogged, Init, NoRequest
<1>7. LogApart
    BY <1>2 DEF LogApart
<1>8. Replayed
  <2>1. \A k \in Keys : buckets[k] = NoBucket
      BY DEF Init
  <2>2. \A k, p, q : ~IsCapture(log, k, p, q)
      BY <1>2 DEF IsCapture
  <2> QED BY <2>1, <2>2 DEF Replayed, LastOf
<1> QED BY <1>3, <1>4, <1>5, <1>6, <1>7, <1>8 DEF HistoryInv

\* The parts of the invariant that only read the tables and the log.
LEMMA TablesStay ==
    ASSUME RequestsLogged, LogApart, Replayed, UNCHANGED <<requests, raw, buckets, log>>
    PROVE  RequestsLogged' /\ LogApart' /\ Replayed' /\ Logged' = Logged
<1>1. Logged' = Logged
    BY DEF Logged
<1>2. RequestsLogged'
    BY <1>1 DEF RequestsLogged
<1>3. LogApart'
    BY DEF LogApart
<1>4. Replayed'
    BY DEF Replayed
<1> QED BY <1>1, <1>2, <1>3, <1>4

\* A step of one call that commits nothing.
LEMMA StatementStep ==
    ASSUME HistoryInv, NEW c \in Calls, NEW r \in CallType,
           call' = [call EXCEPT ![c] = r], UNCHANGED <<requests, raw, buckets, log>>,
           InTransaction(c, r), Merged(c, r), Answered(c, r),
           \A d \in Calls \ {c} : Apart(c, r, d, call[d])
    PROVE  HistoryInv'
<1>1. StateTyped'
    BY DEF HistoryInv, StateTyped
<1>2. call'[c] = r /\ \A d \in Calls : d # c => call'[d] = call[d]
    BY DEF HistoryInv, StateTyped
<1>3. \A d \in Calls : InTransaction(d, call'[d]) /\ Merged(d, call'[d]) /\ Answered(d, call'[d])
    BY <1>2 DEF HistoryInv
<1>4. RequestsLogged' /\ LogApart' /\ Replayed' /\ Logged' = Logged
    BY TablesStay DEF HistoryInv
<1>5. ASSUME NEW d \in Calls
      PROVE  InTransaction(d, call[d])' /\ Merged(d, call[d])' /\ Answered(d, call[d])'
  <2>1. InTransaction(d, call[d])'
      BY <1>3, <1>4 DEF InTransaction
  <2>2. Merged(d, call[d])'
      BY <1>3 DEF Merged
  <2>3. Answered(d, call[d])'
      BY <1>3, <1>4 DEF Answered
  <2> QED BY <2>1, <2>2, <2>3
<1>6. ASSUME NEW d \in Calls, NEW e \in Calls, d # e
      PROVE  Apart(d, call'[d], e, call'[e])
  <2>1. CASE d = c
      BY <1>2, <1>6, <2>1
  <2>2. CASE e = c
    <3>1. Apart(c, r, d, call[d])
        BY <1>6, <2>2
    <3>2. Apart(d, call[d], c, r)
        BY <3>1 DEF Apart
    <3> QED BY <1>2, <1>6, <2>2, <3>2
  <2>3. CASE d # c /\ e # c
      BY <1>2, <1>6, <2>3 DEF HistoryInv, AllApart
  <2> QED BY <2>1, <2>2, <2>3
<1>7. AllApart'
    BY <1>6 DEF AllApart, Apart
<1> QED BY <1>1, <1>4, <1>5, <1>7 DEF HistoryInv

\* An answer other than that of a commit ends the transaction without a trace.
LEMMA AnswerStep ==
    ASSUME HistoryInv, NEW c \in Calls, NEW r \in CallType,
           call[c].pc \notin {"responded", "done"},
           call' = [call EXCEPT ![c] = r], UNCHANGED <<requests, raw, buckets, log>>,
           r.pc = "responded", r.locks = {}, DOMAIN r.writes = {}, Answered(c, r)
    PROVE  HistoryInv'
<1>1. InTransaction(c, r) /\ Merged(c, r)
    BY DEF InTransaction, Merged
<1>2. \A d \in Calls \ {c} : Apart(c, r, d, call[d])
    BY DEF Apart
<1> QED BY <1>1, <1>2, StatementStep

LEMMA RespondStep ==
    ASSUME HistoryInv, NEW c \in Calls, NEW status \in Statuses, status \notin {200, 202},
           call[c].pc \notin {"responded", "done"},
           Respond(c, status), UNCHANGED <<requests, raw, buckets, log>>,
           status = 409 => /\ c \in Sound /\ requests[Id[c]].status = "completed"
                           /\ requests[Id[c]].hash # Request[c]
    PROVE  HistoryInv'
<1> DEFINE r == [NewCall EXCEPT !.pc = "responded", !.status = status]
<1>1. "responded" \in Pcs
    BY DEF Pcs
<1>2. /\ r \in CallType /\ r.pc = "responded" /\ r.status = status /\ r.locks = {}
      /\ DOMAIN r.writes = {} /\ ~r.duplicate
    BY <1>1, NewCallType, ZenonT(60) DEF CallType
<1>3. call' = [call EXCEPT ![c] = r]
    BY DEF Respond
<1> HIDE DEF r
<1>4. c \notin Logged
    BY DEF HistoryInv, InTransaction
<1>5. Answered(c, r)
    BY <1>2, <1>4 DEF Answered
<1> QED BY <1>2, <1>3, <1>5, AnswerStep

LEMMA ArriveStep ==
    ASSUME HistoryInv, NEW c \in Calls, Arrive(c)
    PROVE  HistoryInv'
<1>1. call[c] \in CallType /\ call[c].pc = "new" /\ UNCHANGED <<requests, raw, buckets, log>>
    BY DEF HistoryInv, StateTyped, Arrive
<1>2. /\ c \notin Logged /\ ~call[c].duplicate /\ call[c].status = 0
      /\ call[c].locks = {} /\ DOMAIN call[c].writes = {}
    BY <1>1 DEF HistoryInv, InTransaction, Merged
<1>3. CASE c \in Sound
  <2> DEFINE r == [call[c] EXCEPT !.pc = "arrived"]
  <2>1. call' = [call EXCEPT ![c] = r]
      BY <1>3 DEF Arrive
  <2>2. /\ r \in CallType /\ r.pc = "arrived" /\ r.status = 0 /\ r.locks = {} /\ DOMAIN r.writes = {}
        /\ ~r.duplicate
      BY <1>1, <1>2 DEF CallType, Pcs
  <2> HIDE DEF r
  <2>3. InTransaction(c, r) /\ Merged(c, r) /\ Answered(c, r)
      BY <1>2, <1>3, <2>2 DEF InTransaction, Merged, Answered
  <2>4. \A d \in Calls \ {c} : Apart(c, r, d, call[d])
      BY <2>2 DEF Apart
  <2> QED BY <1>1, <2>1, <2>2, <2>3, <2>4, StatementStep
<1>4. CASE c \notin Sound
  <2> DEFINE s == FrontStatus(Input(c).front)
  <2>1. Respond(c, s)
      BY <1>4 DEF Arrive
  <2>2. s \in {405, 426, 401, 415, 413, 400}
      BY DEF FrontStatus
  <2> HIDE DEF s
  <2>3. s \in Statuses /\ s \notin {200, 202, 409}
      BY <2>2 DEF Statuses
  <2> QED BY <1>1, <2>1, <2>3, RespondStep
<1> QED BY <1>3, <1>4

\* Two open transactions never hold one request_id.
LEMMA RegisterStep ==
    ASSUME HistoryInv, NEW c \in Calls, Register(c)
    PROVE  HistoryInv'
<1> DEFINE r == [call[c] EXCEPT !.pc = "registered"]
<1>1. call[c] \in CallType /\ call[c].pc = "arrived" /\ UNCHANGED <<requests, raw, buckets, log>>
    BY DEF HistoryInv, StateTyped, Register
<1>2. /\ c \notin Logged /\ ~call[c].duplicate /\ call[c].status = 0
      /\ call[c].locks = {} /\ DOMAIN call[c].writes = {} /\ c \in Sound
    BY <1>1 DEF HistoryInv, InTransaction, Merged
<1>3. call' = [call EXCEPT ![c] = r]
    BY DEF Register
<1>4. /\ r \in CallType /\ r.pc = "registered" /\ r.status = 0 /\ r.locks = {} /\ DOMAIN r.writes = {}
      /\ ~r.duplicate
    BY <1>1, <1>2 DEF CallType, Pcs
<1> HIDE DEF r
<1>5. InTransaction(c, r) /\ Merged(c, r) /\ Answered(c, r)
    BY <1>2, <1>4 DEF InTransaction, Merged, Answered, Register
<1>6. \A d \in Calls \ {c} : Apart(c, r, d, call[d])
    BY <1>4 DEF Apart, Register, IdFree, Open
<1> QED BY <1>1, <1>3, <1>4, <1>5, <1>6, StatementStep

\* The record a duplicate is left with when the response is written.
Duplicated(x, a, t) ==
    [x EXCEPT !.pc = "responded", !.status = 200, !.duplicate = TRUE, !.accepted = a, !.touched = t]

LEMMA DuplicateType ==
    ASSUME NEW x \in CallType, NEW a \in Nat, NEW t \in Nat
    PROVE  /\ Duplicated(x, a, t) \in CallType /\ Duplicated(x, a, t).pc = "responded"
           /\ Duplicated(x, a, t).status = 200
           /\ Duplicated(x, a, t).locks = x.locks /\ Duplicated(x, a, t).writes = x.writes
           /\ Duplicated(x, a, t).accepted = a /\ Duplicated(x, a, t).touched = t
           /\ Duplicated(x, a, t).duplicate
<1>1. Duplicated(x, a, t) \in CallType
  <2>1. "responded" \in Pcs /\ 200 \in Statuses
      BY DEF Pcs, Statuses
  <2> QED BY <2>1, ZenonT(60) DEF CallType, Duplicated
<1>2. /\ Duplicated(x, a, t).pc = "responded" /\ Duplicated(x, a, t).status = 200
      /\ Duplicated(x, a, t).locks = x.locks /\ Duplicated(x, a, t).writes = x.writes
      /\ Duplicated(x, a, t).accepted = a /\ Duplicated(x, a, t).touched = t
      /\ Duplicated(x, a, t).duplicate
    BY DEF CallType, Duplicated
<1> QED BY <1>1, <1>2

\* existingHistoryIngestResult repeats what the stored row says.
LEMMA ExistingShape ==
    ASSUME HistoryInv, NEW c \in Calls, Existing(c)
    PROVE  /\ c \in Sound /\ Id[c] \in Ids /\ call[c].pc = "arrived"
           /\ UNCHANGED <<requests, raw, buckets, metrics, log>>
           /\ requests[Id[c]] \in RequestType /\ requests[Id[c]].status = "completed"
           /\ \/ /\ requests[Id[c]].hash = Request[c]
                 /\ call' = [call EXCEPT ![c] =
                        Duplicated(call[c], requests[Id[c]].accepted, requests[Id[c]].touched)]
              \/ requests[Id[c]].hash # Request[c] /\ Respond(c, 409)
<1> DEFINE q == requests[Id[c]]
<1>1. call[c].pc = "arrived" /\ UNCHANGED <<requests, raw, buckets, metrics, log>> /\ q.status # "none"
    BY DEF Existing
<1>2. c \in Sound /\ Id[c] \in Ids
    BY <1>1, IdType DEF HistoryInv, InTransaction
<1>3. q \in RequestType /\ q.status = "completed"
    BY <1>1, <1>2 DEF HistoryInv, StateTyped, RequestType
<1>4. CASE q.hash = Request[c]
  <2>1. call' = [call EXCEPT ![c].pc = "responded", ![c].status = 200,
                             ![c].duplicate = TRUE, ![c].accepted = q.accepted,
                             ![c].touched = q.touched]
      BY <1>3, <1>4 DEF Existing
  <2>2. call \in [Calls -> CallType]
      BY DEF HistoryInv, StateTyped
  <2> HIDE DEF q
  <2>3. call' = [call EXCEPT ![c] = Duplicated(call[c], q.accepted, q.touched)]
      BY <2>1, <2>2, ZenonT(60) DEF Duplicated, CallType
  <2> QED BY <1>1, <1>2, <1>3, <1>4, <2>3 DEF q
<1>5. CASE q.hash # Request[c]
    BY <1>1, <1>2, <1>3, <1>5 DEF Existing
<1> QED BY <1>4, <1>5

LEMMA ExistingStep ==
    ASSUME HistoryInv, NEW c \in Calls, Existing(c)
    PROVE  HistoryInv'
<1> DEFINE q == requests[Id[c]]
<1>1. /\ c \in Sound /\ Id[c] \in Ids /\ call[c].pc = "arrived"
      /\ UNCHANGED <<requests, raw, buckets, metrics, log>>
      /\ q \in RequestType /\ q.status = "completed"
      /\ \/ q.hash = Request[c] /\ call' = [call EXCEPT ![c] = Duplicated(call[c], q.accepted, q.touched)]
         \/ q.hash # Request[c] /\ Respond(c, 409)
    BY ExistingShape
<1>2. CASE q.hash = Request[c] /\ call' = [call EXCEPT ![c] = Duplicated(call[c], q.accepted, q.touched)]
  <2> DEFINE r == Duplicated(call[c], q.accepted, q.touched)
  <2>1. q.accepted \in Nat /\ q.touched \in Nat /\ call[c] \in CallType
      BY <1>1 DEF RequestType, HistoryInv, StateTyped
  <2>2. call[c].locks = {} /\ DOMAIN call[c].writes = {} /\ c \notin Logged
      BY <1>1 DEF HistoryInv, Merged, InTransaction
  <2>3. /\ r \in CallType /\ r.pc = "responded" /\ r.status = 200 /\ r.duplicate
        /\ r.locks = call[c].locks /\ r.writes = call[c].writes
        /\ r.accepted = q.accepted /\ r.touched = q.touched
    <3> HIDE DEF q
    <3> QED BY <2>1, DuplicateType
  <2> HIDE DEF r
  <2>4. Answered(c, r)
      BY <1>1, <1>2, <2>2, <2>3 DEF Answered
  <2>5. call' = [call EXCEPT ![c] = r]
      BY <1>2 DEF r
  <2>6. /\ r.locks = {} /\ DOMAIN r.writes = {} /\ call[c].pc \notin {"responded", "done"}
        /\ UNCHANGED <<requests, raw, buckets, log>>
      BY <1>1, <2>2, <2>3
  <2> QED BY <2>3, <2>4, <2>5, <2>6, AnswerStep
<1>3. CASE q.hash # Request[c] /\ Respond(c, 409)
  <2>1. 409 \in Statuses
      BY DEF Statuses
  <2> QED BY <1>1, <1>3, <2>1, RespondStep
<1> QED BY <1>1, <1>2, <1>3

\* The count that CopyFrom reports is compared before anything is merged.
LEMMA CopyStep ==
    ASSUME HistoryInv, NEW c \in Calls, Copy(c)
    PROVE  HistoryInv'
<1>1. call[c] \in CallType /\ call[c].pc = "registered" /\ UNCHANGED <<requests, raw, buckets, log>>
    BY DEF HistoryInv, StateTyped, Copy
<1>2. /\ c \notin Logged /\ ~call[c].duplicate /\ call[c].status = 0
      /\ call[c].locks = {} /\ DOMAIN call[c].writes = {} /\ c \in Sound
      /\ requests[Id[c]].status = "none"
    BY <1>1 DEF HistoryInv, InTransaction, Merged
<1>3. CASE Len(Rows[c]) = Received[c]
  <2> DEFINE r == [call[c] EXCEPT !.pc = "merging"]
  <2>1. call' = [call EXCEPT ![c] = r]
      BY <1>3 DEF Copy
  <2>2. "merging" \in Pcs
      BY DEF Pcs
  <2>3. /\ r \in CallType /\ r.pc = "merging" /\ r.status = 0 /\ r.locks = {} /\ DOMAIN r.writes = {}
        /\ ~r.duplicate
      BY <1>1, <1>2, <2>2 DEF CallType
  <2> HIDE DEF r
  <2>4. InTransaction(c, r) /\ Answered(c, r)
      BY <1>2, <2>3 DEF InTransaction, Answered
  <2>5. Merged(c, r)
      BY <1>2, <1>3, <2>3 DEF Merged
  <2>6. \A d \in Calls \ {c} : Apart(c, r, d, call[d])
    <3>1. \A d \in Calls \ {c} : Apart(c, call[c], d, call[d])
        BY DEF HistoryInv, AllApart
    <3> QED BY <1>1, <2>3, <3>1 DEF Apart
  <2> QED BY <1>1, <2>1, <2>3, <2>4, <2>5, <2>6, StatementStep
<1>4. CASE Len(Rows[c]) # Received[c]
  <2>1. Respond(c, 500) /\ 500 \in Statuses
      BY <1>4 DEF Copy, Statuses
  <2> QED BY <1>1, <2>1, RespondStep
<1> QED BY <1>3, <1>4

\* What the upsert of one key does to the call.
LEMMA UpsertShape ==
    ASSUME HistoryInv, NEW c \in Calls, NEW k \in Pending(c), UpsertKey(c, k)
    PROVE  \E r \in CallType :
              /\ call' = [call EXCEPT ![c] = r]
              /\ r.pc = "merging" /\ r.status = call[c].status /\ r.duplicate = call[c].duplicate
              /\ r.locks = call[c].locks \cup {k}
              /\ \A x : x # k => (x \in DOMAIN r.writes <=> x \in DOMAIN call[c].writes)
              /\ k \in DOMAIN r.writes <=> Touches(buckets[k], Latest[c][k])
              /\ \A x \in DOMAIN call[c].writes : x # k => r.writes[x] = call[c].writes[x]
              /\ k \in DOMAIN r.writes => r.writes[k] = Latest[c][k]
<1> DEFINE new == Latest[c][k]
           ws == call[c].writes
           D == DOMAIN ws \cup {y \in {k} : Touches(buckets[y], new)}
           w == [x \in D |-> IF x = k THEN new ELSE ws[x]]
           l == call[c].locks \cup {k}
           r == [call[c] EXCEPT !.locks = l, !.writes = w]
<1>1. call \in [Calls -> CallType] /\ call[c] \in CallType /\ call[c].pc = "merging"
    BY DEF HistoryInv, StateTyped, UpsertKey
<1>2. c \in Sound /\ k \in KeysOf[c] /\ k \notin call[c].locks
    BY DEF Pending
<1>3. k \in Keys /\ new \in RowType
    BY <1>2, RowsType, LatestIsLast
<1>4. DOMAIN ws \subseteq call[c].locks /\ call[c].locks \subseteq Keys /\ ws \in Written
    BY <1>1 DEF HistoryInv, Merged, CallType
<1>5. DOMAIN ws \subseteq Keys /\ \A x \in DOMAIN ws : ws[x] \in RowType
    BY <1>4, WrittenUse
<1>6. call' = [call EXCEPT ![c] = r]
    BY <1>1 DEF UpsertKey, CallType
<1>7. k \notin DOMAIN ws
    BY <1>2, <1>4
<1> HIDE DEF new
<1>8. w \in [D -> RowType] /\ D \subseteq Keys
    BY <1>3, <1>5
<1>9. w \in Written
    BY <1>8, WrittenMake
<1>10. /\ DOMAIN w = D /\ (k \in D => w[k] = new) /\ \A x \in DOMAIN ws : w[x] = ws[x]
       /\ \A x : x # k => (x \in D <=> x \in DOMAIN ws)
       /\ k \in D <=> Touches(buckets[k], new)
    BY <1>7
<1>11. l \in SUBSET Keys
    BY <1>3, <1>4
<1> HIDE DEF w, l
<1>12. /\ r \in CallType /\ r.pc = "merging" /\ r.status = call[c].status /\ r.locks = l
       /\ r.writes = w /\ r.duplicate = call[c].duplicate
    BY <1>1, <1>9, <1>11 DEF CallType
<1> HIDE DEF r, D
<1> QED BY <1>6, <1>10, <1>12 DEF l, new

\* A key is locked, and its row compared with the one that is committed now:
\* nobody can change that one until the lock is released.
LEMMA UpsertStep ==
    ASSUME HistoryInv, NEW c \in Calls, NEW k \in Pending(c), UpsertKey(c, k)
    PROVE  HistoryInv'
<1>1. call[c].pc = "merging" /\ UNCHANGED <<requests, raw, buckets, log>>
    BY DEF UpsertKey
<1>2. /\ c \notin Logged /\ ~call[c].duplicate /\ call[c].status = 0 /\ c \in Sound
      /\ requests[Id[c]].status = "none"
    BY <1>1 DEF HistoryInv, InTransaction
<1>3. /\ DOMAIN call[c].writes \subseteq call[c].locks /\ call[c].locks \subseteq KeysOf[c]
      /\ Len(Rows[c]) = Received[c]
      /\ \A x \in call[c].locks :
            /\ x \in DOMAIN call[c].writes <=> Touches(buckets[x], Latest[c][x])
            /\ x \in DOMAIN call[c].writes => call[c].writes[x] = Latest[c][x]
    BY <1>1 DEF HistoryInv, Merged
<1>4. k \in KeysOf[c] /\ k \notin call[c].locks /\ \A d \in Calls \ {c} : k \notin call[d].locks
    BY <1>2 DEF UpsertKey, Pending, Free
<1>5. PICK r \in CallType :
          /\ call' = [call EXCEPT ![c] = r]
          /\ r.pc = "merging" /\ r.status = call[c].status /\ r.duplicate = call[c].duplicate
          /\ r.locks = call[c].locks \cup {k}
          /\ \A x : x # k => (x \in DOMAIN r.writes <=> x \in DOMAIN call[c].writes)
          /\ k \in DOMAIN r.writes <=> Touches(buckets[k], Latest[c][k])
          /\ \A x \in DOMAIN call[c].writes : x # k => r.writes[x] = call[c].writes[x]
          /\ k \in DOMAIN r.writes => r.writes[k] = Latest[c][k]
    BY UpsertShape
<1>6. InTransaction(c, r) /\ Answered(c, r)
    BY <1>2, <1>5 DEF InTransaction, Answered
<1>7. \A x \in r.locks : /\ x \in DOMAIN r.writes <=> Touches(buckets[x], Latest[c][x])
                         /\ x \in DOMAIN r.writes => r.writes[x] = Latest[c][x]
    BY <1>3, <1>4, <1>5
<1>8. DOMAIN r.writes \subseteq r.locks /\ r.locks \subseteq KeysOf[c]
    BY <1>3, <1>4, <1>5
<1>9. Merged(c, r)
    BY <1>3, <1>5, <1>7, <1>8 DEF Merged
<1>10. \A d \in Calls \ {c} : Apart(c, r, d, call[d])
  <2>1. \A d \in Calls \ {c} : Apart(c, call[c], d, call[d])
      BY DEF HistoryInv, AllApart
  <2> QED BY <1>1, <1>4, <1>5, <2>1 DEF Apart
<1> QED BY <1>1, <1>5, <1>6, <1>9, <1>10, StatementStep

LEMMA CompleteStep ==
    ASSUME HistoryInv, NEW c \in Calls, Complete(c)
    PROVE  HistoryInv'
<1> DEFINE a == Received[c]
           t == Cardinality(DOMAIN call[c].writes)
           r == [call[c] EXCEPT !.pc = "completed", !.accepted = a, !.touched = t]
<1>1. /\ call \in [Calls -> CallType] /\ call[c] \in CallType /\ call[c].pc = "merging"
      /\ UNCHANGED <<requests, raw, buckets, log>>
    BY DEF HistoryInv, StateTyped, Complete
<1>2. InTransaction(c, call[c]) /\ Merged(c, call[c]) /\ Answered(c, call[c]) /\ c \in Sound
    BY <1>1 DEF HistoryInv, InTransaction
<1>3. call' = [call EXCEPT ![c] = r]
    BY <1>1 DEF Complete, CallType
<1>4. a \in Nat /\ t \in Nat /\ "completed" \in Pcs
  <2>1. DOMAIN call[c].writes \subseteq KeysOf[c]
      BY <1>1, <1>2 DEF Merged
  <2>2. IsFiniteSet(DOMAIN call[c].writes)
      BY <1>2, <2>1, RowsType, FS_Subset
  <2> QED BY <2>2, ReceivedType, FS_CardinalityType DEF Pcs
<1>5. a = Received[c]
    OBVIOUS
<1> HIDE DEF a, t
<1>6. /\ r \in CallType /\ r.pc = "completed" /\ r.status = call[c].status /\ r.locks = call[c].locks
      /\ r.writes = call[c].writes /\ r.accepted = a /\ r.duplicate = call[c].duplicate
    BY <1>1, <1>4 DEF CallType
<1> HIDE DEF r
<1>7. InTransaction(c, r) /\ Answered(c, r)
    BY <1>1, <1>2, <1>6 DEF InTransaction, Answered
<1>8. Merged(c, r)
  <2>1. KeysOf[c] \subseteq call[c].locks
      BY <1>2 DEF Complete, Pending
  <2> QED BY <1>1, <1>2, <1>5, <1>6, <2>1 DEF Merged
<1>9. \A d \in Calls \ {c} : Apart(c, r, d, call[d])
  <2>1. \A d \in Calls \ {c} : Apart(c, call[c], d, call[d])
      BY DEF HistoryInv, AllApart
  <2> QED BY <1>1, <1>6, <2>1 DEF Apart
<1> QED BY <1>1, <1>3, <1>6, <1>7, <1>8, <1>9, StatementStep

LEMMA FinishStep ==
    ASSUME HistoryInv, NEW c \in Calls, Finish(c)
    PROVE  HistoryInv'
<1> DEFINE r == [call[c] EXCEPT !.pc = "done"]
<1>1. call[c] \in CallType /\ call[c].pc = "responded" /\ UNCHANGED <<requests, raw, buckets, log>>
    BY DEF HistoryInv, StateTyped, Finish
<1>2. InTransaction(c, call[c]) /\ Merged(c, call[c]) /\ Answered(c, call[c])
    BY DEF HistoryInv
<1>3. call' = [call EXCEPT ![c] = r]
    BY DEF Finish
<1>4. "done" \in Pcs
    BY DEF Pcs
<1>5. /\ r \in CallType /\ r.pc = "done" /\ r.status = call[c].status /\ r.locks = call[c].locks
      /\ r.writes = call[c].writes /\ r.touched = call[c].touched /\ r.accepted = call[c].accepted
      /\ r.duplicate = call[c].duplicate
    BY <1>1, <1>4 DEF CallType
<1> HIDE DEF r
<1>6. InTransaction(c, r) /\ Answered(c, r)
    BY <1>1, <1>2, <1>5 DEF InTransaction, Answered
<1>7. Merged(c, r)
    BY <1>1, <1>2, <1>5 DEF Merged
<1>8. \A d \in Calls \ {c} : Apart(c, r, d, call[d])
  <2>1. \A d \in Calls \ {c} : Apart(c, call[c], d, call[d])
      BY DEF HistoryInv, AllApart
  <2> QED BY <1>1, <1>5, <2>1 DEF Apart
<1> QED BY <1>1, <1>3, <1>5, <1>6, <1>7, <1>8, StatementStep

LEMMA FailStep ==
    ASSUME HistoryInv, NEW c \in Calls, Fail(c)
    PROVE  HistoryInv'
<1>1. /\ call[c].pc \notin {"responded", "done"} /\ Respond(c, 500)
      /\ UNCHANGED <<requests, raw, buckets, log>>
    BY DEF Fail, Open
<1>2. 500 \in Statuses
    BY DEF Statuses
<1> QED BY <1>1, <1>2, RespondStep

-----------------------------------------------------------------------------
(* The commit.                                                              *)

\* The record of a call whose commit is confirmed, and of one whose is not.
Confirmed(a, t) ==
    [NewCall EXCEPT !.pc = "responded", !.status = 202, !.accepted = a, !.touched = t]

Refused(status) == [NewCall EXCEPT !.pc = "responded", !.status = status]

LEMMA ConfirmedType ==
    ASSUME NEW a \in Nat, NEW t \in Nat
    PROVE  /\ Confirmed(a, t) \in CallType /\ Confirmed(a, t).pc = "responded"
           /\ Confirmed(a, t).status = 202 /\ Confirmed(a, t).locks = {} /\ DOMAIN Confirmed(a, t).writes = {}
           /\ Confirmed(a, t).accepted = a /\ Confirmed(a, t).touched = t /\ ~Confirmed(a, t).duplicate
<1>1. NewCall \in CallType /\ NewCall.locks = {} /\ DOMAIN NewCall.writes = {} /\ ~NewCall.duplicate
    BY NewCallType
<1>2. Confirmed(a, t) \in CallType
  <2>1. "responded" \in Pcs /\ 202 \in Statuses
      BY DEF Pcs, Statuses
  <2> QED BY <1>1, <2>1, ZenonT(60) DEF CallType, Confirmed
<1>3. /\ Confirmed(a, t).pc = "responded" /\ Confirmed(a, t).status = 202
      /\ Confirmed(a, t).locks = NewCall.locks /\ Confirmed(a, t).writes = NewCall.writes
      /\ Confirmed(a, t).accepted = a /\ Confirmed(a, t).touched = t
      /\ Confirmed(a, t).duplicate = NewCall.duplicate
    BY <1>1 DEF CallType, Confirmed
<1> QED BY <1>1, <1>2, <1>3

LEMMA RefusedType ==
    ASSUME NEW status \in Statuses
    PROVE  /\ Refused(status) \in CallType /\ Refused(status).pc = "responded"
           /\ Refused(status).status = status /\ Refused(status).locks = {}
           /\ DOMAIN Refused(status).writes = {} /\ ~Refused(status).duplicate
<1>1. NewCall \in CallType /\ NewCall.locks = {} /\ DOMAIN NewCall.writes = {} /\ ~NewCall.duplicate
    BY NewCallType
<1>2. "responded" \in Pcs
    BY DEF Pcs
<1>3. /\ Refused(status) \in CallType /\ Refused(status).pc = "responded"
      /\ Refused(status).status = status /\ Refused(status).locks = NewCall.locks
      /\ Refused(status).writes = NewCall.writes /\ Refused(status).duplicate = NewCall.duplicate
    BY <1>1, <1>2 DEF CallType, Refused
<1> QED BY <1>1, <1>3

\* What a commit does to the log.
LEMMA CommitLog ==
    ASSUME HistoryInv, NEW c \in Calls, Commit(c)
    PROVE  /\ Len(log) \in Nat /\ DOMAIN log = 1 .. Len(log)
           /\ log' \in Seq(Sound) /\ DOMAIN log' = 1 .. (Len(log) + 1)
           /\ log'[Len(log) + 1] = c /\ \A n \in DOMAIN log : log'[n] = log[n]
           /\ Logged' = Logged \cup {c} /\ c \in Sound /\ c \notin Logged
           /\ \A n \in DOMAIN log : log[n] \in Sound /\ log[n] \in Logged
<1>1. log \in Seq(Sound) /\ log' = Append(log, c) /\ call[c].pc = "completed"
    BY DEF HistoryInv, StateTyped, Commit
<1>2. c \in Sound /\ c \notin Logged
    BY <1>1 DEF HistoryInv, InTransaction
<1>3. /\ Len(log) \in Nat /\ DOMAIN log = 1 .. Len(log)
      /\ log' \in Seq(Sound) /\ DOMAIN log' = 1 .. (Len(log) + 1)
      /\ log'[Len(log) + 1] = c /\ \A n \in DOMAIN log : log'[n] = log[n]
      /\ \A n \in DOMAIN log : log[n] \in Sound
    BY <1>1, <1>2
<1>4. Logged' = {log'[n] : n \in DOMAIN log'}
    BY DEF Logged
<1>5. \A n \in 1 .. (Len(log) + 1) : n \in 1 .. Len(log) \/ n = Len(log) + 1
    BY <1>3
<1>6. Logged' = Logged \cup {c}
  <2>1. ASSUME NEW d \in Logged' PROVE d \in Logged \cup {c}
    <3>1. PICK n \in DOMAIN log' : d = log'[n]
        BY <1>4
    <3> QED BY <1>3, <1>5, <3>1 DEF Logged
  <2>2. ASSUME NEW d \in Logged PROVE d \in Logged'
    <3>1. PICK n \in DOMAIN log : d = log[n]
        BY DEF Logged
    <3>2. n \in DOMAIN log' /\ log'[n] = d
        BY <1>3, <3>1
    <3> QED BY <1>4, <3>2
  <2>3. c \in Logged'
    <3>1. Len(log) + 1 \in DOMAIN log'
        BY <1>3
    <3> QED BY <1>3, <1>4, <3>1
  <2> QED BY <2>1, <2>2, <2>3
<1> QED BY <1>2, <1>3, <1>6 DEF Logged

\* What a commit does to the request, to the audit trail and to the call.
LEMMA CommitShape ==
    ASSUME HistoryInv, NEW c \in Calls, Commit(c)
    PROVE  /\ c \in Sound /\ Id[c] \in Ids /\ requests[Id[c]].status = "none"
           /\ \A i \in Ids : i # Id[c] => requests'[i] = requests[i] /\ raw'[i] = raw[i]
           /\ requests'[Id[c]].status = "completed" /\ requests'[Id[c]].hash = Request[c]
           /\ requests'[Id[c]].accepted = Received[c] /\ Len(Rows[c]) = Received[c]
           /\ requests'[Id[c]].touched = call[c].touched
           /\ raw'[Id[c]] = Rows[c]
           /\ requests' \in [Ids -> RequestType] /\ raw' \in [Ids -> Seq(RawType)]
           /\ call' \in [Calls -> CallType] /\ \A d \in Calls : d # c => call'[d] = call[d]
           /\ call'[c].pc = "responded" /\ ~call'[c].duplicate
           /\ call'[c].locks = {} /\ DOMAIN call'[c].writes = {} /\ call'[c].status \in {202, 500}
           /\ call'[c].status = 202 => /\ call'[c].accepted = Received[c]
                                       /\ call'[c].touched = call[c].touched
<1> DEFINE i == Id[c]
           row == [status |-> "completed", hash |-> Request[c],
                   accepted |-> call[c].accepted, touched |-> call[c].touched]
<1>1. call \in [Calls -> CallType] /\ call[c] \in CallType /\ call[c].pc = "completed"
    BY DEF HistoryInv, StateTyped, Commit
<1>2. c \in Sound /\ i \in Ids /\ requests[i].status = "none"
    BY <1>1, IdType DEF HistoryInv, InTransaction
<1>3. /\ call[c].accepted = Received[c] /\ call[c].accepted \in Nat /\ call[c].touched \in Nat
      /\ Len(Rows[c]) = Received[c]
    BY <1>1 DEF HistoryInv, Merged, CallType
<1>4. requests \in [Ids -> RequestType] /\ requests' = [requests EXCEPT ![i] = row]
    BY DEF HistoryInv, StateTyped, Commit
<1>5. /\ row \in RequestType /\ row.status = "completed" /\ row.hash = Request[c]
      /\ row.accepted = call[c].accepted /\ row.touched = call[c].touched
    BY <1>2, <1>3 DEF RequestType
<1> HIDE DEF row
<1>6. /\ requests' \in [Ids -> RequestType] /\ requests'[i] = row
      /\ \A j \in Ids : j # i => requests'[j] = requests[j]
    BY <1>2, <1>4, <1>5
<1>7. /\ raw' \in [Ids -> Seq(RawType)] /\ raw'[i] = Rows[c]
      /\ \A j \in Ids : j # i => raw'[j] = raw[j]
  <2>1. raw \in [Ids -> Seq(RawType)] /\ raw[i] = <<>> /\ raw' = [raw EXCEPT ![i] = raw[i] \o Rows[c]]
      BY <1>2 DEF HistoryInv, StateTyped, RequestsLogged, Commit
  <2>2. Rows[c] \in Seq(RawType)
      BY <1>2, RowsType
  <2>3. \A s \in Seq(RawType) : <<>> \o s = s
      OBVIOUS
  <2>4. raw[i] \o Rows[c] = Rows[c]
      BY <2>1, <2>2, <2>3
  <2>5. raw' = [raw EXCEPT ![i] = Rows[c]]
      BY <2>1, <2>4
  <2> QED BY <1>2, <2>1, <2>2, <2>5
<1>8. PICK r \in {Confirmed(call[c].accepted, call[c].touched), Refused(500)} : call' = [call EXCEPT ![c] = r]
    BY DEF Commit, Respond, Confirmed, Refused
<1>9. /\ r \in CallType /\ r.pc = "responded" /\ ~r.duplicate /\ r.locks = {}
      /\ DOMAIN r.writes = {} /\ r.status \in {202, 500}
      /\ r.status = 202 => r.accepted = call[c].accepted /\ r.touched = call[c].touched
  <2>1. 500 \in Statuses
      BY DEF Statuses
  <2> QED BY <1>3, <1>8, <2>1, ConfirmedType, RefusedType
<1>10. call'[c] = r /\ call' \in [Calls -> CallType] /\ \A d \in Calls : d # c => call'[d] = call[d]
    BY <1>1, <1>8, <1>9
<1> QED BY <1>2, <1>3, <1>5, <1>6, <1>7, <1>9, <1>10

\* What a commit does to the read model: a bucket of the request becomes the
\* latest row of the batch, unless that row does not touch it.
LEMMA CommitRows ==
    ASSUME HistoryInv, NEW c \in Calls, Commit(c)
    PROVE  /\ buckets' \in [Keys -> RowType]
           /\ \A k \in Keys : k \notin KeysOf[c] => buckets'[k] = buckets[k]
           /\ \A k \in KeysOf[c] :
                 \/ buckets'[k] = Latest[c][k] /\ Touches(buckets[k], Latest[c][k])
                 \/ buckets'[k] = buckets[k] /\ ~Touches(buckets[k], Latest[c][k])
           /\ call[c].locks = KeysOf[c] /\ KeysOf[c] \subseteq Keys
<1> DEFINE w == call[c].writes
<1>1. call[c] \in CallType /\ call[c].pc = "completed" /\ buckets \in [Keys -> RowType] /\ c \in Sound
    BY DEF HistoryInv, StateTyped, Commit, InTransaction
<1>2. /\ DOMAIN w \subseteq call[c].locks /\ call[c].locks = KeysOf[c]
      /\ \A k \in KeysOf[c] : /\ k \in DOMAIN w <=> Touches(buckets[k], Latest[c][k])
                              /\ k \in DOMAIN w => w[k] = Latest[c][k]
    BY <1>1 DEF HistoryInv, Merged
<1>3. \A k \in DOMAIN w : k \in Keys /\ w[k] \in RowType
  <2>1. w \in Written
      BY <1>1 DEF CallType
  <2> QED BY <2>1, WrittenUse
<1>4. buckets' = [k \in Keys |-> IF k \in DOMAIN w THEN w[k] ELSE buckets[k]]
    BY DEF Commit
<1>5. KeysOf[c] \subseteq Keys
    BY <1>1, RowsType
<1>6. buckets' \in [Keys -> RowType]
    BY <1>1, <1>3, <1>4
<1>7. \A k \in Keys : /\ k \in DOMAIN w => buckets'[k] = w[k]
                      /\ k \notin DOMAIN w => buckets'[k] = buckets[k]
    BY <1>4
<1> QED BY <1>2, <1>5, <1>6, <1>7

\* The captures after a commit are those before it and those of its rows.
LEMMA CommitCaptures ==
    ASSUME HistoryInv, NEW c \in Calls, Commit(c)
    PROVE  /\ \A k, n, m : n \in DOMAIN log => (IsCapture(log', k, n, m) <=> IsCapture(log, k, n, m))
           /\ \A k, m : IsCapture(log', k, Len(log) + 1, m) <=> m \in DOMAIN Rows[c] /\ Rows[c][m].key = k
           /\ \A k, n, m : IsCapture(log', k, n, m) => n \in DOMAIN log \/ n = Len(log) + 1
           /\ \A p, q, n, m : p \in DOMAIN log /\ n \in DOMAIN log =>
                 (Before(log', p, q, n, m) <=> Before(log, p, q, n, m))
           /\ \A p, q, m : p \in DOMAIN log =>
                 (Before(log', p, q, Len(log) + 1, m) <=> Rows[log[p]][q].observed < Rows[c][m].observed
                                                     \/ Rows[log[p]][q].observed = Rows[c][m].observed)
           /\ \A q, m : Before(log', Len(log) + 1, q, Len(log) + 1, m) <=>
                 \/ Rows[c][q].observed < Rows[c][m].observed
                 \/ Rows[c][q].observed = Rows[c][m].observed /\ q <= m
           /\ \A q, n, m : n \in DOMAIN log /\ Rows[c][q].observed < Rows[log[n]][m].observed =>
                 Before(log', Len(log) + 1, q, n, m)
<1> DEFINE L == Len(log) + 1
<1>1. /\ Len(log) \in Nat /\ DOMAIN log = 1 .. Len(log) /\ DOMAIN log' = 1 .. L
      /\ log'[L] = c /\ \A n \in DOMAIN log : log'[n] = log[n]
    BY CommitLog
<1>2. /\ \A n \in DOMAIN log : n \in Int /\ n < L /\ n # L /\ n \in DOMAIN log'
      /\ \A n \in DOMAIN log' : n \in DOMAIN log \/ n = L
      /\ L \in Int /\ L \in DOMAIN log' /\ ~(L < L)
    BY <1>1
<1> HIDE DEF L
<1>3. \A k, n, m : n \in DOMAIN log => (IsCapture(log', k, n, m) <=> IsCapture(log, k, n, m))
    BY <1>1, <1>2 DEF IsCapture
<1>4. \A k, m : IsCapture(log', k, L, m) <=> m \in DOMAIN Rows[c] /\ Rows[c][m].key = k
    BY <1>1, <1>2 DEF IsCapture
<1>5. \A k, n, m : IsCapture(log', k, n, m) => n \in DOMAIN log \/ n = L
    BY <1>2 DEF IsCapture
<1>6. \A p, q, n, m : p \in DOMAIN log /\ n \in DOMAIN log => (Before(log', p, q, n, m) <=> Before(log, p, q, n, m))
    BY <1>1 DEF Before
<1>7. \A p, q, m : p \in DOMAIN log =>
          (Before(log', p, q, L, m) <=> Rows[log[p]][q].observed < Rows[c][m].observed
                                        \/ Rows[log[p]][q].observed = Rows[c][m].observed)
    BY <1>1, <1>2 DEF Before
<1>8. \A q, m : Before(log', L, q, L, m) <=>
             (Rows[c][q].observed < Rows[c][m].observed \/ (Rows[c][q].observed = Rows[c][m].observed /\ q <= m))
    BY <1>1, <1>2 DEF Before
<1>9. \A q, n, m : n \in DOMAIN log /\ Rows[c][q].observed < Rows[log[n]][m].observed => Before(log', L, q, n, m)
    BY <1>1, <1>2 DEF Before
<1> QED BY <1>3, <1>4, <1>5, <1>6, <1>7, <1>8, <1>9 DEF L

\* A row that does not touch another is older, or is the same.
LEMMA Untouched ==
    ASSUME NEW old \in RowType, NEW new \in RowType
    PROVE  /\ Touches(old, new) => new.observed > old.observed \/ new.observed = old.observed
           /\ ~Touches(old, new) => new.observed < old.observed \/ new = old
BY DEF RowType, Touches

\* Replaying one more batch: the buckets stay the last capture of the log.
LEMMA CommitReplay ==
    ASSUME HistoryInv, NEW c \in Calls, Commit(c)
    PROVE  Replayed'
<1> DEFINE L == Len(log) + 1
<1> SUFFICES ASSUME NEW k \in Keys PROVE LastOf(log', k, buckets'[k])
    BY DEF Replayed
<1>1. /\ \A n, m : n \in DOMAIN log => (IsCapture(log', k, n, m) <=> IsCapture(log, k, n, m))
      /\ \A m : IsCapture(log', k, L, m) <=> m \in DOMAIN Rows[c] /\ Rows[c][m].key = k
      /\ \A n, m : IsCapture(log', k, n, m) => n \in DOMAIN log \/ n = L
    BY CommitCaptures
<1>2. /\ \A p, q, n, m : p \in DOMAIN log /\ n \in DOMAIN log => (Before(log', p, q, n, m) <=> Before(log, p, q, n, m))
      /\ \A p, q, m : p \in DOMAIN log =>
             (Before(log', p, q, L, m) <=> Rows[log[p]][q].observed < Rows[c][m].observed
                                           \/ Rows[log[p]][q].observed = Rows[c][m].observed)
      /\ \A q, m : Before(log', L, q, L, m) <=>
             (Rows[c][q].observed < Rows[c][m].observed \/ (Rows[c][q].observed = Rows[c][m].observed /\ q <= m))
      /\ \A q, n, m : n \in DOMAIN log /\ Rows[c][q].observed < Rows[log[n]][m].observed => Before(log', L, q, n, m)
    BY CommitCaptures
<1>3. /\ c \in Sound /\ log'[L] = c /\ \A n \in DOMAIN log : log'[n] = log[n] /\ log[n] \in Sound
    BY CommitLog
<1>4. \A n, m : IsCapture(log, k, n, m) => n \in DOMAIN log
    BY DEF IsCapture
<1> HIDE DEF L
<1>5. \/ buckets[k] = NoBucket /\ \A p, q : ~IsCapture(log, k, p, q)
      \/ \E n, m : /\ IsCapture(log, k, n, m)
                   /\ buckets[k] = Values(Rows[log[n]][m])
                   /\ \A p, q : IsCapture(log, k, p, q) => Before(log, p, q, n, m)
    BY DEF HistoryInv, Replayed, LastOf
<1>6. \A n, m : IsCapture(log, k, n, m) =>
          /\ Rows[log[n]][m].observed \in Nat /\ Values(Rows[log[n]][m]) \in RowType
          /\ Values(Rows[log[n]][m]).observed = Rows[log[n]][m].observed
    BY <1>3, RowsType DEF IsCapture
<1>7. CASE k \notin KeysOf[c]
  <2>1. buckets'[k] = buckets[k]
      BY <1>7, CommitRows
  <2>2. \A m : ~IsCapture(log', k, L, m)
      BY <1>1, <1>3, <1>7, RowsType
  <2>3. \A n, m : IsCapture(log', k, n, m) <=> IsCapture(log, k, n, m)
      BY <1>1, <1>4, <2>2
  <2>4. CASE buckets[k] = NoBucket /\ \A p, q : ~IsCapture(log, k, p, q)
      BY <2>1, <2>3, <2>4 DEF LastOf
  <2>5. ASSUME NEW n, NEW m, IsCapture(log, k, n, m), buckets[k] = Values(Rows[log[n]][m]),
               \A p, q : IsCapture(log, k, p, q) => Before(log, p, q, n, m)
        PROVE  LastOf(log', k, buckets'[k])
    <3>1. n \in DOMAIN log /\ log'[n] = log[n]
        BY <1>3, <1>4, <2>5
    <3>2. \A p, q : IsCapture(log', k, p, q) => Before(log', p, q, n, m)
        BY <1>2, <1>4, <2>3, <2>5, <3>1
    <3>3. IsCapture(log', k, n, m) /\ buckets'[k] = Values(Rows[log'[n]][m])
        BY <2>1, <2>3, <2>5, <3>1
    <3> QED BY <3>2, <3>3 DEF LastOf
  <2> QED BY <1>5, <2>4, <2>5
<1>8. CASE k \in KeysOf[c]
  <2>1. PICK m \in DOMAIN Rows[c] :
            /\ Rows[c][m].key = k /\ Latest[c][k] = Values(Rows[c][m]) /\ Latest[c][k] \in RowType
            /\ \A n \in DOMAIN Rows[c] : Rows[c][n].key = k =>
                  \/ Rows[c][n].observed < Rows[c][m].observed
                  \/ Rows[c][n].observed = Rows[c][m].observed /\ n <= m
      BY <1>3, <1>8, LatestIsLast
  <2>2. Rows[c][m].observed \in Nat /\ Latest[c][k].observed = Rows[c][m].observed
      BY <1>3, <2>1, RowsType
  <2>3. buckets[k] \in RowType /\ buckets[k].observed \in Nat
      BY DEF HistoryInv, StateTyped, RowType
  <2>4. \/ buckets'[k] = Latest[c][k] /\ Touches(buckets[k], Latest[c][k])
        \/ buckets'[k] = buckets[k] /\ ~Touches(buckets[k], Latest[c][k])
      BY <1>8, CommitRows
  <2>5. IsCapture(log', k, L, m)
      BY <1>1, <2>1
  <2>6. \A q : IsCapture(log', k, L, q) => Before(log', L, q, L, m)
      BY <1>1, <1>2, <2>1
  <2>7. ASSUME buckets'[k] = Latest[c][k],
               \A p, q : IsCapture(log, k, p, q) => Rows[log[p]][q].observed <= Rows[c][m].observed
        PROVE  LastOf(log', k, buckets'[k])
    <3>1. ASSUME NEW p \in DOMAIN log, NEW q, IsCapture(log, k, p, q)
          PROVE  Before(log', p, q, L, m)
      <4>1. Rows[log[p]][q].observed \in Nat /\ Rows[log[p]][q].observed <= Rows[c][m].observed
          BY <1>6, <2>7, <3>1
      <4>2. Rows[log[p]][q].observed < Rows[c][m].observed \/ Rows[log[p]][q].observed = Rows[c][m].observed
          BY <2>2, <4>1
      <4> QED BY <1>2, <4>2
    <3>2. \A p, q : IsCapture(log', k, p, q) => Before(log', p, q, L, m)
        BY <1>1, <2>6, <3>1
    <3>3. buckets'[k] = Values(Rows[log'[L]][m])
        BY <1>3, <2>1, <2>7
    <3> QED BY <2>5, <3>2, <3>3 DEF LastOf
  <2>8. CASE buckets[k] = NoBucket /\ \A p, q : ~IsCapture(log, k, p, q)
    <3>1. buckets'[k] = Latest[c][k]
      <4>1. ~Touches(buckets[k], Latest[c][k]) => Latest[c][k] = buckets[k]
          BY <2>1, <2>2, <2>3, <2>8, Untouched, NoBucketType
      <4> QED BY <2>4, <4>1
    <3> QED BY <2>7, <2>8, <3>1
  <2>9. ASSUME NEW n, NEW j, IsCapture(log, k, n, j), buckets[k] = Values(Rows[log[n]][j]),
               \A p, q : IsCapture(log, k, p, q) => Before(log, p, q, n, j)
        PROVE  LastOf(log', k, buckets'[k])
    <3>1. n \in DOMAIN log /\ log'[n] = log[n]
        BY <1>3, <1>4, <2>9
    <3>2. Rows[log[n]][j].observed \in Nat /\ buckets[k].observed = Rows[log[n]][j].observed
        BY <1>6, <2>9, <3>1
    <3>3. \A p, q : IsCapture(log, k, p, q) => Rows[log[p]][q].observed <= buckets[k].observed
      <4>1. ASSUME NEW p, NEW q, IsCapture(log, k, p, q) PROVE Rows[log[p]][q].observed <= buckets[k].observed
        <5>1. Before(log, p, q, n, j) /\ p \in DOMAIN log
            BY <1>4, <2>9, <4>1
        <5>2. Rows[log[p]][q].observed \in Nat
            BY <1>6, <4>1, <5>1
        <5>3. \/ Rows[log[p]][q].observed < Rows[log[n]][j].observed
              \/ Rows[log[p]][q].observed = Rows[log[n]][j].observed
            BY <5>1 DEF Before
        <5> QED BY <3>2, <5>2, <5>3
      <4> QED BY <4>1
    <3>4. CASE buckets'[k] = Latest[c][k] /\ Latest[c][k].observed >= buckets[k].observed
      <4>1. ASSUME NEW p, NEW q, IsCapture(log, k, p, q) PROVE Rows[log[p]][q].observed <= Rows[c][m].observed
        <5>1. Rows[log[p]][q].observed \in Nat
            BY <1>4, <1>6, <4>1
        <5>2. Rows[log[p]][q].observed <= buckets[k].observed
            BY <3>3, <4>1
        <5> QED BY <2>2, <2>3, <3>4, <5>1, <5>2
      <4> QED BY <2>7, <3>4, <4>1
    <3>5. CASE buckets'[k] = buckets[k] /\ Latest[c][k].observed < buckets[k].observed
      <4>1. ASSUME NEW q, IsCapture(log', k, L, q) PROVE Before(log', L, q, n, j)
        <5>1. q \in DOMAIN Rows[c] /\ Rows[c][q].key = k
            BY <1>1, <4>1
        <5>2. Rows[c][q].observed \in Nat
            BY <1>3, <5>1, RowsType
        <5>3. \/ Rows[c][q].observed < Rows[c][m].observed
              \/ Rows[c][q].observed = Rows[c][m].observed
            BY <2>1, <5>1
        <5>4. Rows[c][q].observed < Rows[log[n]][j].observed
            BY <2>2, <2>3, <3>2, <3>5, <5>2, <5>3
        <5> QED BY <1>2, <3>1, <5>4
      <4>2. \A p, q : IsCapture(log', k, p, q) => Before(log', p, q, n, j)
          BY <1>1, <1>2, <2>9, <3>1, <4>1
      <4>3. IsCapture(log', k, n, j) /\ buckets'[k] = Values(Rows[log'[n]][j])
          BY <1>1, <2>9, <3>1, <3>5
      <4> QED BY <4>2, <4>3 DEF LastOf
    <3>6. \/ buckets'[k] = Latest[c][k] /\ Latest[c][k].observed >= buckets[k].observed
          \/ buckets'[k] = buckets[k] /\ Latest[c][k].observed < buckets[k].observed
      <4>1. Latest[c][k].observed \in Nat
          BY <2>2
      <4>2. CASE Touches(buckets[k], Latest[c][k])
          BY <2>1, <2>3, <2>4, <4>1, <4>2, Untouched
      <4>3. CASE ~Touches(buckets[k], Latest[c][k])
          BY <2>1, <2>3, <2>4, <4>1, <4>3, Untouched
      <4> QED BY <4>2, <4>3
    <3> QED BY <3>4, <3>5, <3>6
  <2> QED BY <1>5, <2>8, <2>9
<1> QED BY <1>7, <1>8

\* A commit leaves the other calls as they are.
LEMMA CommitOthers ==
    ASSUME HistoryInv, NEW c \in Calls, Commit(c), NEW d \in Calls, d # c
    PROVE  InTransaction(d, call[d])' /\ Merged(d, call[d])' /\ Answered(d, call[d])'
<1>1. /\ call'[d] = call[d] /\ call[c].pc = "completed"
      /\ InTransaction(d, call[d]) /\ Merged(d, call[d]) /\ Answered(d, call[d])
      /\ Apart(d, call[d], c, call[c]) /\ call[d] \in CallType
  <2>1. call'[d] = call[d]
      BY CommitShape
  <2> QED BY <2>1 DEF HistoryInv, AllApart, StateTyped, Commit
<1>2. /\ requests[Id[c]].status = "none"
      /\ \A i \in Ids : i # Id[c] => requests'[i] = requests[i] /\ raw'[i] = raw[i]
    BY CommitShape
<1>3. d \in Logged' <=> d \in Logged
    BY CommitLog
<1>4. ASSUME call[d].pc \in {"registered", "merging", "completed"}
      PROVE  requests'[Id[d]] = requests[Id[d]]
  <2>1. d \in Sound /\ Id[d] # Id[c]
      BY <1>1, <1>4 DEF Apart, InTransaction
  <2>2. Id[d] \in Ids
      BY <2>1, IdType
  <2> QED BY <1>2, <2>1, <2>2
<1>5. InTransaction(d, call[d])'
    BY <1>1, <1>3, <1>4 DEF InTransaction
<1>6. ASSUME d \in Logged \/ call[d].duplicate \/ call[d].status = 409
      PROVE  d \in Sound /\ requests'[Id[d]] = requests[Id[d]] /\ raw'[Id[d]] = raw[Id[d]]
  <2>1. d \in Sound /\ requests[Id[d]].status = "completed"
      BY <1>1, <1>6 DEF Answered
  <2>2. Id[d] \in Ids /\ Id[d] # Id[c]
      BY <1>2, <2>1, IdType
  <2> QED BY <1>2, <2>1, <2>2
<1>7. Answered(d, call[d])'
    BY <1>1, <1>3, <1>6 DEF Answered
<1>8. \A k \in call[d].locks : buckets'[k] = buckets[k]
  <2>1. \A k \in call[d].locks : k \in Keys /\ k \notin call[c].locks
      BY <1>1 DEF Apart, CallType
  <2>2. call[c].locks = KeysOf[c] /\ \A k \in Keys : k \notin KeysOf[c] => buckets'[k] = buckets[k]
      BY CommitRows
  <2> QED BY <2>1, <2>2
<1>9. Merged(d, call[d])'
    BY <1>1, <1>8 DEF Merged
<1> QED BY <1>5, <1>7, <1>9

LEMMA CommitStep ==
    ASSUME HistoryInv, NEW c \in Calls, Commit(c)
    PROVE  HistoryInv'
<1>1. StateTyped'
  <2>1. requests' \in [Ids -> RequestType] /\ raw' \in [Ids -> Seq(RawType)] /\ call' \in [Calls -> CallType]
      BY CommitShape
  <2>2. buckets' \in [Keys -> RowType] /\ log' \in Seq(Sound)
      BY CommitRows, CommitLog
  <2> QED BY <2>1, <2>2 DEF StateTyped
<1>2. /\ c \in Logged' /\ c \in Sound /\ call'[c].pc = "responded" /\ ~call'[c].duplicate
      /\ call'[c].locks = {} /\ DOMAIN call'[c].writes = {} /\ call'[c].status \in {202, 500}
      /\ call'[c].status = 202 => call'[c].accepted = Received[c] /\ call'[c].touched = call[c].touched
  <2>1. c \in Logged'
      BY CommitLog
  <2> QED BY <2>1, CommitShape
<1>3. /\ requests'[Id[c]].status = "completed" /\ requests'[Id[c]].hash = Request[c]
      /\ requests'[Id[c]].accepted = Received[c] /\ Len(Rows[c]) = Received[c]
      /\ requests'[Id[c]].touched = call[c].touched /\ raw'[Id[c]] = Rows[c]
    BY CommitShape
<1>4. InTransaction(c, call[c])' /\ Merged(c, call[c])' /\ Answered(c, call[c])'
  <2>1. InTransaction(c, call[c])'
      BY <1>2 DEF InTransaction
  <2>2. Merged(c, call[c])'
      BY <1>2 DEF Merged
  <2>3. Answered(c, call[c])'
      BY <1>2, <1>3 DEF Answered
  <2> QED BY <2>1, <2>2, <2>3
<1>5. AllApart'
  <2>1. \A d \in Calls : d # c => call'[d] = call[d]
      BY CommitShape
  <2>2. ASSUME NEW d \in Calls
        PROVE  Apart(d, call'[d], c, call'[c]) /\ Apart(c, call'[c], d, call'[d])
      BY <1>2 DEF Apart
  <2>3. ASSUME NEW d \in Calls, NEW e \in Calls, d # e, d # c, e # c
        PROVE  Apart(d, call'[d], e, call'[e])
      BY <2>1, <2>3 DEF HistoryInv, AllApart
  <2>4. \A d, e \in Calls : d # e => Apart(d, call'[d], e, call'[e])
      BY <2>2, <2>3
  <2> QED BY <2>4 DEF AllApart, Apart
<1>6. RequestsLogged'
  <2>1. Logged' = Logged \cup {c}
      BY CommitLog
  <2>2. \A i \in Ids : i # Id[c] => requests'[i] = requests[i] /\ raw'[i] = raw[i]
      BY CommitShape
  <2> QED BY <1>3, <2>1, <2>2 DEF HistoryInv, RequestsLogged
<1>7. LogApart'
  <2> DEFINE L == Len(log) + 1
  <2>1. /\ DOMAIN log = 1 .. Len(log) /\ DOMAIN log' = 1 .. L /\ log'[L] = c /\ Len(log) \in Nat
        /\ \A n \in DOMAIN log : log'[n] = log[n] /\ log[n] \in Logged /\ log[n] \in Sound
      BY CommitLog
  <2>2. \A n \in DOMAIN log' : n \in DOMAIN log \/ n = L
      BY <2>1
  <2> HIDE DEF L
  <2>3. \A n \in DOMAIN log : Id[log[n]] # Id[c]
    <3>1. requests[Id[c]].status = "none"
        BY CommitShape
    <3>2. \A d \in Logged \cap Sound : requests[Id[d]].status = "completed"
        BY IdType DEF HistoryInv, Answered
    <3> QED BY <2>1, <3>1, <3>2
  <2> QED BY <2>1, <2>2, <2>3 DEF HistoryInv, LogApart
<1>8. Replayed'
    BY CommitReplay
<1>9. \A d \in Calls : InTransaction(d, call[d])' /\ Merged(d, call[d])' /\ Answered(d, call[d])'
    BY <1>4, CommitOthers
<1> QED BY <1>1, <1>5, <1>6, <1>7, <1>8, <1>9 DEF HistoryInv

LEMMA NextHistory == HistoryInv /\ [Next]_vars => HistoryInv'
<1> SUFFICES ASSUME HistoryInv, [Next]_vars PROVE HistoryInv'
    OBVIOUS
<1>1. CASE UNCHANGED vars
  <2>1. UNCHANGED <<requests, raw, buckets, log>> /\ call' = call
      BY <1>1 DEF vars
  <2>2. RequestsLogged' /\ LogApart' /\ Replayed' /\ Logged' = Logged
      BY <2>1, TablesStay DEF HistoryInv
  <2>3. StateTyped' /\ AllApart'
      BY <2>1 DEF HistoryInv, StateTyped, AllApart, Apart
  <2>4. ASSUME NEW c \in Calls
        PROVE  InTransaction(c, call[c])' /\ Merged(c, call[c])' /\ Answered(c, call[c])'
    <3>1. InTransaction(c, call[c]) /\ Merged(c, call[c]) /\ Answered(c, call[c])
        BY DEF HistoryInv
    <3>2. InTransaction(c, call[c])'
        BY <2>1, <2>2, <3>1 DEF InTransaction
    <3>3. Merged(c, call[c])'
        BY <2>1, <3>1 DEF Merged
    <3>4. Answered(c, call[c])'
        BY <2>1, <2>2, <3>1 DEF Answered
    <3> QED BY <3>2, <3>3, <3>4
  <2> QED BY <2>2, <2>3, <2>4 DEF HistoryInv
<1>2. ASSUME NEW c \in Calls, Arrive(c) \/ Step(c) \/ Fail(c) PROVE HistoryInv'
    BY <1>2, ArriveStep, RegisterStep, ExistingStep, CopyStep, UpsertStep, CompleteStep, CommitStep,
       FinishStep, FailStep DEF Step
<1> QED BY <1>1, <1>2 DEF Next

\* The tables, the open transactions and the answers agree, whatever order,
\* overlap or retry the calls have.
THEOREM HistoryInvariant == Spec => []HistoryInv
<1> QED BY InitHistory, NextHistory, PTL DEF Spec

\* A request that committed has its rows within the limit of the service.
LEMMA LoggedRows ==
    ASSUME HistoryInv, NEW n \in DOMAIN log
    PROVE  /\ n \in 1 .. Len(log) /\ log[n] \in Sound /\ log[n] \in Logged
           /\ Len(Rows[log[n]]) = Received[log[n]] /\ Received[log[n]] \in Nat
           /\ DOMAIN Rows[log[n]] \subseteq 1 .. MaxBuckets
<1>1. log \in Seq(Sound)
    BY DEF HistoryInv, StateTyped
<1>2. n \in 1 .. Len(log) /\ log[n] \in Sound /\ log[n] \in Logged
    BY <1>1 DEF Logged
<1>3. log[n] \in Calls /\ Len(Rows[log[n]]) = Received[log[n]]
    BY <1>2, IdType DEF HistoryInv, Answered
<1>4. Received[log[n]] \in Nat /\ Received[log[n]] <= MaxBuckets
  <2>1. Received[log[n]] = BucketsIn(Input(log[n]).entries)
      BY <1>3 DEF Received
  <2>2. BucketsIn(Input(log[n]).entries) <= MaxBuckets
      BY <1>2 DEF Sound, Valid
  <2> QED BY <1>3, <2>1, <2>2, ReceivedType
<1>5. DOMAIN Rows[log[n]] = 1 .. Len(Rows[log[n]])
    BY <1>2, RowsType
<1>6. MaxBuckets \in Nat
    BY HistoryAssumption
<1>7. DOMAIN Rows[log[n]] \subseteq 1 .. MaxBuckets
  <2>1. DOMAIN Rows[log[n]] = 1 .. Received[log[n]]
      BY <1>3, <1>5
  <2> QED BY <1>4, <1>6, <2>1
<1> QED BY <1>2, <1>3, <1>4, <1>7

\* The captures of a key are the committed rows of it.
LEMMA CapturesAre ==
    ASSUME HistoryInv, NEW k
    PROVE  /\ \A n, m : IsCapture(log, k, n, m) => <<Rows[log[n]][m].observed, n, m>> \in Captures(k)
           /\ \A y \in Captures(k) : \E n, m : IsCapture(log, k, n, m) /\ y = <<Rows[log[n]][m].observed, n, m>>
<1> DEFINE places == {x \in (1..Len(log)) \X (1..MaxBuckets) :
                         x[2] \in DOMAIN Rows[log[x[1]]] /\ Rows[log[x[1]]][x[2]].key = k}
<1>1. Captures(k) = {<<Rows[log[x[1]]][x[2]].observed, x[1], x[2]>> : x \in places}
    BY DEF Captures
<1>2. ASSUME NEW n, NEW m, IsCapture(log, k, n, m)
      PROVE  <<Rows[log[n]][m].observed, n, m>> \in Captures(k)
  <2>1. n \in DOMAIN log /\ m \in DOMAIN Rows[log[n]] /\ Rows[log[n]][m].key = k
      BY <1>2 DEF IsCapture
  <2>2. n \in 1 .. Len(log) /\ m \in 1 .. MaxBuckets
      BY <2>1, LoggedRows
  <2>3. <<n, m>> \in places
      BY <2>1, <2>2
  <2> HIDE DEF places
  <2> QED BY <1>1, <2>3
<1>3. ASSUME NEW y \in Captures(k)
      PROVE  \E n, m : IsCapture(log, k, n, m) /\ y = <<Rows[log[n]][m].observed, n, m>>
  <2>1. PICK x \in places : y = <<Rows[log[x[1]]][x[2]].observed, x[1], x[2]>>
      BY <1>1
  <2>2. DOMAIN log = 1 .. Len(log)
      BY DEF HistoryInv, StateTyped
  <2>3. IsCapture(log, k, x[1], x[2])
      BY <2>1, <2>2 DEF IsCapture
  <2> QED BY <2>1, <2>3
<1> QED BY <1>2, <1>3

\* The order in which BucketsReplayLog looks for the last capture.
After(x, y) == \/ x[1] > y[1]
               \/ x[1] = y[1] /\ x[2] > y[2]
               \/ x[1] = y[1] /\ x[2] = y[2] /\ x[3] >= y[3]

LEMMA AfterUnique ==
    ASSUME NEW S, S \subseteq Nat \X Nat \X Nat, NEW x \in S, \A y \in S : After(x, y)
    PROVE  (CHOOSE z \in S : \A y \in S : After(z, y)) = x
<1> DEFINE last == CHOOSE z \in S : \A y \in S : After(z, y)
<1>1. last \in S /\ \A y \in S : After(last, y)
    OBVIOUS
<1> HIDE DEF last
<1>2. After(last, x) /\ After(x, last)
    BY <1>1
<1>3. /\ last = <<last[1], last[2], last[3]>> /\ last[1] \in Nat /\ last[2] \in Nat /\ last[3] \in Nat
      /\ x = <<x[1], x[2], x[3]>> /\ x[1] \in Nat /\ x[2] \in Nat /\ x[3] \in Nat
    BY <1>1
<1>4. last[1] = x[1] /\ last[2] = x[2] /\ last[3] = x[3]
    BY <1>2, <1>3 DEF After
<1>5. last = x
    BY <1>3, <1>4
<1> QED BY <1>5 DEF last

LEMMA ReplayedBuckets == HistoryInv => BucketsReplayLog
<1> SUFFICES ASSUME HistoryInv, NEW k \in Keys
             PROVE  IF Captures(k) = {} THEN buckets[k] = NoBucket
                    ELSE LET last == CHOOSE x \in Captures(k) : \A y \in Captures(k) : After(x, y)
                         IN  buckets[k] = Values(Rows[log[last[2]]][last[3]])
    BY DEF BucketsReplayLog, After
<1>1. LastOf(log, k, buckets[k])
    BY DEF HistoryInv, Replayed
<1>2. CASE buckets[k] = NoBucket /\ \A p, q : ~IsCapture(log, k, p, q)
  <2>1. Captures(k) = {}
      BY <1>2, CapturesAre
  <2> QED BY <1>2, <2>1
<1>3. ASSUME NEW n, NEW m, IsCapture(log, k, n, m), buckets[k] = Values(Rows[log[n]][m]),
             \A p, q : IsCapture(log, k, p, q) => Before(log, p, q, n, m)
      PROVE  /\ Captures(k) # {}
             /\ LET last == CHOOSE x \in Captures(k) : \A y \in Captures(k) : After(x, y)
                IN  buckets[k] = Values(Rows[log[last[2]]][last[3]])
  <2> DEFINE x == <<Rows[log[n]][m].observed, n, m>>
             last == CHOOSE z \in Captures(k) : \A y \in Captures(k) : After(z, y)
  <2>1. \A p, q : IsCapture(log, k, p, q) => Rows[log[p]][q].observed \in Nat /\ p \in Nat /\ q \in Nat
    <3>1. ASSUME NEW p, NEW q, IsCapture(log, k, p, q)
          PROVE  Rows[log[p]][q].observed \in Nat /\ p \in Nat /\ q \in Nat
      <4>1. p \in DOMAIN log /\ q \in DOMAIN Rows[log[p]]
          BY <3>1 DEF IsCapture
      <4>2. p \in 1 .. Len(log) /\ q \in 1 .. MaxBuckets /\ log[p] \in Sound
          BY <4>1, LoggedRows
      <4>3. Rows[log[p]][q].observed \in Nat
          BY <4>1, <4>2, RowsType
      <4> QED BY <4>2, <4>3
    <3> QED BY <3>1
  <2>2. Captures(k) \subseteq Nat \X Nat \X Nat
    <3>1. ASSUME NEW y \in Captures(k) PROVE y \in Nat \X Nat \X Nat
      <4>1. PICK p, q : IsCapture(log, k, p, q) /\ y = <<Rows[log[p]][q].observed, p, q>>
          BY CapturesAre
      <4> QED BY <2>1, <4>1
    <3> QED BY <3>1
  <2>3. x \in Captures(k)
      BY <1>3, CapturesAre
  <2>4. ASSUME NEW y \in Captures(k) PROVE After(x, y)
    <3>1. PICK p, q : IsCapture(log, k, p, q) /\ y = <<Rows[log[p]][q].observed, p, q>>
        BY CapturesAre
    <3>2. Before(log, p, q, n, m)
        BY <1>3, <3>1
    <3>3. /\ Rows[log[p]][q].observed \in Nat /\ p \in Nat /\ q \in Nat
          /\ Rows[log[n]][m].observed \in Nat /\ n \in Nat /\ m \in Nat
        BY <1>3, <2>1, <3>1
    <3>4. /\ y[1] = Rows[log[p]][q].observed /\ y[2] = p /\ y[3] = q
          /\ x[1] = Rows[log[n]][m].observed /\ x[2] = n /\ x[3] = m
        BY <3>1
    <3> HIDE DEF x
    <3> QED BY <3>2, <3>3, <3>4 DEF Before, After
  <2>5. x[2] = n /\ x[3] = m
      OBVIOUS
  <2> HIDE DEF x
  <2>6. last = x
      BY <2>2, <2>3, <2>4, AfterUnique
  <2> HIDE DEF last
  <2>7. buckets[k] = Values(Rows[log[last[2]]][last[3]])
      BY <1>3, <2>5, <2>6
  <2> QED BY <2>3, <2>7 DEF last
<1> QED BY <1>1, <1>2, <1>3 DEF LastOf

\* The read model is what replaying the committed batches one after the other
\* gives, although their transactions overlap.
THEOREM BucketsReplayed == Spec => []BucketsReplayLog
<1> QED BY ReplayedBuckets, HistoryInvariant, PTL

-----------------------------------------------------------------------------
(* One effect per request.                                                  *)

\* A normalised bucket, and a normalised entry, field by field.
Plain(b) == [at |-> b.at, count |-> b.count, price |-> b.price \ {0}]

PlainEntry(e) == [location |-> e.location, item |-> e.item, quality |-> e.quality, observed |-> e.observed,
                  history |-> [m \in DOMAIN e.history |-> Plain(e.history[m])]]

LEMMA PlainBucket ==
    ASSUME NEW b \in BucketType
    PROVE  NormalizeBucket(b) = Plain(b)
<1>1. b = [at |-> b.at, count |-> b.count, price |-> b.price] /\ \A x, y \in b.price : x = y
    BY DEF BucketType
<1>2. CASE b.price = {0}
  <2>1. [b EXCEPT !.price = {}] = [at |-> b.at, count |-> b.count, price |-> {}]
      BY <1>1
  <2>2. b.price \ {0} = {}
      BY <1>2
  <2> QED BY <1>2, <2>1, <2>2 DEF NormalizeBucket, Plain
<1>3. CASE b.price # {0}
  <2>1. 0 \notin b.price
      BY <1>1, <1>3
  <2>2. b.price \ {0} = b.price
      BY <2>1
  <2> QED BY <1>1, <1>3, <2>2 DEF NormalizeBucket, Plain
<1> QED BY <1>2, <1>3

\* The normalisation forgets exactly the difference between a missing price
\* and a price of zero.
LEMMA MeaningHashed ==
    ASSUME NEW c \in Sound, NEW d \in Sound, Meaning(Input(c)) = Meaning(Input(d))
    PROVE  Request[c] = Request[d]
<1> DEFINE History(e) == [m \in DOMAIN e.history |-> LET b == e.history[m] IN <<b.at, b.count, b.price \ {0}>>]
           Of(e) == <<e.location, e.item, e.quality, e.observed, History(e)>>
           es == Input(c).entries
           fs == Input(d).entries
<1>1. /\ c \in Calls /\ Request[c] = Normalized(Input(c)) /\ d \in Calls /\ Request[d] = Normalized(Input(d))
      /\ es \in Seq(EntryType) /\ fs \in Seq(EntryType)
    BY NormalizedType, HistoryAssumption
<1>2. /\ Input(c).id = Input(d).id /\ Input(c).server = Input(d).server
      /\ [n \in DOMAIN es |-> Of(es[n])] = [n \in DOMAIN fs |-> Of(fs[n])]
    BY DEF Meaning
<1>3. \A n \in DOMAIN es : es[n] \in EntryType
    BY <1>1
<1>4. \A n \in DOMAIN fs : fs[n] \in EntryType
    BY <1>1
<1>5. ASSUME NEW e \in EntryType
      PROVE  [e EXCEPT !.history = [m \in DOMAIN @ |-> NormalizeBucket(@[m])]] = PlainEntry(e)
  <2>1. /\ e = [location |-> e.location, item |-> e.item, quality |-> e.quality,
                observed |-> e.observed, history |-> e.history]
        /\ e.history \in Seq(BucketType)
      BY DEF EntryType
  <2>2. \A m \in DOMAIN e.history : e.history[m] \in BucketType
      BY <2>1
  <2>3. [m \in DOMAIN e.history |-> NormalizeBucket(e.history[m])] = [m \in DOMAIN e.history |-> Plain(e.history[m])]
      BY <2>2, PlainBucket
  <2>4. [e EXCEPT !.history = [m \in DOMAIN e.history |-> Plain(e.history[m])]] = PlainEntry(e)
      BY <2>1 DEF PlainEntry
  <2> QED BY <2>3, <2>4
<1>6. ASSUME NEW e \in EntryType, NEW f \in EntryType, Of(e) = Of(f)
      PROVE  PlainEntry(e) = PlainEntry(f)
  <2>1. /\ e.location = f.location /\ e.item = f.item /\ e.quality = f.quality /\ e.observed = f.observed
        /\ History(e) = History(f)
      BY <1>6
  <2>2. DOMAIN e.history = DOMAIN f.history
      BY <2>1
  <2>3. ASSUME NEW m \in DOMAIN e.history PROVE Plain(e.history[m]) = Plain(f.history[m])
    <3>1. History(e)[m] = History(f)[m]
        BY <2>1
    <3>2. <<e.history[m].at, e.history[m].count, e.history[m].price \ {0}>> =
          <<f.history[m].at, f.history[m].count, f.history[m].price \ {0}>>
        BY <2>2, <3>1
    <3> QED BY <3>2 DEF Plain
  <2>4. [m \in DOMAIN e.history |-> Plain(e.history[m])] = [m \in DOMAIN f.history |-> Plain(f.history[m])]
      BY <2>2, <2>3
  <2> QED BY <2>1, <2>4 DEF PlainEntry
<1> HIDE DEF Of
<1>7. DOMAIN es = DOMAIN fs /\ \A n \in DOMAIN es : Of(es[n]) = Of(fs[n])
  <2>1. DOMAIN es = DOMAIN fs
      BY <1>2
  <2>2. ASSUME NEW n \in DOMAIN es PROVE Of(es[n]) = Of(fs[n])
    <3>1. [j \in DOMAIN es |-> Of(es[j])][n] = [j \in DOMAIN fs |-> Of(fs[j])][n]
        BY <1>2
    <3> QED BY <2>1, <3>1
  <2> QED BY <2>1, <2>2
<1> DEFINE Norm(e) == [e EXCEPT !.history = [m \in DOMAIN @ |-> NormalizeBucket(@[m])]]
<1>8. /\ Normalized(Input(c)) = [id |-> Input(c).id, server |-> Input(c).server,
                                 entries |-> [n \in DOMAIN es |-> Norm(es[n])]]
      /\ Normalized(Input(d)) = [id |-> Input(d).id, server |-> Input(d).server,
                                 entries |-> [n \in DOMAIN fs |-> Norm(fs[n])]]
    BY DEF Normalized
<1>9. \A e \in EntryType : Norm(e) = PlainEntry(e)
    BY <1>5
<1> HIDE DEF es, fs, Norm
<1>10. \A n \in DOMAIN es : Norm(es[n]) = Norm(fs[n])
    BY <1>3, <1>4, <1>6, <1>7, <1>9
<1>11. [n \in DOMAIN es |-> Norm(es[n])] = [n \in DOMAIN fs |-> Norm(fs[n])]
    BY <1>7, <1>10
<1> QED BY <1>1, <1>2, <1>8, <1>11

\* The commit of an identifier, if there is one, owns its audit trail.
LEMMA OneWinner ==
    ASSUME HistoryInv, NEW i \in Ids
    PROVE  LET winners == {n \in DOMAIN log : Id[log[n]] = i} IN
           /\ Cardinality(winners) <= 1
           /\ raw[i] = IF winners = {} THEN <<>> ELSE Rows[log[CHOOSE n \in winners : TRUE]]
<1> DEFINE winners == {n \in DOMAIN log : Id[log[n]] = i}
<1>1. \A m, n \in winners : m = n
    BY DEF HistoryInv, LogApart
<1>2. \A n \in winners : n \in DOMAIN log /\ Id[log[n]] = i
    OBVIOUS
<1>3. winners = {} => requests[i].status = "none"
  <2> HAVE winners = {}
  <2>1. \A c \in Logged : Id[c] # i
      BY DEF Logged
  <2>2. requests[i].status \in {"none", "completed"}
      BY DEF HistoryInv, StateTyped, RequestType
  <2> QED BY <2>1, <2>2 DEF HistoryInv, RequestsLogged
<1> HIDE DEF winners
<1>4. CASE winners = {}
  <2>1. Cardinality(winners) = 0
      BY <1>4, FS_EmptySet
  <2>2. raw[i] = <<>>
      BY <1>3, <1>4 DEF HistoryInv, RequestsLogged
  <2> QED BY <1>4, <2>1, <2>2 DEF winners
<1>5. CASE winners # {}
  <2> DEFINE n == CHOOSE n \in winners : TRUE
  <2>1. n \in winners
      BY <1>5
  <2> HIDE DEF n
  <2>2. winners = {n}
      BY <1>1, <2>1
  <2>3. Cardinality(winners) = 1
      BY <2>2, FS_Singleton
  <2>4. n \in DOMAIN log /\ Id[log[n]] = i
      BY <1>2, <2>1
  <2>5. log[n] \in Logged /\ log[n] \in Calls
      BY <2>4, LoggedRows, IdType
  <2>6. raw[i] = Rows[log[n]]
      BY <2>4, <2>5 DEF HistoryInv, Answered
  <2> QED BY <1>5, <2>3, <2>6 DEF winners, n
<1> QED BY <1>4, <1>5

\* Who else uses a committed identifier is told the counts of the commit, or
\* that the payload differs.
LEMMA RepeatsAgree ==
    ASSUME HistoryInv, NEW c \in Logged, NEW d \in Calls, d # c, Id[d] = Id[c]
    PROVE  /\ call[d].duplicate =>
                 /\ call[d].accepted = Len(Rows[c])
                 /\ Rows[d] = Rows[c]
                 /\ call[c].status = 202 => call[d].touched = call[c].touched
           /\ call[d].status = 409 => Meaning(Input(d)) # Meaning(Input(c))
<1>1. c \in Sound /\ c \in Calls
  <2>1. PICK n \in DOMAIN log : c = log[n]
      BY DEF Logged
  <2> QED BY <2>1, LoggedRows, IdType
<1>2. Answered(c, call[c]) /\ Answered(d, call[d])
    BY <1>1 DEF HistoryInv
<1>3. /\ Len(Rows[c]) = Received[c] /\ requests[Id[c]].hash = Request[c] /\ requests[Id[c]].accepted = Received[c]
      /\ call[c].status = 202 => call[c].touched = requests[Id[c]].touched
    BY <1>2 DEF Answered
<1>4. ASSUME call[d].duplicate
      PROVE  /\ call[d].accepted = Len(Rows[c])
             /\ Rows[d] = Rows[c]
             /\ call[c].status = 202 => call[d].touched = call[c].touched
  <2>1. /\ d \in Sound /\ requests[Id[d]].hash = Request[d] /\ call[d].accepted = requests[Id[d]].accepted
        /\ call[d].touched = requests[Id[d]].touched
      BY <1>2, <1>4 DEF Answered
  <2>2. Request[d] = Request[c]
      BY <1>3, <2>1
  <2>3. Rows[d] = Rows[c]
      BY <1>1, <2>1, <2>2 DEF Rows
  <2> QED BY <1>3, <2>1, <2>3
<1>5. ASSUME call[d].status = 409, Meaning(Input(d)) = Meaning(Input(c)) PROVE FALSE
  <2>1. d \in Sound /\ requests[Id[d]].hash # Request[d]
      BY <1>2, <1>5 DEF Answered
  <2>2. Request[d] = Request[c]
      BY <1>1, <1>5, <2>1, MeaningHashed
  <2> QED BY <1>3, <2>1, <2>2
<1> QED BY <1>4, <1>5

\* A request_id takes effect once: at most one call of it commits, its rows
\* are the audit trail, and the other answers repeat its counts or refuse
\* another payload.
THEOREM HistoryOneEffect == Spec => []OneEffectPerRequest
<1>1. HistoryInv => TypeOK
  <2> SUFFICES ASSUME HistoryInv PROVE TypeOK
      OBVIOUS
  <2>1. \A i \in Ids : requests[i].status \in {"none", "completed"}
      BY DEF HistoryInv, StateTyped, RequestType
  <2>2. DOMAIN buckets = Keys
      BY DEF HistoryInv, StateTyped
  <2>3. \A c \in Calls : /\ call[c].pc \in Pcs /\ call[c].status \in Statuses
                         /\ DOMAIN call[c].writes \subseteq call[c].locks
                         /\ call[c].locks # {} => call[c].pc \in {"merging", "completed"}
      BY DEF HistoryInv, StateTyped, CallType, Merged
  <2> QED BY <2>1, <2>2, <2>3 DEF TypeOK, Pcs, Statuses, Open
<1>2. HistoryInv => OneEffectPerRequest
  <2> SUFFICES ASSUME HistoryInv PROVE OneEffectPerRequest
      OBVIOUS
  <2>1. TypeOK
      BY <1>1
  <2>2. \A c \in Logged : \A d \in Calls \ {c} : Id[d] = Id[c] =>
            /\ call[d].duplicate =>
                  /\ call[d].accepted = Len(Rows[c])
                  /\ Rows[d] = Rows[c]
                  /\ call[c].status = 202 => call[d].touched = call[c].touched
            /\ call[d].status = 409 => Meaning(Input(d)) # Meaning(Input(c))
      BY RepeatsAgree
  <2>3. \A i \in Ids : LET winners == {n \in DOMAIN log : Id[log[n]] = i} IN
            /\ Cardinality(winners) <= 1
            /\ raw[i] = IF winners = {} THEN <<>> ELSE Rows[log[CHOOSE n \in winners : TRUE]]
      BY OneWinner
  <2> QED BY <2>1, <2>2, <2>3, Zenon DEF OneEffectPerRequest, Logged
<1> QED BY <1>2, HistoryInvariant, PTL

-----------------------------------------------------------------------------
(* The metrics.                                                             *)

\* Requests with one hash have the same number of buckets.
LEMMA SameReceived ==
    ASSUME NEW c \in Sound, NEW d \in Sound, Request[c] = Request[d]
    PROVE  Received[c] = Received[d]
<1> DEFINE es == Input(c).entries
           fs == Input(d).entries
           Hist(e) == [m \in DOMAIN e.history |-> NormalizeBucket(e.history[m])]
           Norm(e) == [e EXCEPT !.history = Hist(e)]
<1>1. /\ c \in Calls /\ Request[c] = Normalized(Input(c)) /\ d \in Calls /\ Request[d] = Normalized(Input(d))
      /\ es \in Seq(EntryType) /\ fs \in Seq(EntryType)
    BY NormalizedType, HistoryAssumption
<1>2. [n \in DOMAIN es |-> Norm(es[n])] = [n \in DOMAIN fs |-> Norm(fs[n])]
  <2>1. /\ Normalized(Input(c)).entries = [n \in DOMAIN es |-> Norm(es[n])]
        /\ Normalized(Input(d)).entries = [n \in DOMAIN fs |-> Norm(fs[n])]
      BY DEF Normalized
  <2> HIDE DEF Norm, es, fs
  <2> QED BY <1>1, <2>1
<1>3. /\ \A n \in DOMAIN es : es[n] \in EntryType
      /\ \A n \in DOMAIN fs : fs[n] \in EntryType
      /\ DOMAIN es = 1 .. Len(es) /\ Len(es) \in Nat
    BY <1>1
<1>4. ASSUME NEW e \in EntryType
      PROVE  e.history \in Seq(BucketType) /\ Norm(e).history = Hist(e) /\ DOMAIN Hist(e) = DOMAIN e.history
  <2>1. e.history \in Seq(BucketType)
      BY DEF EntryType
  <2>2. DOMAIN Hist(e) = DOMAIN e.history
      OBVIOUS
  <2> HIDE DEF Hist
  <2>3. Norm(e).history = Hist(e)
      BY DEF EntryType
  <2> QED BY <2>1, <2>2, <2>3
<1>5. Received[c] = BucketsIn(es) /\ Received[d] = BucketsIn(fs)
    BY <1>1 DEF Received
<1> HIDE DEF Norm, Hist, es, fs
<1>6. DOMAIN fs = DOMAIN es
    BY <1>2
<1>7. ASSUME NEW n \in DOMAIN es PROVE Len(es[n].history) \in Nat /\ Len(fs[n].history) = Len(es[n].history)
  <2>1. [j \in DOMAIN es |-> Norm(es[j])][n] = [j \in DOMAIN fs |-> Norm(fs[j])][n]
      BY <1>2
  <2>2. Norm(es[n]) = Norm(fs[n])
      BY <1>6, <2>1
  <2>3. /\ es[n].history \in Seq(BucketType) /\ fs[n].history \in Seq(BucketType)
        /\ Hist(es[n]) = Norm(es[n]).history /\ Hist(fs[n]) = Norm(fs[n]).history
        /\ DOMAIN Hist(es[n]) = DOMAIN es[n].history /\ DOMAIN Hist(fs[n]) = DOMAIN fs[n].history
      BY <1>3, <1>4, <1>6
  <2>4. DOMAIN es[n].history = DOMAIN fs[n].history
      BY <2>2, <2>3
  <2>5. \A x, y \in Seq(BucketType) : DOMAIN x = DOMAIN y => Len(x) \in Nat /\ Len(y) = Len(x)
      OBVIOUS
  <2> QED BY <2>3, <2>4, <2>5
<1>8. IsFiniteSet(DOMAIN es)
    BY <1>3, FS_Interval
<1>9. BucketsIn(fs) = BucketsIn(es)
    BY <1>6, <1>7, <1>8, BucketsInSame
<1> QED BY <1>5, <1>9

\* A set that is numbered by a finite one, each member once.
LEMMA Numbered ==
    ASSUME NEW S, IsFiniteSet(S), NEW T, NEW f \in [S -> T],
           \A x, y \in S : f[x] = f[y] => x = y,
           \A z \in T : \E x \in S : z = f[x]
    PROVE  IsFiniteSet(T) /\ Cardinality(T) = Cardinality(S)
<1>1. f \in Bijection(S, T)
    BY DEF Bijection, Injection, Surjection, IsInjective
<1>2. ExistsBijection(S, T)
    BY <1>1 DEF ExistsBijection
<1> QED BY <1>2, FS_Bijection

\* The rows of commit n, and of the commits N, of the log g.
RowsAt(g, n) == {<<n, m>> : m \in DOMAIN Rows[g[n]]}

RowsIn(g, N) == UNION {RowsAt(g, n) : n \in N}

LEMMA RowsAtCount ==
    ASSUME NEW g, NEW n, g[n] \in Sound
    PROVE  /\ IsFiniteSet(RowsAt(g, n)) /\ Cardinality(RowsAt(g, n)) = Len(Rows[g[n]])
           /\ Len(Rows[g[n]]) \in Nat
<1> DEFINE D == DOMAIN Rows[g[n]]
           f == [m \in D |-> <<n, m>>]
<1>1. IsFiniteSet(D) /\ Cardinality(D) = Len(Rows[g[n]]) /\ Len(Rows[g[n]]) \in Nat
    BY RowsType
<1>2. f \in [D -> RowsAt(g, n)] /\ (\A x, y \in D : f[x] = f[y] => x = y)
      /\ \A z \in RowsAt(g, n) : \E x \in D : z = f[x]
    BY DEF RowsAt
<1> HIDE DEF D, f
<1> QED BY <1>1, <1>2, Numbered

\* One more commit adds its rows.
LEMMA RowsInMore ==
    ASSUME NEW g, NEW N, IsFiniteSet(RowsIn(g, N)), NEW n, n \notin N, g[n] \in Sound
    PROVE  /\ IsFiniteSet(RowsIn(g, N \cup {n})) /\ Cardinality(RowsIn(g, N)) \in Nat
           /\ Cardinality(RowsIn(g, N \cup {n})) = Cardinality(RowsIn(g, N)) + Len(Rows[g[n]])
<1>1. RowsIn(g, N \cup {n}) = RowsIn(g, N) \cup RowsAt(g, n)
    BY DEF RowsIn
<1>2. RowsIn(g, N) \cap RowsAt(g, n) = {}
    BY DEF RowsIn, RowsAt
<1>3. IsFiniteSet(RowsAt(g, n)) /\ Cardinality(RowsAt(g, n)) = Len(Rows[g[n]]) /\ Len(Rows[g[n]]) \in Nat
    BY RowsAtCount
<1>4. Cardinality(RowsIn(g, N)) \in Nat /\ Cardinality({}) = 0
    BY FS_CardinalityType, FS_EmptySet
<1>5. /\ IsFiniteSet(RowsIn(g, N) \cup RowsAt(g, n))
      /\ Cardinality(RowsIn(g, N) \cup RowsAt(g, n)) =
            Cardinality(RowsIn(g, N)) + Cardinality(RowsAt(g, n)) - Cardinality({})
    BY <1>2, <1>3, FS_Union
<1>6. Cardinality(RowsIn(g, N)) + Cardinality(RowsAt(g, n)) - Cardinality({}) =
          Cardinality(RowsIn(g, N)) + Len(Rows[g[n]])
    BY <1>3, <1>4
<1> QED BY <1>1, <1>4, <1>5, <1>6

\* The invariant in terms of the log.
LEMMA StoredAre ==
    /\ StoredRows(DOMAIN log) = RowsIn(log, DOMAIN log) /\ StoredRows(Unconfirmed) = RowsIn(log, Unconfirmed)
    /\ StoredRows(DOMAIN log)' = RowsIn(log', DOMAIN log')
    /\ StoredRows(Unconfirmed)' = RowsIn(log', Unconfirmed')
BY DEF StoredRows, RowsIn, RowsAt

\* The steps between the first check and the response, other than the commit.
LEMMA MoveShape ==
    ASSUME HistoryInv, NEW c \in Calls,
           \/ Register(c) \/ Existing(c) \/ Copy(c) \/ (\E k \in Pending(c) : UpsertKey(c, k)) \/ Complete(c)
           \/ Fail(c)
    PROVE  /\ UNCHANGED <<log, metrics>> /\ \A d \in Calls : d # c => call'[d] = call[d]
           /\ call[c].pc \notin {"new", "done"} /\ c \notin Logged
           /\ call'[c].pc \notin {"new", "done"}
<1>1. call \in [Calls -> CallType] /\ call[c] \in CallType
    BY DEF HistoryInv, StateTyped
<1>2. call[c].pc \in {"arrived", "registered", "merging", "completed"}
    BY DEF Register, Existing, Copy, UpsertKey, Complete, Fail, Open
<1>3. c \notin Logged
    BY <1>2 DEF HistoryInv, InTransaction
<1>4. UNCHANGED <<log, metrics>>
    BY DEF Register, Existing, Copy, UpsertKey, Complete, Fail
<1>5. ASSUME NEW r, call' = [call EXCEPT ![c] = r], r.pc \notin {"new", "done"}
      PROVE  /\ \A d \in Calls : d # c => call'[d] = call[d]
             /\ call'[c].pc \notin {"new", "done"}
    BY <1>1, <1>5
<1>6. ASSUME NEW status \in Statuses, Respond(c, status)
      PROVE  /\ \A d \in Calls : d # c => call'[d] = call[d]
             /\ call'[c].pc \notin {"new", "done"}
  <2>1. call' = [call EXCEPT ![c] = Refused(status)]
      BY <1>6 DEF Respond, Refused
  <2> QED BY <1>5, <2>1, RefusedType
<1>7. 409 \in Statuses /\ 500 \in Statuses
    BY DEF Statuses
<1>8. CASE Register(c)
    BY <1>1, <1>2, <1>3, <1>4, <1>8 DEF Register, CallType
<1>9. CASE Copy(c)
  <2>1. CASE Respond(c, 500)
      BY <1>2, <1>3, <1>4, <1>6, <1>7, <2>1
  <2>2. CASE ~Respond(c, 500)
    <3>1. call' = [call EXCEPT ![c].pc = "merging"]
        BY <1>9, <2>2 DEF Copy
    <3> QED BY <1>1, <1>2, <1>3, <1>4, <3>1 DEF CallType
  <2> QED BY <2>1, <2>2
<1>10. CASE Complete(c)
    BY <1>1, <1>2, <1>3, <1>4, <1>10 DEF Complete, CallType
<1>11. CASE \E k \in Pending(c) : UpsertKey(c, k)
  <2>1. PICK k \in Pending(c) : UpsertKey(c, k)
      BY <1>11
  <2>2. \E r \in CallType : call' = [call EXCEPT ![c] = r] /\ r.pc = "merging"
      BY <2>1, UpsertShape
  <2> QED BY <1>2, <1>3, <1>4, <1>5, <2>2
<1>12. CASE Fail(c)
  <2>1. Respond(c, 500)
      BY <1>12 DEF Fail
  <2> QED BY <1>2, <1>3, <1>4, <1>6, <1>7, <2>1
<1>13. CASE Existing(c)
  <2>1. CASE Respond(c, 409)
      BY <1>2, <1>3, <1>4, <1>6, <1>7, <2>1
  <2>2. CASE ~Respond(c, 409)
    <3> DEFINE r == Duplicated(call[c], requests[Id[c]].accepted, requests[Id[c]].touched)
    <3>1. call' = [call EXCEPT ![c] = r] /\ requests[Id[c]] \in RequestType
        BY <1>13, <2>2, ExistingShape
    <3>2. requests[Id[c]].accepted \in Nat /\ requests[Id[c]].touched \in Nat
        BY <3>1 DEF RequestType
    <3>3. r.pc = "responded"
        BY <1>1, <3>2, DuplicateType
    <3> HIDE DEF r
    <3> QED BY <1>2, <1>3, <1>4, <1>5, <3>1, <3>3
  <2> QED BY <2>1, <2>2
<1> QED BY <1>8, <1>9, <1>10, <1>11, <1>12, <1>13

\* A step of a call that has not committed confirms nothing.
LEMMA UnconfirmedStay ==
    ASSUME HistoryInv, NEW c \in Calls, c \notin Logged, log' = log,
           \A d \in Calls : d # c => call'[d] = call[d]
    PROVE  Unconfirmed' = Unconfirmed
<1>1. \A n \in DOMAIN log : log[n] # c /\ log[n] \in Calls
    BY LoggedRows, IdType
<1>2. \A n \in DOMAIN log : call'[log[n]] = call[log[n]]
    BY <1>1
<1> QED BY <1>2 DEF Unconfirmed

LEMMA InitMetrics == Init => MetricsInv
<1> SUFFICES ASSUME Init PROVE MetricsInv
    OBVIOUS
<1>1. \A c \in Calls : call[c].pc = "new"
    BY NewCallType DEF Init
<1>2. log = <<>>
    BY DEF Init
<1>3. DOMAIN log = {}
    BY <1>2
<1>4. Active = {} /\ Unconfirmed = {}
    BY <1>1, <1>3 DEF Active, Unconfirmed
<1>5. StoredRows({}) = {}
    BY DEF StoredRows
<1>6. metrics = NoMetrics
    BY DEF Init
<1> QED BY <1>3, <1>4, <1>5, <1>6, FS_EmptySet DEF MetricsInv, MetricsType, NoMetrics

\* A call is counted as in flight when it arrives.
LEMMA ArriveMetrics ==
    ASSUME HistoryInv, MetricsInv, NEW c \in Calls, Arrive(c)
    PROVE  MetricsInv'
<1>1. call \in [Calls -> CallType] /\ call[c].pc = "new" /\ c \notin Logged /\ log' = log
    BY DEF HistoryInv, StateTyped, InTransaction, Arrive
<1>2. /\ \A d \in Calls : d # c => call'[d] = call[d]
      /\ call'[c].pc \notin {"new", "done"}
  <2>1. CASE c \in Sound
      BY <1>1, <2>1 DEF Arrive, CallType
  <2>2. CASE c \notin Sound
    <3> DEFINE s == FrontStatus(Input(c).front)
    <3>1. call' = [call EXCEPT ![c] = Refused(s)]
        BY <2>2 DEF Arrive, Respond, Refused
    <3>2. s \in Statuses
        BY DEF FrontStatus, Statuses
    <3> HIDE DEF s
    <3>3. Refused(s).pc = "responded"
        BY <3>2, RefusedType
    <3> QED BY <1>1, <3>1, <3>3
  <2> QED BY <2>1, <2>2
<1>3. Active' = Active \cup {c} /\ c \notin Active
    BY <1>1, <1>2 DEF Active
<1>4. Unconfirmed' = Unconfirmed
    BY <1>1, <1>2, UnconfirmedStay
<1>5. IsFiniteSet(Active') /\ Cardinality(Active') = Cardinality(Active) + 1
    BY <1>3, FS_AddElement DEF MetricsInv
<1>6. /\ metrics \in MetricsType /\ metrics.requests \in Nat /\ metrics.inFlight \in Nat
      /\ metrics.succeeded \in Nat /\ metrics.errors \in Nat
    BY DEF MetricsInv, MetricsType
<1> DEFINE a == metrics.requests + 1
           b == metrics.inFlight + 1
<1>7. a \in Nat /\ b \in Nat /\ metrics' = [metrics EXCEPT !.requests = a, !.inFlight = b]
    BY <1>6 DEF Arrive
<1>8. /\ metrics' \in MetricsType /\ metrics'.requests = a
      /\ metrics'.inFlight = b /\ metrics'.succeeded = metrics.succeeded
      /\ metrics'.errors = metrics.errors /\ metrics'.received = metrics.received
      /\ metrics'.stored = metrics.stored /\ metrics'.rejected = metrics.rejected
      /\ metrics'.duplicated = metrics.duplicated
  <2> HIDE DEF a, b
  <2>1. metrics' \in MetricsType
      BY <1>6, <1>7, Zenon DEF MetricsType
  <2> QED BY <1>6, <1>7, <2>1 DEF MetricsType
<1>9. StoredRows(DOMAIN log)' = StoredRows(DOMAIN log) /\ StoredRows(Unconfirmed)' = StoredRows(Unconfirmed)
    BY <1>1, <1>4, StoredAre
<1> QED BY <1>5, <1>6, <1>8, <1>9 DEF MetricsInv

LEMMA MoveMetrics ==
    ASSUME HistoryInv, MetricsInv, NEW c \in Calls,
           \/ Register(c) \/ Existing(c) \/ Copy(c) \/ (\E k \in Pending(c) : UpsertKey(c, k)) \/ Complete(c)
           \/ Fail(c)
    PROVE  MetricsInv'
<1>1. /\ UNCHANGED <<log, metrics>> /\ \A d \in Calls : d # c => call'[d] = call[d]
      /\ call[c].pc \notin {"new", "done"} /\ c \notin Logged
      /\ call'[c].pc \notin {"new", "done"}
    BY MoveShape
<1>2. Active' = Active
    BY <1>1 DEF Active
<1>3. Unconfirmed' = Unconfirmed
    BY <1>1, UnconfirmedStay
<1>4. StoredRows(DOMAIN log)' = StoredRows(DOMAIN log) /\ StoredRows(Unconfirmed)' = StoredRows(Unconfirmed)
    BY <1>1, <1>3, StoredAre
<1> QED BY <1>1, <1>2, <1>4 DEF MetricsInv

\* A commit adds its rows to the audit trail and, until the handler returns,
\* to the unconfirmed ones.
LEMMA CommitMetrics ==
    ASSUME HistoryInv, MetricsInv, NEW c \in Calls, Commit(c)
    PROVE  MetricsInv'
<1> DEFINE L == Len(log) + 1
           len == Len(Rows[c])
<1>1. call[c].pc = "completed" /\ UNCHANGED metrics
    BY DEF Commit
<1>2. call'[c].pc = "responded" /\ \A d \in Calls : d # c => call'[d] = call[d]
    BY CommitShape
<1>3. Active' = Active
    BY <1>1, <1>2 DEF Active
<1>4. /\ Len(log) \in Nat /\ DOMAIN log = 1 .. Len(log) /\ DOMAIN log' = 1 .. L /\ log'[L] = c /\ c \in Sound
      /\ \A n \in DOMAIN log : log'[n] = log[n] /\ log[n] # c /\ log[n] \in Calls
    BY CommitLog, IdType
<1>5. DOMAIN log' = DOMAIN log \cup {L} /\ L \notin DOMAIN log
    BY <1>4
<1> HIDE DEF L
<1>6. \A n \in DOMAIN log : call'[log'[n]] = call[log[n]]
    BY <1>2, <1>4
<1>7. Unconfirmed' = Unconfirmed \cup {L} /\ L \notin Unconfirmed /\ Unconfirmed \subseteq DOMAIN log
  <2>1. Unconfirmed = {n \in DOMAIN log : call[log[n]].pc # "done" \/ call[log[n]].status = 500}
      BY DEF Unconfirmed
  <2>2. Unconfirmed' = {n \in DOMAIN log' : call'[log'[n]].pc # "done" \/ call'[log'[n]].status = 500}
      BY DEF Unconfirmed
  <2>3. call'[log'[L]].pc # "done"
      BY <1>2, <1>4
  <2> QED BY <1>5, <1>6, <2>1, <2>2, <2>3
<1>8. \A N \in SUBSET DOMAIN log : RowsIn(log', N) = RowsIn(log, N)
    BY <1>4 DEF RowsIn, RowsAt
<1> DEFINE A == DOMAIN log
           U == Unconfirmed
<1>9. /\ RowsIn(log', A) = StoredRows(DOMAIN log)
      /\ RowsIn(log', U) = StoredRows(Unconfirmed)
      /\ StoredRows(DOMAIN log)' = RowsIn(log', A \cup {L})
      /\ StoredRows(Unconfirmed)' = RowsIn(log', U \cup {L})
    BY <1>5, <1>7, <1>8, StoredAre
<1>10. /\ IsFiniteSet(RowsIn(log', A)) /\ IsFiniteSet(RowsIn(log', U)) /\ L \notin A /\ L \notin U
       /\ log'[L] \in Sound /\ len = Len(Rows[log'[L]])
    BY <1>4, <1>5, <1>7, <1>9 DEF MetricsInv
<1> HIDE DEF A, U, len
<1>11. /\ IsFiniteSet(StoredRows(DOMAIN log)') /\ Cardinality(StoredRows(DOMAIN log)) \in Nat
       /\ Cardinality(StoredRows(DOMAIN log)') = Cardinality(StoredRows(DOMAIN log)) + len
  <2>1. /\ IsFiniteSet(RowsIn(log', A \cup {L})) /\ Cardinality(RowsIn(log', A)) \in Nat
        /\ Cardinality(RowsIn(log', A \cup {L})) = Cardinality(RowsIn(log', A)) + len
      BY <1>10, RowsInMore
  <2> QED BY <1>9, <2>1
<1>12. /\ IsFiniteSet(StoredRows(Unconfirmed)') /\ Cardinality(StoredRows(Unconfirmed)) \in Nat
       /\ Cardinality(StoredRows(Unconfirmed)') = Cardinality(StoredRows(Unconfirmed)) + len
  <2>1. /\ IsFiniteSet(RowsIn(log', U \cup {L})) /\ Cardinality(RowsIn(log', U)) \in Nat
        /\ Cardinality(RowsIn(log', U \cup {L})) = Cardinality(RowsIn(log', U)) + len
      BY <1>10, RowsInMore
  <2> QED BY <1>9, <2>1
<1>13. metrics.stored \in Nat /\ len \in Nat
    BY <1>4, RowsType DEF MetricsInv, MetricsType, len
<1>14. Cardinality(StoredRows(DOMAIN log)) = metrics.stored + Cardinality(StoredRows(Unconfirmed))
    BY DEF MetricsInv
<1>15. Cardinality(StoredRows(DOMAIN log)') = metrics.stored + Cardinality(StoredRows(Unconfirmed)')
    BY <1>11, <1>12, <1>13, <1>14
<1> QED BY <1>1, <1>3, <1>11, <1>12, <1>15 DEF MetricsInv

\* What the deferred function adds to the counters.
Decoded(c) == IF Input(c).front = "ok" THEN Received[c] ELSE 0

LEMMA CountedShape ==
    ASSUME HistoryInv, MetricsInv, NEW c \in Calls, call[c].pc = "responded"
    PROVE  /\ Counted(c) \in MetricsType
           /\ Counted(c).requests = metrics.requests
           /\ Counted(c).inFlight = IF metrics.inFlight > 0 THEN metrics.inFlight - 1 ELSE metrics.inFlight
           /\ Counted(c).succeeded + Counted(c).errors = metrics.succeeded + metrics.errors + 1
           /\ Counted(c).received = metrics.received + Decoded(c)
           /\ Counted(c).stored + Counted(c).rejected + Counted(c).duplicated =
                 metrics.stored + metrics.rejected + metrics.duplicated + Decoded(c)
           /\ Counted(c).stored =
                 metrics.stored + (IF call[c].status = 202 THEN Received[c] ELSE 0)
<1>1. /\ metrics \in MetricsType /\ call[c] \in CallType
      /\ call[c].accepted \in Nat /\ call[c].touched \in Nat /\ Received[c] \in Nat
    BY ReceivedType DEF HistoryInv, StateTyped, MetricsInv, CallType
<1>2. /\ Succeeded(c) <=> call[c].status \in {200, 202}
      /\ call[c].status = 202 => ~call[c].duplicate
      /\ call[c].duplicate => call[c].status = 200
      /\ call[c].status = 200 => call[c].duplicate
  <2>1. call[c].status \in Statuses
      BY <1>1 DEF CallType
  <2>2. Succeeded(c) <=> call[c].status \in {200, 202}
      BY <2>1 DEF Statuses, Succeeded
  <2>3. Answered(c, call[c])
      BY DEF HistoryInv
  <2> QED BY <2>2, <2>3 DEF Answered
<1>3. call[c].status \in {200, 202} =>
          call[c].accepted = Received[c] /\ Input(c).front = "ok"
  <2> HAVE call[c].status \in {200, 202}
  <2>1. Answered(c, call[c])
      BY DEF HistoryInv
  <2>2. c \in Sound
      BY <2>1 DEF Answered
  <2>3. CASE c \in Logged
    <3>1. call[c].status = 202 /\ call[c].accepted = Received[c]
        BY <2>1, <2>3 DEF Answered
    <3> QED BY <2>2, <3>1 DEF Sound
  <2>4. CASE call[c].duplicate
    <3>1. /\ requests[Id[c]].status = "completed" /\ requests[Id[c]].hash = Request[c]
          /\ call[c].accepted = requests[Id[c]].accepted /\ Id[c] \in Ids
        BY <2>1, <2>2, <2>4, IdType DEF Answered
    <3>2. PICK d \in Logged : Id[d] = Id[c]
        BY <3>1 DEF HistoryInv, RequestsLogged
    <3>3. d \in Sound /\ d \in Calls
      <4>1. PICK n \in DOMAIN log : d = log[n]
          BY DEF Logged
      <4> QED BY <4>1, LoggedRows, IdType
    <3>4. Request[d] = Request[c] /\ requests[Id[c]].accepted = Received[d]
        BY <3>1, <3>2, <3>3 DEF HistoryInv, Answered
    <3>5. Received[d] = Received[c]
        BY <2>2, <3>3, <3>4, SameReceived
    <3> QED BY <2>2, <3>1, <3>4, <3>5 DEF Sound
  <2> QED BY <2>1, <2>3, <2>4 DEF Answered
<1>4. Decoded(c) \in Nat /\ (call[c].status \in {200, 202} => Decoded(c) = call[c].accepted)
    BY <1>1, <1>3 DEF Decoded
<1> DEFINE ok == Succeeded(c)
           dup == call[c].duplicate
           decoded == Decoded(c)
           rejected == CASE dup -> 0 [] ok -> decoded - call[c].accepted [] OTHER -> decoded
<1>5. Counted(c) =
        [metrics EXCEPT
            !.inFlight = IF metrics.inFlight > 0 THEN metrics.inFlight - 1 ELSE metrics.inFlight,
            !.received = metrics.received + decoded,
            !.rejected = metrics.rejected + rejected,
            !.succeeded = IF ok THEN metrics.succeeded + 1 ELSE metrics.succeeded,
            !.errors = IF ok THEN metrics.errors ELSE metrics.errors + 1,
            !.duplicates = IF dup THEN metrics.duplicates + 1 ELSE metrics.duplicates,
            !.duplicated = IF dup THEN metrics.duplicated + call[c].accepted ELSE metrics.duplicated,
            !.stored = IF ok /\ ~dup THEN metrics.stored + call[c].accepted ELSE metrics.stored,
            !.touched = IF ok /\ ~dup THEN metrics.touched + call[c].touched ELSE metrics.touched]
    BY DEF Counted, Decoded
<1>6. rejected = IF ok THEN 0 ELSE decoded
  <2>1. CASE dup
    <3>1. ok /\ decoded - call[c].accepted = 0
        BY <1>1, <1>2, <1>4, <2>1
    <3> HIDE DEF ok, dup, decoded
    <3> QED BY <2>1, <3>1
  <2>2. CASE ~dup /\ ok
      BY <1>1, <1>2, <1>4, <2>2
  <2>3. CASE ~dup /\ ~ok
      BY <2>3
  <2> QED BY <2>1, <2>2, <2>3
<1>7. /\ metrics.inFlight \in Nat /\ metrics.received \in Nat /\ metrics.rejected \in Nat
      /\ metrics.succeeded \in Nat /\ metrics.errors \in Nat /\ metrics.duplicates \in Nat
      /\ metrics.duplicated \in Nat /\ metrics.stored \in Nat /\ metrics.touched \in Nat
    BY <1>1 DEF MetricsType
<1> HIDE DEF rejected, decoded, ok, dup
<1>8. /\ Counted(c).requests = metrics.requests
      /\ Counted(c).inFlight = IF metrics.inFlight > 0 THEN metrics.inFlight - 1 ELSE metrics.inFlight
      /\ Counted(c).received = metrics.received + decoded
      /\ Counted(c).rejected = metrics.rejected + rejected
      /\ Counted(c).succeeded = IF ok THEN metrics.succeeded + 1 ELSE metrics.succeeded
      /\ Counted(c).errors = IF ok THEN metrics.errors ELSE metrics.errors + 1
      /\ Counted(c).duplicates = IF dup THEN metrics.duplicates + 1 ELSE metrics.duplicates
      /\ Counted(c).duplicated = IF dup THEN metrics.duplicated + call[c].accepted ELSE metrics.duplicated
      /\ Counted(c).stored = IF ok /\ ~dup THEN metrics.stored + call[c].accepted ELSE metrics.stored
      /\ Counted(c).touched = IF ok /\ ~dup THEN metrics.touched + call[c].touched ELSE metrics.touched
    BY <1>1, <1>5 DEF MetricsType
<1>9. Counted(c) \in MetricsType
  <2> DEFINE a1 == IF metrics.inFlight > 0 THEN metrics.inFlight - 1 ELSE metrics.inFlight
             a2 == metrics.received + decoded
             a3 == metrics.rejected + rejected
             a4 == IF ok THEN metrics.succeeded + 1 ELSE metrics.succeeded
             a5 == IF ok THEN metrics.errors ELSE metrics.errors + 1
             a6 == IF dup THEN metrics.duplicates + 1 ELSE metrics.duplicates
             a7 == IF dup THEN metrics.duplicated + call[c].accepted ELSE metrics.duplicated
             a8 == IF ok /\ ~dup THEN metrics.stored + call[c].accepted ELSE metrics.stored
             a9 == IF ok /\ ~dup THEN metrics.touched + call[c].touched ELSE metrics.touched
  <2>1. decoded \in Nat /\ rejected \in Nat
      BY <1>4, <1>6 DEF decoded
  <2>2. /\ a1 \in Nat /\ a2 \in Nat /\ a3 \in Nat /\ a4 \in Nat /\ a5 \in Nat /\ a6 \in Nat
        /\ a7 \in Nat /\ a8 \in Nat /\ a9 \in Nat
    <3>1. a1 \in Nat /\ a2 \in Nat /\ a3 \in Nat
        BY <1>7, <2>1
    <3>2. a4 \in Nat /\ a5 \in Nat /\ a6 \in Nat
        BY <1>7
    <3>3. /\ metrics.duplicated + call[c].accepted \in Nat /\ metrics.stored + call[c].accepted \in Nat
          /\ metrics.touched + call[c].touched \in Nat
      <4>1. \A x, y \in Nat : x + y \in Nat
          OBVIOUS
      <4>2. call[c].accepted \in Nat /\ call[c].touched \in Nat
          BY <1>1
      <4> HIDE DEF a1, a2, a3, a4, a5, a6, a7, a8, a9
      <4> QED BY <1>7, <4>1, <4>2, Zenon
    <3>4. a7 \in Nat
        BY <1>7, <3>3
    <3>5. a8 \in Nat
        BY <1>7, <3>3
    <3>6. a9 \in Nat
        BY <1>7, <3>3
    <3> QED BY <3>1, <3>2, <3>4, <3>5, <3>6
  <2>3. Counted(c) = [metrics EXCEPT !.inFlight = a1, !.received = a2, !.rejected = a3, !.succeeded = a4,
                                     !.errors = a5, !.duplicates = a6, !.duplicated = a7,
                                     !.stored = a8, !.touched = a9]
      BY <1>5
  <2> HIDE DEF a1, a2, a3, a4, a5, a6, a7, a8, a9
  <2> QED BY <1>1, <2>2, <2>3, ZenonT(120) DEF MetricsType
<1>10. /\ ok <=> call[c].status \in {200, 202}
       /\ dup <=> call[c].status = 200
       /\ ok => decoded = call[c].accepted /\ call[c].accepted = Received[c]
       /\ decoded = Decoded(c) /\ decoded \in Nat
    BY <1>2, <1>3, <1>4 DEF ok, dup, decoded
<1>11. Counted(c).stored = metrics.stored + (IF call[c].status = 202 THEN Received[c] ELSE 0)
    BY <1>7, <1>8, <1>10
<1>12. Counted(c).stored + Counted(c).rejected + Counted(c).duplicated =
          metrics.stored + metrics.rejected + metrics.duplicated + Decoded(c)
  <2>1. /\ metrics.stored \in Int /\ metrics.rejected \in Int /\ metrics.duplicated \in Int
        /\ Decoded(c) \in Int /\ decoded = Decoded(c) /\ (ok => call[c].accepted = Decoded(c))
      BY <1>7, <1>10
  <2>2. CASE call[c].status = 200
    <3>1. ok /\ dup
        BY <1>10, <2>2
    <3>2. /\ Counted(c).stored = metrics.stored
          /\ Counted(c).rejected = metrics.rejected + 0
          /\ Counted(c).duplicated = metrics.duplicated + call[c].accepted
        BY <1>6, <1>8, <3>1
    <3>3. Counted(c).stored + Counted(c).rejected + Counted(c).duplicated =
              metrics.stored + (metrics.rejected + 0) + (metrics.duplicated + Decoded(c))
        BY <2>1, <3>1, <3>2
    <3>4. metrics.stored + (metrics.rejected + 0) + (metrics.duplicated + Decoded(c)) =
              metrics.stored + metrics.rejected + metrics.duplicated + Decoded(c)
        BY <2>1
    <3> QED BY <3>3, <3>4, Zenon
  <2>3. CASE call[c].status = 202
    <3>1. ok /\ ~dup
        BY <1>10, <2>3
    <3>2. /\ Counted(c).stored = metrics.stored + call[c].accepted
          /\ Counted(c).rejected = metrics.rejected + 0
          /\ Counted(c).duplicated = metrics.duplicated
        BY <1>6, <1>8, <3>1
    <3>3. Counted(c).stored + Counted(c).rejected + Counted(c).duplicated =
              (metrics.stored + Decoded(c)) + (metrics.rejected + 0) + metrics.duplicated
        BY <2>1, <3>1, <3>2
    <3>4. (metrics.stored + Decoded(c)) + (metrics.rejected + 0) + metrics.duplicated =
              metrics.stored + metrics.rejected + metrics.duplicated + Decoded(c)
        BY <2>1
    <3> QED BY <3>3, <3>4, Zenon
  <2>4. CASE call[c].status \notin {200, 202}
    <3>1. ~ok /\ ~dup
        BY <1>10, <2>4
    <3>2. /\ Counted(c).stored = metrics.stored
          /\ Counted(c).rejected = metrics.rejected + decoded
          /\ Counted(c).duplicated = metrics.duplicated
        BY <1>6, <1>8, <3>1
    <3>3. Counted(c).stored + Counted(c).rejected + Counted(c).duplicated =
              metrics.stored + (metrics.rejected + Decoded(c)) + metrics.duplicated
        BY <2>1, <3>1, <3>2
    <3>4. metrics.stored + (metrics.rejected + Decoded(c)) + metrics.duplicated =
              metrics.stored + metrics.rejected + metrics.duplicated + Decoded(c)
        BY <2>1
    <3> QED BY <3>3, <3>4, Zenon
  <2> QED BY <2>2, <2>3, <2>4
<1>13. Counted(c).succeeded + Counted(c).errors = metrics.succeeded + metrics.errors + 1
    BY <1>7, <1>8
<1> QED BY <1>8, <1>9, <1>10, <1>11, <1>12, <1>13

\* A call that returns with 202 takes its rows out of the unconfirmed ones.
LEMMA FinishUnconfirmed ==
    ASSUME HistoryInv, MetricsInv, NEW c \in Calls, Finish(c)
    PROVE  /\ IsFiniteSet(RowsIn(log, Unconfirmed'))
           /\ Cardinality(RowsIn(log, Unconfirmed')) \in Nat
           /\ call[c].status = 202 =>
                 Cardinality(StoredRows(Unconfirmed)) = Cardinality(RowsIn(log, Unconfirmed')) + Received[c]
           /\ call[c].status # 202 =>
                 Cardinality(StoredRows(Unconfirmed)) = Cardinality(RowsIn(log, Unconfirmed'))
<1>1. /\ call \in [Calls -> CallType] /\ call[c] \in CallType /\ call[c].pc = "responded"
      /\ log' = log /\ call' = [call EXCEPT ![c].pc = "done"]
    BY DEF HistoryInv, StateTyped, Finish
<1>2. /\ \A d \in Calls : d # c => call'[d] = call[d]
      /\ call'[c].pc = "done" /\ call'[c].status = call[c].status
    BY <1>1 DEF CallType
<1>3. /\ Answered(c, call[c]) /\ StoredRows(Unconfirmed) = RowsIn(log, Unconfirmed)
      /\ IsFiniteSet(RowsIn(log, Unconfirmed)) /\ Cardinality(RowsIn(log, Unconfirmed)) \in Nat
    BY StoredAre, FS_CardinalityType DEF HistoryInv, MetricsInv
<1>4. /\ Unconfirmed = {n \in DOMAIN log : call[log[n]].pc # "done" \/ call[log[n]].status = 500}
      /\ Unconfirmed' = {n \in DOMAIN log : call'[log[n]].pc # "done" \/ call'[log[n]].status = 500}
    BY <1>1 DEF Unconfirmed
<1>5. \A n \in DOMAIN log : log[n] \in Calls /\ log[n] \in Logged
    BY LoggedRows, IdType
<1>6. CASE call[c].status = 202
  <2>1. c \in Logged
      BY <1>3, <1>6 DEF Answered
  <2>2. PICK n \in DOMAIN log : log[n] = c
      BY <2>1 DEF Logged
  <2>3. \A m \in DOMAIN log : m # n => log[m] # c
      BY <2>2 DEF HistoryInv, LogApart
  <2>4. n \in Unconfirmed /\ Unconfirmed' = Unconfirmed \ {n}
    <3>1. \A m \in DOMAIN log : m # n => call'[log[m]] = call[log[m]]
        BY <1>2, <1>5, <2>3
    <3>2. call[log[n]].pc # "done" /\ call'[log[n]].pc = "done" /\ call'[log[n]].status # 500
        BY <1>1, <1>2, <1>6, <2>2
    <3> QED BY <1>4, <2>2, <3>1, <3>2
  <2> DEFINE U == Unconfirmed'
  <2>5. Unconfirmed = U \cup {n} /\ n \notin U
      BY <2>4
  <2>6. IsFiniteSet(RowsIn(log, U))
    <3>1. RowsIn(log, U) \subseteq RowsIn(log, Unconfirmed)
        BY <2>5 DEF RowsIn
    <3> HIDE DEF U
    <3> QED BY <1>3, <3>1, FS_Subset
  <2>7. log[n] \in Sound /\ Len(Rows[log[n]]) = Received[c]
      BY <2>2, LoggedRows
  <2> HIDE DEF U
  <2>8. /\ Cardinality(RowsIn(log, U)) \in Nat
        /\ Cardinality(RowsIn(log, U \cup {n})) = Cardinality(RowsIn(log, U)) + Received[c]
      BY <2>5, <2>6, <2>7, RowsInMore
  <2>9. Cardinality(StoredRows(Unconfirmed)) = Cardinality(RowsIn(log, U)) + Received[c]
      BY <1>3, <2>5, <2>8
  <2> QED BY <1>6, <2>6, <2>8, <2>9 DEF U
<1>7. CASE call[c].status # 202
  <2>1. ASSUME NEW n \in DOMAIN log PROVE n \in Unconfirmed' <=> n \in Unconfirmed
    <3>1. CASE log[n] = c
      <4>1. call[c].status = 500
          BY <1>3, <1>5, <1>7, <3>1 DEF Answered
      <4> QED BY <1>2, <1>4, <3>1, <4>1
    <3>2. CASE log[n] # c
        BY <1>2, <1>4, <1>5, <3>2
    <3> QED BY <3>1, <3>2
  <2>2. Unconfirmed' = Unconfirmed
      BY <1>4, <2>1
  <2> QED BY <1>3, <1>7, <2>2
<1> QED BY <1>6, <1>7

\* The handler returns: the call is no longer in flight, and its buckets are
\* stored, rejected, duplicate or, after a lost reply of the commit, unconfirmed.
LEMMA FinishMetrics ==
    ASSUME HistoryInv, MetricsInv, NEW c \in Calls, Finish(c)
    PROVE  MetricsInv'
<1> DEFINE len == Received[c]
<1>1. /\ call \in [Calls -> CallType] /\ call[c] \in CallType /\ call[c].pc = "responded"
      /\ log' = log /\ metrics' = Counted(c) /\ call' = [call EXCEPT ![c].pc = "done"]
    BY DEF HistoryInv, StateTyped, Finish
<1>2. /\ \A d \in Calls : d # c => call'[d] = call[d]
      /\ call'[c].pc = "done" /\ call'[c].status = call[c].status
    BY <1>1 DEF CallType
<1>3. Active' = Active \ {c} /\ c \in Active
    BY <1>1, <1>2 DEF Active
<1>4. IsFiniteSet(Active') /\ Cardinality(Active') = Cardinality(Active) - 1 /\ Cardinality(Active') \in Nat
  <2>1. IsFiniteSet(Active)
      BY DEF MetricsInv
  <2>2. IsFiniteSet(Active') /\ Cardinality(Active') = Cardinality(Active) - 1
      BY <1>3, <2>1, FS_RemoveElement
  <2> QED BY <2>2, FS_CardinalityType
<1>5. /\ IsFiniteSet(RowsIn(log, Unconfirmed'))
      /\ Cardinality(StoredRows(Unconfirmed)) =
            Cardinality(RowsIn(log, Unconfirmed')) + (IF call[c].status = 202 THEN len ELSE 0)
      /\ Cardinality(RowsIn(log, Unconfirmed')) \in Nat
  <2> HIDE DEF len
  <2> QED BY FinishUnconfirmed DEF len
<1>6. /\ metrics' \in MetricsType
      /\ metrics'.requests = metrics.requests
      /\ metrics'.inFlight = IF metrics.inFlight > 0 THEN metrics.inFlight - 1 ELSE metrics.inFlight
      /\ metrics'.succeeded + metrics'.errors = metrics.succeeded + metrics.errors + 1
      /\ metrics'.received = metrics.received + Decoded(c)
      /\ metrics'.stored + metrics'.rejected + metrics'.duplicated =
            metrics.stored + metrics.rejected + metrics.duplicated + Decoded(c)
      /\ metrics'.stored = metrics.stored + (IF call[c].status = 202 THEN len ELSE 0)
    BY <1>1, CountedShape
<1> HIDE DEF len
<1>7. /\ metrics.inFlight = Cardinality(Active)
      /\ metrics.requests = metrics.inFlight + metrics.succeeded + metrics.errors
      /\ metrics.received = metrics.stored + metrics.rejected + metrics.duplicated
      /\ IsFiniteSet(StoredRows(DOMAIN log))
      /\ Cardinality(StoredRows(DOMAIN log)) = metrics.stored + Cardinality(StoredRows(Unconfirmed))
    BY DEF MetricsInv
<1>8. /\ metrics.inFlight \in Nat /\ metrics.succeeded \in Nat /\ metrics.errors \in Nat
      /\ metrics.stored \in Nat /\ metrics.rejected \in Nat /\ metrics.duplicated \in Nat
      /\ metrics.received \in Nat /\ metrics.requests \in Nat
    BY DEF MetricsInv, MetricsType
<1>9. /\ metrics'.inFlight \in Nat /\ metrics'.succeeded \in Nat /\ metrics'.errors \in Nat
      /\ metrics'.stored \in Nat /\ metrics'.rejected \in Nat /\ metrics'.duplicated \in Nat
    BY <1>6 DEF MetricsType
<1>10. metrics'.inFlight = Cardinality(Active')
    BY <1>4, <1>6, <1>7, <1>8
<1>11. metrics'.requests = metrics'.inFlight + metrics'.succeeded + metrics'.errors
    BY <1>4, <1>6, <1>7, <1>8, <1>9
<1>12. metrics'.received = metrics'.stored + metrics'.rejected + metrics'.duplicated
    BY <1>6, <1>7
<1>13. StoredRows(DOMAIN log)' = StoredRows(DOMAIN log)
    BY <1>1, StoredAre
<1>14. Cardinality(StoredRows(DOMAIN log)') = metrics'.stored + Cardinality(RowsIn(log, Unconfirmed'))
  <2>1. CASE call[c].status = 202
    <3>1. len \in Nat
        BY ReceivedType DEF len
    <3>2. /\ metrics'.stored = metrics.stored + len
          /\ Cardinality(StoredRows(Unconfirmed)) = Cardinality(RowsIn(log, Unconfirmed')) + len
        BY <1>5, <1>6, <2>1
    <3> QED BY <1>5, <1>7, <1>8, <1>13, <3>1, <3>2
  <2>2. CASE call[c].status # 202
      BY <1>5, <1>6, <1>7, <1>8, <1>13, <2>2
  <2> QED BY <2>1, <2>2
<1>15. StoredRows(Unconfirmed)' = RowsIn(log, Unconfirmed')
    BY <1>1, StoredAre
<1> QED BY <1>4, <1>5, <1>6, <1>7, <1>10, <1>11, <1>12, <1>13, <1>14, <1>15 DEF MetricsInv

LEMMA NextMetrics == HistoryInv /\ MetricsInv /\ [Next]_vars => MetricsInv'
<1> SUFFICES ASSUME HistoryInv, MetricsInv, [Next]_vars PROVE MetricsInv'
    OBVIOUS
<1>1. CASE UNCHANGED vars
    BY <1>1 DEF vars, MetricsInv, Active, Unconfirmed, StoredRows
<1>2. ASSUME NEW c \in Calls, Arrive(c) \/ Step(c) \/ Fail(c) PROVE MetricsInv'
    BY <1>2, ArriveMetrics, MoveMetrics, CommitMetrics, FinishMetrics DEF Step
<1> QED BY <1>1, <1>2 DEF Next

\* The counters account for every request and every bucket, and the stored
\* ones are those of the audit trail whose commit was confirmed.
THEOREM HistoryMetrics == Spec => []MetricsConserve
<1>1. HistoryInv /\ MetricsInv /\ [Next]_vars => (HistoryInv /\ MetricsInv)'
    BY NextHistory, NextMetrics
<1>2. Init => HistoryInv /\ MetricsInv
    BY InitHistory, InitMetrics
<1>3. MetricsInv => MetricsConserve
    BY DEF MetricsInv, MetricsConserve
<1> QED BY <1>1, <1>2, <1>3, PTL DEF Spec
=============================================================================
