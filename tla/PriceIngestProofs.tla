------------------------- MODULE PriceIngestProofs -------------------------
(***************************************************************************)
(* Machine-checked safety of the price ingest, for any calls, identifiers,  *)
(* keys and batches: IngestInv is inductive and implies CurrentIsNewest and *)
(* TouchedIsChanged; with MetricsInv, inductive on top of it, it implies    *)
(* OneEffectPerRequest.                                                     *)
(***************************************************************************)
EXTENDS PriceIngest, FiniteSetTheorems, TLAPS

Pcs == {"new", "arrived", "registered", "merging", "completed", "responded", "done"}

Statuses == {0, 200, 202, 400, 401, 405, 409, 413, 415, 426, 500}

Rows == UNION {[D -> PriceType] : D \in SUBSET Keys}

CallType == [pc : Pcs, status : Statuses, locks : SUBSET Keys, writes : Rows, touched : Nat,
             accepted : Nat, duplicate : BOOLEAN, committed : BOOLEAN]

RowType == [status : {"none", "completed"}, hash : {<<>>} \cup {Hash(c) : c \in Calls},
            accepted : Nat, touched : Nat]

StateTyped ==
    /\ requests \in [Ids -> RowType]
    /\ current \in [Keys -> PriceType]
    /\ call \in [Calls -> CallType]

\* A call that has a transaction, or waits to register, has no answer yet.
InTransaction(c, r) ==
    /\ r.pc \in {"arrived", "registered", "merging", "completed"} => c \in Sound
    /\ r.pc \notin {"responded", "done"} => r.status = 0 /\ ~r.duplicate /\ ~r.committed
    /\ r.pc \in {"new", "arrived", "registered"} => r.touched = 0
    /\ r.pc \in {"registered", "merging", "completed"} => requests[RequestId(c)].status = "none"

\* What the upsert has locked and written so far: every locked row is the
\* merge with the row that is still the committed one.
Merged(c, r) ==
    /\ r.pc \notin {"merging", "completed"} => r.locks = {} /\ DOMAIN r.writes = {}
    /\ DOMAIN r.writes \subseteq r.locks
    /\ r.pc \in {"merging", "completed"} =>
          /\ r.locks \subseteq KeysOf[c]
          /\ r.accepted = Len(Request(c).entries)
          /\ IsFiniteSet(DOMAIN r.writes) /\ r.touched = Cardinality(DOMAIN r.writes)
          /\ \A k \in r.locks :
                /\ k \in DOMAIN r.writes <=> Touches(current[k], Excluded[c][k])
                /\ k \in DOMAIN r.writes => r.writes[k] = Merge(current[k], Excluded[c][k])
    /\ r.pc = "completed" => r.locks = KeysOf[c]

\* What an answer says of the stored request.
Answered(c, r) ==
    /\ r.committed \/ r.duplicate \/ r.status = 409 =>
          /\ c \in Sound /\ requests[RequestId(c)].status = "completed"
    /\ r.committed =>
          /\ ~r.duplicate /\ r.status \in {202, 500}
          /\ requests[RequestId(c)].hash = Hash(c)
          /\ requests[RequestId(c)].accepted = Len(Request(c).entries)
          /\ r.status = 202 => /\ r.accepted = Len(Request(c).entries)
                               /\ r.touched = requests[RequestId(c)].touched
    /\ r.duplicate =>
          /\ r.status = 200 /\ requests[RequestId(c)].hash = Hash(c)
          /\ r.accepted = requests[RequestId(c)].accepted
          /\ r.touched = requests[RequestId(c)].touched
    /\ r.status = 409 => requests[RequestId(c)].hash # Hash(c)
    /\ r.status \in {200, 202} => r.duplicate \/ r.committed

\* Two calls never share a row lock, an open identifier or a committed one.
Apart(c, r, d, s) ==
    /\ r.locks \cap s.locks = {}
    /\ ~(/\ r.pc \in {"registered", "merging", "completed"} /\ s.pc \in {"registered", "merging", "completed"}
         /\ RequestId(c) = RequestId(d))
    /\ ~(r.committed /\ s.committed /\ RequestId(c) = RequestId(d))

AllApart == \A c, d \in Calls : c # d => Apart(c, call[c], d, call[d])

\* A request row is there because some call committed it.
RowsCommitted ==
    \A i \in Ids : requests[i].status = "completed" => \E c \in Committed : RequestId(c) = i

RawOf(c) == {<<RequestId(c), n, Request(c).entries[n]>> : n \in DOMAIN Request(c).entries}

\* The audit trail holds the entries of the committed calls.
RawIsCommitted == raw = UNION {RawOf(c) : c \in Committed}

\* The inductive invariant of the tables.
IngestInv ==
    /\ StateTyped
    /\ \A c \in Calls : /\ InTransaction(c, call[c])
                        /\ Merged(c, call[c])
                        /\ Answered(c, call[c])
    /\ AllApart
    /\ RowsCommitted
    /\ RawIsCommitted
    /\ CurrentIsNewest

MetricsType == [requests : Nat, inFlight : Nat, succeeded : Nat, errors : Nat,
                duplicates : Nat, received : Nat, stored : Nat, rejected : Nat,
                duplicated : Nat, touched : Nat]

Active == {c \in Calls : call[c].pc \notin {"new", "done"}}

\* Committed calls whose entries the metrics do not count as stored.
Unconfirmed == {c \in Committed : call[c].pc # "done" \/ call[c].status = 500}

EntriesOf(C) == UNION {{c} \X DOMAIN Request(c).entries : c \in C}

\* The inductive invariant of the metrics, on top of IngestInv.
MetricsInv ==
    /\ metrics \in MetricsType
    /\ IsFiniteSet(Active) /\ metrics.inFlight = Cardinality(Active)
    /\ metrics.requests = metrics.inFlight + metrics.succeeded + metrics.errors
    /\ metrics.received = metrics.stored + metrics.rejected + metrics.duplicated
    /\ IsFiniteSet(raw) /\ IsFiniteSet(EntriesOf(Unconfirmed))
    /\ Cardinality(raw) = metrics.stored + Cardinality(EntriesOf(Unconfirmed))

-----------------------------------------------------------------------------
(* Operators.                                                               *)

\* A finite family of finite sets has a member that contains no other.
LEMMA FiniteMinimal ==
    ASSUME NEW S, IsFiniteSet(S), NEW T, T \subseteq SUBSET S, T # {}
    PROVE  \E X \in T : \A Y \in T : Y \subseteq X => Y = X
<1>1. T \subseteq FiniteSubsetsOf(S)
    BY FS_Subset DEF FiniteSubsetsOf
<1>2. PICK X \in T : \A Y \in T : ~ (<<Y, X>> \in StrictSubsetOrdering(S))
    BY <1>1, WFMin, FS_StrictSubsetOrderingWellFounded
<1>3. ASSUME NEW Y \in T, Y \subseteq X, Y # X PROVE FALSE
    BY <1>2, <1>3 DEF StrictSubsetOrdering
<1> QED BY <1>3

\* A finite set with a total and transitive relation has a greatest element.
LEMMA FiniteMaximum ==
    ASSUME NEW S, IsFiniteSet(S), S # {}, NEW R,
           \A x, y \in S : <<x, y>> \in R \/ <<y, x>> \in R,
           \A x, y, z \in S : <<x, y>> \in R /\ <<y, z>> \in R => <<x, z>> \in R
    PROVE  \E m \in S : \A x \in S : <<x, m>> \in R
<1> DEFINE Up(m) == {x \in S : <<m, x>> \in R}
           T == {Up(m) : m \in S}
<1>1. T # {} /\ T \subseteq SUBSET S
    OBVIOUS
<1>2. PICK X \in T : \A Y \in T : Y \subseteq X => Y = X
  <2> HIDE DEF T
  <2> QED BY <1>1, FiniteMinimal
<1>3. PICK m \in S : X = Up(m)
    OBVIOUS
<1>4. ASSUME NEW x \in S PROVE <<x, m>> \in R
  <2>1. CASE <<m, x>> \in R
    <3>1. Up(x) \subseteq Up(m)
        BY <2>1
    <3>2. Up(x) \in T
        OBVIOUS
    <3>3. Up(x) = Up(m)
        BY <1>2, <1>3, <3>1, <3>2
    <3>4. m \in Up(m)
        OBVIOUS
    <3> QED BY <3>3, <3>4
  <2> QED BY <2>1
<1> QED BY <1>4

LEMMA RowsUse ==
    ASSUME NEW f \in Rows
    PROVE  DOMAIN f \subseteq Keys /\ \A k \in DOMAIN f : f[k] \in PriceType
<1>1. PICK D \in SUBSET Keys : f \in [D -> PriceType]
    BY DEF Rows
<1> QED BY <1>1

LEMMA RowsMake ==
    ASSUME NEW D, D \subseteq Keys, NEW f \in [D -> PriceType]
    PROVE  f \in Rows
<1>1. D \in SUBSET Keys OBVIOUS
<1> QED BY <1>1 DEF Rows

\* The entries of a call.
LEMMA EntriesType ==
    ASSUME NEW c \in Calls
    PROVE  /\ Len(Request(c).entries) \in Nat
           /\ DOMAIN Request(c).entries = 1 .. Len(Request(c).entries)
           /\ IsFiniteSet(DOMAIN Request(c).entries)
           /\ Cardinality(DOMAIN Request(c).entries) = Len(Request(c).entries)
           /\ \A n \in DOMAIN Request(c).entries : Request(c).entries[n] \in EntryType
<1>1. Request(c).entries \in Seq(EntryType)
    BY IngestAssumption
<1>2. /\ Len(Request(c).entries) \in Nat
      /\ DOMAIN Request(c).entries = 1 .. Len(Request(c).entries)
      /\ \A n \in DOMAIN Request(c).entries : Request(c).entries[n] \in EntryType
    BY <1>1
<1>3. IsFiniteSet(1 .. Len(Request(c).entries))
      /\ Cardinality(1 .. Len(Request(c).entries)) = Len(Request(c).entries)
    BY <1>2, FS_Interval
<1> QED BY <1>2, <1>3

\* The rows of one key with a timestamp on one side.
Dated(c, k, s) ==
    {n \in DOMAIN Request(c).entries : Request(c).entries[n].key = k /\ Request(c).entries[n][s].at # 0}

\* distinct on ... order by: the row chosen is as new as any of its key.
LEMMA LatestIsNewest ==
    ASSUME NEW c \in Calls, NEW k, NEW s \in Sides
    PROVE  /\ Dated(c, k, s) = {} => Latest(c, k, s) = NoQuote
           /\ Dated(c, k, s) # {} =>
                 \E m \in Dated(c, k, s) :
                     /\ Latest(c, k, s) = Request(c).entries[m][s]
                     /\ \A n \in Dated(c, k, s) :
                           Request(c).entries[n][s].at <= Request(c).entries[m][s].at
           /\ Latest(c, k, s) \in QuoteType
<1> DEFINE e == Request(c).entries
           D == Dated(c, k, s)
<1>1. /\ IsFiniteSet(DOMAIN e) /\ DOMAIN e \subseteq Nat
      /\ \A n \in DOMAIN e : e[n] \in EntryType
    BY EntriesType
<1>2. \A n \in DOMAIN e : e[n].observed \in Nat /\ e[n][s] \in QuoteType /\ e[n][s].at \in Nat
    BY <1>1 DEF EntryType, QuoteType, Sides
<1>3. D \subseteq DOMAIN e /\ IsFiniteSet(D)
    BY <1>1, FS_Subset DEF Dated
<1>4. Latest(c, k, s) = IF D = {} THEN NoQuote
                        ELSE e[CHOOSE m \in D : \A n \in D : Precedes(e, s, m, n)][s]
    BY DEF Latest, Dated
<1>5. CASE D = {}
  <2>1. NoQuote \in QuoteType
      BY DEF NoQuote, QuoteType
  <2> QED BY <1>4, <1>5, <2>1
<1>6. CASE D # {}
  <2> DEFINE R == {p \in D \X D : Precedes(e, s, p[2], p[1])}
  <2> HIDE DEF D
  <2>1. \A x, y \in D : <<x, y>> \in R <=> Precedes(e, s, y, x)
      OBVIOUS
  <2> HIDE DEF R
  <2>2. \A x, y \in D : Precedes(e, s, x, y) \/ Precedes(e, s, y, x)
      BY <1>1, <1>2, <1>3 DEF Precedes
  <2>3. \A x, y, z \in D : Precedes(e, s, y, x) /\ Precedes(e, s, z, y) => Precedes(e, s, z, x)
      BY <1>1, <1>2, <1>3 DEF Precedes
  <2>4. \E m \in D : \A n \in D : <<n, m>> \in R
      BY <1>3, <1>6, <2>1, <2>2, <2>3, FiniteMaximum
  <2>5. PICK m \in D : /\ m = CHOOSE x \in D : \A n \in D : Precedes(e, s, x, n)
                       /\ \A n \in D : Precedes(e, s, m, n)
      BY <2>1, <2>4
  <2>6. ASSUME NEW n \in D PROVE e[n][s].at <= e[m][s].at
    <3>1. Precedes(e, s, m, n)
        BY <2>5
    <3>2. e[n][s].at \in Nat /\ e[m][s].at \in Nat
        BY <1>2, <1>3
    <3> QED BY <3>1, <3>2 DEF Precedes
  <2>7. Latest(c, k, s) = e[m][s]
      BY <1>4, <1>6, <2>5
  <2> QED BY <1>2, <1>3, <1>6, <2>6, <2>7 DEF D
<1> QED BY <1>5, <1>6

\* The rows of a request have the type of the read model.
LEMMA ExcludedType ==
    ASSUME NEW c \in Sound, NEW k \in KeysOf[c]
    PROVE  /\ k \in Keys /\ Excluded[c][k] \in PriceType /\ c \in Calls
           /\ \A s \in Sides : Excluded[c][k][s] = Latest(c, k, s)
<1>1. c \in Calls
    BY DEF Sound
<1>2. k \in Keys
    BY <1>1, EntriesType DEF KeysOf, EntryType
<1>3. Excluded[c][k] = [there |-> TRUE, sell |-> Latest(c, k, "sell"), buy |-> Latest(c, k, "buy")]
    BY DEF Excluded
<1>4. Latest(c, k, "sell") \in QuoteType /\ Latest(c, k, "buy") \in QuoteType
    BY <1>1, LatestIsNewest DEF Sides
<1> QED BY <1>1, <1>2, <1>3, <1>4 DEF PriceType, Sides

\* The case expressions and the where clause of the upsert agree: a row is
\* touched exactly when the merge changes it, and it never moves back in time.
LEMMA MergeChanges ==
    ASSUME NEW old \in PriceType, NEW new \in PriceType
    PROVE  /\ Merge(old, new) \in PriceType
           /\ Touches(old, new) => Merge(old, new) # old
           /\ \A s \in Sides : Merge(old, new)[s] = MergeSide(old[s], new[s])
           /\ \A s \in Sides : MergeSide(old[s], new[s]).at >= old[s].at
<1>1. \A s \in Sides : old[s] \in QuoteType /\ new[s] \in QuoteType
    BY DEF PriceType, Sides
<1>2. \A s \in Sides : MergeSide(old[s], new[s]) \in QuoteType /\ MergeSide(old[s], new[s]).at >= old[s].at
    BY <1>1 DEF MergeSide, QuoteType
<1>3. \A s \in Sides : TouchesSide(old[s], new[s]) => MergeSide(old[s], new[s]) # old[s]
    BY <1>1 DEF MergeSide, TouchesSide, QuoteType
<1>4. /\ Merge(old, new).there = TRUE
      /\ \A s \in Sides : Merge(old, new)[s] = MergeSide(old[s], new[s])
    BY DEF Merge, Sides
<1>5. Merge(old, new) \in PriceType
    BY <1>2 DEF Merge, PriceType, Sides
<1>6. Touches(old, new) => Merge(old, new) # old
    BY <1>3, <1>4 DEF Touches
<1> QED BY <1>2, <1>4, <1>5, <1>6

-----------------------------------------------------------------------------
(* Statements.                                                              *)

\* A call that has not been sent yet.
LEMMA NewCallType ==
    /\ NewCall \in CallType
    /\ NewCall.pc = "new" /\ NewCall.status = 0 /\ NewCall.locks = {} /\ DOMAIN NewCall.writes = {}
    /\ ~NewCall.duplicate /\ ~NewCall.committed /\ NewCall.touched = 0
<1>1. [k \in {} |-> NoPrice] \in [{} -> PriceType]
    OBVIOUS
<1>2. [k \in {} |-> NoPrice] \in Rows
    BY <1>1, RowsMake
<1>3. DOMAIN [k \in {} |-> NoPrice] = {}
    OBVIOUS
<1> DEFINE e == [k \in {} |-> NoPrice]
<1> HIDE DEF e
<1>4. NewCall = [pc |-> "new", status |-> 0, locks |-> {}, writes |-> e, touched |-> 0,
                 accepted |-> 0, duplicate |-> FALSE, committed |-> FALSE]
    BY DEF NewCall, e
<1>5. e \in Rows /\ DOMAIN e = {}
    BY <1>2, <1>3 DEF e
<1> QED BY <1>4, <1>5 DEF CallType, Pcs, Statuses

\* The record a duplicate is left with when the response is written.
Duplicated(a, t) ==
    [NewCall EXCEPT !.pc = "responded", !.status = 200, !.duplicate = TRUE, !.accepted = a, !.touched = t]

LEMMA DuplicateType ==
    ASSUME NEW a \in Nat, NEW t \in Nat
    PROVE  /\ Duplicated(a, t) \in CallType /\ Duplicated(a, t).pc = "responded"
           /\ Duplicated(a, t).status = 200 /\ Duplicated(a, t).locks = {} /\ DOMAIN Duplicated(a, t).writes = {}
           /\ Duplicated(a, t).accepted = a /\ Duplicated(a, t).touched = t
           /\ Duplicated(a, t).duplicate /\ ~Duplicated(a, t).committed
<1>1. NewCall \in CallType /\ NewCall.locks = {} /\ DOMAIN NewCall.writes = {} /\ ~NewCall.committed
    BY NewCallType
<1>2. Duplicated(a, t) \in CallType
  <2>1. "responded" \in Pcs /\ 200 \in Statuses
      BY DEF Pcs, Statuses
  <2> QED BY <1>1, <2>1, Zenon DEF CallType, Duplicated
<1>3. /\ Duplicated(a, t).pc = "responded" /\ Duplicated(a, t).status = 200
      /\ Duplicated(a, t).locks = NewCall.locks /\ Duplicated(a, t).writes = NewCall.writes
      /\ Duplicated(a, t).accepted = a /\ Duplicated(a, t).touched = t
      /\ Duplicated(a, t).duplicate /\ Duplicated(a, t).committed = NewCall.committed
    BY <1>1 DEF CallType, Duplicated
<1> QED BY <1>1, <1>2, <1>3

\* The record of a call whose commit is confirmed.
Confirmed(a, t) ==
    [NewCall EXCEPT !.pc = "responded", !.status = 202, !.committed = TRUE, !.accepted = a, !.touched = t]

LEMMA ConfirmedType ==
    ASSUME NEW a \in Nat, NEW t \in Nat
    PROVE  /\ Confirmed(a, t) \in CallType /\ Confirmed(a, t).pc = "responded"
           /\ Confirmed(a, t).status = 202 /\ Confirmed(a, t).locks = {} /\ DOMAIN Confirmed(a, t).writes = {}
           /\ Confirmed(a, t).accepted = a /\ Confirmed(a, t).touched = t
           /\ Confirmed(a, t).committed /\ ~Confirmed(a, t).duplicate
<1>1. NewCall \in CallType /\ NewCall.locks = {} /\ DOMAIN NewCall.writes = {} /\ ~NewCall.duplicate
    BY NewCallType
<1>2. Confirmed(a, t) \in CallType
  <2>1. "responded" \in Pcs /\ 202 \in Statuses
      BY DEF Pcs, Statuses
  <2> QED BY <1>1, <2>1, Zenon DEF CallType, Confirmed
<1>3. /\ Confirmed(a, t).pc = "responded" /\ Confirmed(a, t).status = 202
      /\ Confirmed(a, t).locks = NewCall.locks /\ Confirmed(a, t).writes = NewCall.writes
      /\ Confirmed(a, t).accepted = a /\ Confirmed(a, t).touched = t
      /\ Confirmed(a, t).committed /\ Confirmed(a, t).duplicate = NewCall.duplicate
    BY <1>1 DEF CallType, Confirmed
<1> QED BY <1>1, <1>2, <1>3

LEMMA InitIngest == Init => IngestInv
<1> SUFFICES ASSUME Init PROVE IngestInv
    OBVIOUS
<1>1. \A c \in Calls : call[c] = NewCall
    BY DEF Init
<1>2. NoPrice \in PriceType
    BY DEF NoPrice, PriceType, NoQuote, QuoteType
<1>3. StateTyped
  <2>1. requests \in [Ids -> RowType]
    <3>1. NoRequest \in RowType
        BY DEF NoRequest, RowType
    <3> QED BY <3>1 DEF Init
  <2>2. current \in [Keys -> PriceType]
      BY <1>2 DEF Init
  <2>3. call \in [Calls -> CallType]
      BY NewCallType DEF Init
  <2> QED BY <2>1, <2>2, <2>3 DEF StateTyped
<1>4. \A c \in Calls : InTransaction(c, call[c]) /\ Merged(c, call[c]) /\ Answered(c, call[c])
    BY <1>1, NewCallType DEF InTransaction, Merged, Answered
<1>5. AllApart
    BY <1>1, NewCallType DEF AllApart, Apart
<1>6. RowsCommitted
    BY DEF RowsCommitted, Init, NoRequest
<1>7. RawIsCommitted
  <2>1. Committed = {}
      BY <1>1, NewCallType DEF Committed
  <2> QED BY <2>1 DEF RawIsCommitted, Init
<1>8. CurrentIsNewest
  <2>1. \A k, s : Offers(k, s) = {}
      BY DEF Offers, Init
  <2>2. \A k \in Keys, s \in Sides : current[k][s] = NoQuote
      BY DEF Init, NoPrice, Sides
  <2> QED BY <2>1, <2>2 DEF CurrentIsNewest
<1> QED BY <1>3, <1>4, <1>5, <1>6, <1>7, <1>8 DEF IngestInv

\* A step of one call that commits nothing.
LEMMA StatementStep ==
    ASSUME IngestInv, NEW c \in Calls, NEW r \in CallType,
           call' = [call EXCEPT ![c] = r], UNCHANGED <<requests, raw, current>>,
           r.committed <=> call[c].committed,
           InTransaction(c, r), Merged(c, r), Answered(c, r),
           \A d \in Calls \ {c} : Apart(c, r, d, call[d])
    PROVE  IngestInv'
<1>1. StateTyped'
    BY DEF IngestInv, StateTyped
<1>2. call'[c] = r /\ \A d \in Calls : d # c => call'[d] = call[d]
    BY DEF IngestInv, StateTyped
<1>3. \A d \in Calls : InTransaction(d, call'[d]) /\ Merged(d, call'[d]) /\ Answered(d, call'[d])
    BY <1>2 DEF IngestInv
<1>4. ASSUME NEW d \in Calls
      PROVE  InTransaction(d, call[d])' /\ Merged(d, call[d])' /\ Answered(d, call[d])'
  <2>1. InTransaction(d, call[d])'
      BY <1>3 DEF InTransaction
  <2>2. Merged(d, call[d])'
      BY <1>3 DEF Merged
  <2>3. Answered(d, call[d])'
      BY <1>3 DEF Answered
  <2> QED BY <2>1, <2>2, <2>3
<1>5. ASSUME NEW d \in Calls, NEW e \in Calls, d # e
      PROVE  Apart(d, call'[d], e, call'[e])
  <2>1. CASE d = c
      BY <1>2, <1>5, <2>1
  <2>2. CASE e = c
    <3>1. Apart(c, r, d, call[d])
        BY <1>5, <2>2
    <3>2. Apart(d, call[d], c, r)
        BY <3>1 DEF Apart
    <3> QED BY <1>2, <1>5, <2>2, <3>2
  <2>3. CASE d # c /\ e # c
      BY <1>2, <1>5, <2>3 DEF IngestInv, AllApart
  <2> QED BY <2>1, <2>2, <2>3
<1>6. AllApart'
    BY <1>5 DEF AllApart, Apart
<1>7. Committed' = Committed
    BY <1>2 DEF Committed
<1>8. RowsCommitted' /\ RawIsCommitted' /\ CurrentIsNewest'
  <2>1. RowsCommitted'
      BY <1>7 DEF IngestInv, RowsCommitted
  <2>2. RawIsCommitted'
      BY <1>7 DEF IngestInv, RawIsCommitted
  <2>3. \A k, s : Offers(k, s)' = Offers(k, s)
      BY DEF Offers
  <2>4. CurrentIsNewest'
      BY <2>3 DEF IngestInv, CurrentIsNewest
  <2> QED BY <2>1, <2>2, <2>4
<1> QED BY <1>1, <1>4, <1>6, <1>8 DEF IngestInv

\* An answer other than that of a commit ends the transaction without a trace.
LEMMA AnswerStep ==
    ASSUME IngestInv, NEW c \in Calls, NEW r \in CallType,
           call[c].pc \notin {"responded", "done"},
           call' = [call EXCEPT ![c] = r], UNCHANGED <<requests, raw, current>>,
           r.pc = "responded", r.locks = {}, DOMAIN r.writes = {}, ~r.committed,
           Answered(c, r)
    PROVE  IngestInv'
<1>1. ~call[c].committed
    BY DEF IngestInv, InTransaction
<1>2. InTransaction(c, r) /\ Merged(c, r)
    BY DEF InTransaction, Merged
<1>3. \A d \in Calls \ {c} : Apart(c, r, d, call[d])
    BY DEF Apart
<1> QED BY <1>1, <1>2, <1>3, StatementStep

LEMMA RespondStep ==
    ASSUME IngestInv, NEW c \in Calls, NEW status \in Statuses, status \notin {200, 202},
           call[c].pc \notin {"responded", "done"},
           Respond(c, status), UNCHANGED <<requests, raw, current>>,
           status = 409 => /\ c \in Sound /\ requests[RequestId(c)].status = "completed"
                           /\ requests[RequestId(c)].hash # Hash(c)
    PROVE  IngestInv'
<1> DEFINE r == [NewCall EXCEPT !.pc = "responded", !.status = status]
<1>1. "responded" \in Pcs
    BY DEF Pcs
<1>2. /\ r \in CallType /\ r.pc = "responded" /\ r.status = status /\ r.locks = {}
      /\ DOMAIN r.writes = {} /\ ~r.duplicate /\ ~r.committed
    BY <1>1, NewCallType DEF CallType
<1>3. call' = [call EXCEPT ![c] = r]
    BY DEF Respond
<1> HIDE DEF r
<1>4. Answered(c, r)
    BY <1>2 DEF Answered
<1> QED BY <1>2, <1>3, <1>4, AnswerStep

LEMMA ArriveStep ==
    ASSUME IngestInv, NEW c \in Calls, Arrive(c)
    PROVE  IngestInv'
<1>1. call[c] \in CallType /\ call[c].pc = "new" /\ UNCHANGED <<requests, raw, current>>
    BY DEF IngestInv, StateTyped, Arrive
<1>2. /\ ~call[c].committed /\ ~call[c].duplicate /\ call[c].status = 0
      /\ call[c].locks = {} /\ DOMAIN call[c].writes = {} /\ call[c].touched = 0
    BY <1>1 DEF IngestInv, InTransaction, Merged
<1>3. CASE c \in Sound
  <2> DEFINE r == [call[c] EXCEPT !.pc = "arrived"]
  <2>1. call' = [call EXCEPT ![c] = r]
      BY <1>3 DEF Arrive
  <2>2. /\ r \in CallType /\ r.pc = "arrived" /\ r.status = 0 /\ r.locks = {} /\ DOMAIN r.writes = {} /\ r.touched = 0
        /\ ~r.committed /\ ~r.duplicate
      BY <1>1, <1>2 DEF CallType, Pcs
  <2> HIDE DEF r
  <2>3. InTransaction(c, r) /\ Merged(c, r) /\ Answered(c, r)
      BY <1>3, <2>2 DEF InTransaction, Merged, Answered
  <2>4. \A d \in Calls \ {c} : Apart(c, r, d, call[d])
      BY <2>2 DEF Apart
  <2> QED BY <1>1, <1>2, <2>1, <2>2, <2>3, <2>4, StatementStep
<1>4. CASE c \notin Sound
  <2>1. Respond(c, Refusal(c))
      BY <1>4 DEF Arrive
  <2>2. Refusal(c) \in {405, 426, 401, 415, 413, 500, 400}
      BY DEF Refusal
  <2>3. Refusal(c) \in Statuses /\ Refusal(c) \notin {200, 202, 409}
      BY <2>2 DEF Statuses
  <2> QED BY <1>1, <2>1, <2>3, RespondStep
<1> QED BY <1>3, <1>4

\* Two open transactions never hold one request_id.
LEMMA RegisterStep ==
    ASSUME IngestInv, NEW c \in Calls, Register(c)
    PROVE  IngestInv'
<1> DEFINE r == [call[c] EXCEPT !.pc = "registered"]
<1>1. call[c] \in CallType /\ call[c].pc = "arrived" /\ UNCHANGED <<requests, raw, current>>
    BY DEF IngestInv, StateTyped, Register
<1>2. /\ ~call[c].committed /\ ~call[c].duplicate /\ call[c].status = 0
      /\ call[c].locks = {} /\ DOMAIN call[c].writes = {} /\ call[c].touched = 0 /\ c \in Sound
    BY <1>1 DEF IngestInv, InTransaction, Merged
<1>3. call' = [call EXCEPT ![c] = r]
    BY DEF Register
<1>4. /\ r \in CallType /\ r.pc = "registered" /\ r.status = 0 /\ r.locks = {} /\ DOMAIN r.writes = {} /\ r.touched = 0
      /\ ~r.committed /\ ~r.duplicate
    BY <1>1, <1>2 DEF CallType, Pcs
<1> HIDE DEF r
<1>5. InTransaction(c, r) /\ Merged(c, r) /\ Answered(c, r)
    BY <1>2, <1>4 DEF InTransaction, Merged, Answered, Register
<1>6. \A d \in Calls \ {c} : Apart(c, r, d, call[d])
    BY <1>4 DEF Apart, Register, Open
<1> QED BY <1>1, <1>2, <1>3, <1>4, <1>5, <1>6, StatementStep

LEMMA ExistingStep ==
    ASSUME IngestInv, NEW c \in Calls, Existing(c)
    PROVE  IngestInv'
<1> DEFINE q == requests[RequestId(c)]
<1>1. call[c].pc = "arrived" /\ UNCHANGED <<requests, raw, current>> /\ q.status # "none"
    BY DEF Existing
<1>2. c \in Sound /\ RequestId(c) \in Ids
    BY <1>1 DEF IngestInv, InTransaction, Sound
<1>3. q \in RowType /\ q.status = "completed"
    BY <1>1, <1>2 DEF IngestInv, StateTyped, RowType
<1>4. CASE q.hash = Hash(c)
  <2> DEFINE r == Duplicated(q.accepted, q.touched)
  <2>1. call' = [call EXCEPT ![c] = r]
      BY <1>3, <1>4 DEF Existing, Duplicated
  <2>2. q.accepted \in Nat /\ q.touched \in Nat
      BY <1>3 DEF RowType
  <2>3. /\ r \in CallType /\ r.pc = "responded" /\ r.status = 200 /\ r.duplicate /\ r.locks = {}
        /\ DOMAIN r.writes = {} /\ ~r.committed /\ r.accepted = q.accepted /\ r.touched = q.touched
      BY <2>2, DuplicateType
  <2> HIDE DEF r
  <2>4. Answered(c, r)
      BY <1>2, <1>3, <1>4, <2>3 DEF Answered
  <2> QED BY <1>1, <2>1, <2>3, <2>4, AnswerStep
<1>5. CASE q.hash # Hash(c)
  <2>1. Respond(c, 409)
      BY <1>5 DEF Existing
  <2>2. 409 \in Statuses
      BY DEF Statuses
  <2> QED BY <1>1, <1>2, <1>3, <1>5, <2>1, <2>2, RespondStep
<1> QED BY <1>4, <1>5

LEMMA CopyStep ==
    ASSUME IngestInv, NEW c \in Calls, Copy(c)
    PROVE  IngestInv'
<1> DEFINE r == [call[c] EXCEPT !.pc = "merging", !.accepted = Len(Request(c).entries)]
<1>1. call[c] \in CallType /\ call[c].pc = "registered" /\ UNCHANGED <<requests, raw, current>>
    BY DEF IngestInv, StateTyped, Copy
<1>2. /\ ~call[c].committed /\ ~call[c].duplicate /\ call[c].status = 0
      /\ call[c].locks = {} /\ DOMAIN call[c].writes = {} /\ call[c].touched = 0 /\ c \in Sound
      /\ requests[RequestId(c)].status = "none"
    BY <1>1 DEF IngestInv, InTransaction, Merged
<1>3. call' = [call EXCEPT ![c] = r]
    BY DEF Copy
<1>4. Len(Request(c).entries) \in Nat /\ "merging" \in Pcs
    BY EntriesType DEF Pcs
<1>5. /\ r \in CallType /\ r.pc = "merging" /\ r.status = 0 /\ r.locks = {} /\ r.writes = call[c].writes
      /\ ~r.committed /\ ~r.duplicate /\ r.accepted = Len(Request(c).entries) /\ r.touched = call[c].touched
    BY <1>1, <1>2, <1>4 DEF CallType
<1> HIDE DEF r
<1>7. IsFiniteSet({}) /\ Cardinality({}) = 0
    BY FS_EmptySet
<1>8. InTransaction(c, r) /\ Answered(c, r)
    BY <1>2, <1>5 DEF InTransaction, Answered
<1>9. Merged(c, r)
    BY <1>2, <1>5, <1>7 DEF Merged
<1>10. \A d \in Calls \ {c} : Apart(c, r, d, call[d])
  <2>1. \A d \in Calls \ {c} : Apart(c, call[c], d, call[d])
      BY DEF IngestInv, AllApart
  <2> QED BY <1>1, <1>5, <2>1 DEF Apart
<1> QED BY <1>1, <1>2, <1>3, <1>5, <1>8, <1>9, <1>10, StatementStep

\* A key is locked, and merged with the row that is committed now: nobody can
\* change it until the lock is released.
LEMMA MergeKeyStep ==
    ASSUME IngestInv, NEW c \in Calls, NEW k \in Keys, MergeKey(c, k)
    PROVE  IngestInv'
<1> DEFINE old == current[k]
           new == Excluded[c][k]
           ws == call[c].writes
<1>1. call[c] \in CallType /\ call[c].pc = "merging" /\ UNCHANGED <<requests, raw, current>>
    BY DEF IngestInv, StateTyped, MergeKey
<1>2. /\ ~call[c].committed /\ ~call[c].duplicate /\ call[c].status = 0 /\ c \in Sound
      /\ requests[RequestId(c)].status = "none"
    BY <1>1 DEF IngestInv, InTransaction
<1>3. /\ DOMAIN ws \subseteq call[c].locks /\ call[c].locks \subseteq KeysOf[c]
      /\ call[c].accepted = Len(Request(c).entries)
      /\ IsFiniteSet(DOMAIN ws) /\ call[c].touched = Cardinality(DOMAIN ws)
      /\ \A x \in call[c].locks :
            /\ x \in DOMAIN ws <=> Touches(current[x], Excluded[c][x])
            /\ x \in DOMAIN ws => ws[x] = Merge(current[x], Excluded[c][x])
    BY <1>1 DEF IngestInv, Merged
<1>4. k \in KeysOf[c] /\ k \notin call[c].locks /\ \A d \in Calls \ {c} : k \notin call[d].locks
    BY <1>2 DEF MergeKey, Pending, Free
<1>5. old \in PriceType /\ new \in PriceType
    BY <1>2, <1>4, ExcludedType DEF IngestInv, StateTyped
<1>6. Merge(old, new) \in PriceType
    BY <1>5, MergeChanges
<1>7. ws \in Rows /\ call[c].locks \subseteq Keys
    BY <1>1 DEF CallType
<1>8. DOMAIN ws \subseteq Keys /\ \A x \in DOMAIN ws : ws[x] \in PriceType
    BY <1>7, RowsUse
<1>9. ASSUME NEW r \in CallType, call' = [call EXCEPT ![c] = r],
             r.pc = "merging", r.status = 0, ~r.committed, ~r.duplicate,
             r.locks = call[c].locks \cup {k}, Merged(c, r)
      PROVE  IngestInv'
  <2>1. InTransaction(c, r) /\ Answered(c, r)
      BY <1>2, <1>9 DEF InTransaction, Answered
  <2>2. \A d \in Calls \ {c} : Apart(c, call[c], d, call[d])
      BY DEF IngestInv, AllApart
  <2>3. \A d \in Calls \ {c} : Apart(c, r, d, call[d])
      BY <1>1, <1>4, <1>9, <2>2 DEF Apart
  <2> QED BY <1>1, <1>2, <1>9, <2>1, <2>3, StatementStep
<1>10. CASE Touches(old, new)
  <2> DEFINE D == DOMAIN ws \cup {k}
             w == [x \in D |-> IF x = k THEN Merge(old, new) ELSE ws[x]]
             r == [call[c] EXCEPT !.locks = call[c].locks \cup {k}, !.touched = call[c].touched + 1, !.writes = w]
  <2>1. call' = [call EXCEPT ![c] = r]
      BY <1>10 DEF MergeKey
  <2>2. w \in [D -> PriceType] /\ D \subseteq Keys
      BY <1>6, <1>8
  <2>3. w \in Rows
      BY <2>2, RowsMake
  <2>4. /\ DOMAIN w = DOMAIN ws \cup {k} /\ w[k] = Merge(old, new)
        /\ \A x \in DOMAIN ws : x # k => w[x] = ws[x]
      OBVIOUS
  <2> HIDE DEF w
  <2>5. call[c].locks \cup {k} \in SUBSET Keys /\ call[c].touched + 1 \in Nat
      BY <1>1 DEF CallType
  <2>6. /\ r \in CallType /\ r.pc = "merging" /\ r.status = 0 /\ r.locks = call[c].locks \cup {k}
        /\ r.writes = w /\ r.touched = call[c].touched + 1 /\ r.accepted = call[c].accepted
        /\ r.committed = call[c].committed /\ r.duplicate = call[c].duplicate
      BY <1>1, <1>2, <2>3, <2>5 DEF CallType
  <2> HIDE DEF r
  <2>7. IsFiniteSet(DOMAIN w) /\ Cardinality(DOMAIN w) = Cardinality(DOMAIN ws) + 1
      BY <1>3, <1>4, <2>4, FS_AddElement
  <2>8. \A x \in r.locks : /\ x \in DOMAIN r.writes <=> Touches(current[x], Excluded[c][x])
                           /\ x \in DOMAIN r.writes => r.writes[x] = Merge(current[x], Excluded[c][x])
      BY <1>3, <1>4, <1>10, <2>4, <2>6
  <2>9. Merged(c, r)
      BY <1>3, <1>4, <2>4, <2>6, <2>7, <2>8 DEF Merged
  <2> QED BY <1>2, <1>9, <2>1, <2>6, <2>9
<1>11. CASE ~Touches(old, new)
  <2> DEFINE r == [call[c] EXCEPT !.locks = call[c].locks \cup {k}]
  <2>1. call' = [call EXCEPT ![c] = r]
      BY <1>11 DEF MergeKey
  <2>2. /\ r \in CallType /\ r.pc = "merging" /\ r.status = 0 /\ r.locks = call[c].locks \cup {k}
        /\ r.writes = ws /\ r.touched = call[c].touched /\ r.accepted = call[c].accepted
        /\ r.committed = call[c].committed /\ r.duplicate = call[c].duplicate
      BY <1>1, <1>2 DEF CallType
  <2> HIDE DEF r
  <2>3. \A x \in r.locks : /\ x \in DOMAIN r.writes <=> Touches(current[x], Excluded[c][x])
                           /\ x \in DOMAIN r.writes => r.writes[x] = Merge(current[x], Excluded[c][x])
      BY <1>3, <1>4, <1>11, <2>2
  <2>4. Merged(c, r)
      BY <1>3, <1>4, <2>2, <2>3 DEF Merged
  <2> QED BY <1>2, <1>9, <2>1, <2>2, <2>4
<1> QED BY <1>10, <1>11

LEMMA CompleteStep ==
    ASSUME IngestInv, NEW c \in Calls, Complete(c)
    PROVE  IngestInv'
<1> DEFINE r == [call[c] EXCEPT !.pc = "completed"]
<1>1. call[c] \in CallType /\ call[c].pc = "merging" /\ UNCHANGED <<requests, raw, current>>
    BY DEF IngestInv, StateTyped, Complete
<1>2. InTransaction(c, call[c]) /\ Merged(c, call[c]) /\ Answered(c, call[c]) /\ c \in Sound
    BY <1>1 DEF IngestInv, InTransaction
<1>3. call' = [call EXCEPT ![c] = r]
    BY DEF Complete
<1>4. "completed" \in Pcs
    BY DEF Pcs
<1>5. /\ r \in CallType /\ r.pc = "completed" /\ r.status = call[c].status /\ r.locks = call[c].locks
      /\ r.writes = call[c].writes /\ r.touched = call[c].touched /\ r.accepted = call[c].accepted
      /\ r.committed = call[c].committed /\ r.duplicate = call[c].duplicate
    BY <1>1, <1>4 DEF CallType
<1> HIDE DEF r
<1>6. InTransaction(c, r) /\ Answered(c, r)
    BY <1>1, <1>2, <1>5 DEF InTransaction, Answered
<1>7. Merged(c, r)
    BY <1>1, <1>2, <1>5 DEF Merged, Complete, Pending
<1>8. \A d \in Calls \ {c} : Apart(c, r, d, call[d])
  <2>1. \A d \in Calls \ {c} : Apart(c, call[c], d, call[d])
      BY DEF IngestInv, AllApart
  <2> QED BY <1>1, <1>5, <2>1 DEF Apart
<1> QED BY <1>1, <1>3, <1>5, <1>6, <1>7, <1>8, StatementStep

LEMMA FinishStep ==
    ASSUME IngestInv, NEW c \in Calls, Finish(c)
    PROVE  IngestInv'
<1> DEFINE r == [call[c] EXCEPT !.pc = "done"]
<1>1. call[c] \in CallType /\ call[c].pc = "responded" /\ UNCHANGED <<requests, raw, current>>
    BY DEF IngestInv, StateTyped, Finish
<1>2. InTransaction(c, call[c]) /\ Merged(c, call[c]) /\ Answered(c, call[c])
    BY DEF IngestInv
<1>3. call' = [call EXCEPT ![c] = r]
    BY DEF Finish
<1>4. "done" \in Pcs
    BY DEF Pcs
<1>5. /\ r \in CallType /\ r.pc = "done" /\ r.status = call[c].status /\ r.locks = call[c].locks
      /\ r.writes = call[c].writes /\ r.touched = call[c].touched /\ r.accepted = call[c].accepted
      /\ r.committed = call[c].committed /\ r.duplicate = call[c].duplicate
    BY <1>1, <1>4 DEF CallType
<1> HIDE DEF r
<1>6. InTransaction(c, r) /\ Answered(c, r)
    BY <1>1, <1>2, <1>5 DEF InTransaction, Answered
<1>7. Merged(c, r)
    BY <1>1, <1>2, <1>5 DEF Merged
<1>8. \A d \in Calls \ {c} : Apart(c, r, d, call[d])
  <2>1. \A d \in Calls \ {c} : Apart(c, call[c], d, call[d])
      BY DEF IngestInv, AllApart
  <2> QED BY <1>1, <1>5, <2>1 DEF Apart
<1> QED BY <1>1, <1>3, <1>5, <1>6, <1>7, <1>8, StatementStep

LEMMA FailStep ==
    ASSUME IngestInv, NEW c \in Calls, Fail(c) \/ DeadlockVictim(c)
    PROVE  IngestInv'
<1>1. call[c].pc \notin {"responded", "done"}
    BY DEF Fail, DeadlockVictim, Deadlocked, Open
<1>2. 500 \in Statuses
    BY DEF Statuses
<1> QED BY <1>1, <1>2, RespondStep DEF Fail, DeadlockVictim

-----------------------------------------------------------------------------
(* The commit.                                                              *)

\* The record of a call whose commit took effect and was not confirmed.
Lost == [NewCall EXCEPT !.pc = "responded", !.status = 500, !.committed = TRUE]

LEMMA WrittenType ==
    \A x \in CallType, pc \in Pcs, status \in Statuses :
        [x EXCEPT !.pc = pc, !.status = status] \in CallType
BY Zenon DEF CallType

LEMMA LostType ==
    /\ Lost \in CallType /\ Lost.pc = "responded" /\ Lost.status = 500 /\ Lost.locks = {}
    /\ DOMAIN Lost.writes = {} /\ Lost.committed /\ ~Lost.duplicate
<1>1. NewCall \in CallType /\ NewCall.locks = {} /\ DOMAIN NewCall.writes = {} /\ ~NewCall.duplicate
    BY NewCallType
<1>2. Lost \in CallType
  <2>1. "responded" \in Pcs /\ 500 \in Statuses
      BY DEF Pcs, Statuses
  <2> DEFINE p == [NewCall EXCEPT !.pc = "responded", !.status = 500]
  <2>2. p \in CallType
    <3>1. \A status \in Statuses : [NewCall EXCEPT !.pc = "responded", !.status = status] \in CallType
        BY <1>1, <2>1, WrittenType, Zenon
    <3>2. PICK n \in Statuses : n = 500
        BY <2>1
    <3>3. p = [NewCall EXCEPT !.pc = "responded", !.status = n]
        BY <3>2
    <3>4. [NewCall EXCEPT !.pc = "responded", !.status = n] \in CallType
        BY <3>1, Zenon
    <3> HIDE DEF p
    <3> QED BY <3>3, <3>4
  <2>3. Lost = [p EXCEPT !.committed = TRUE]
      BY <1>1 DEF Lost, CallType
  <2> HIDE DEF p
  <2>4. [p EXCEPT !.committed = TRUE] \in CallType
      BY <2>2, Zenon DEF CallType
  <2> QED BY <2>3, <2>4
<1>3. /\ Lost.pc = "responded" /\ Lost.status = 500 /\ Lost.locks = NewCall.locks
      /\ Lost.writes = NewCall.writes /\ Lost.committed /\ Lost.duplicate = NewCall.duplicate
    BY <1>1 DEF CallType, Lost
<1> QED BY <1>1, <1>2, <1>3

\* What a commit does to the rows and to the call.
LEMMA CommitShape ==
    ASSUME IngestInv, NEW c \in Calls, Commit(c)
    PROVE  /\ c \in Sound /\ RequestId(c) \in Ids /\ requests[RequestId(c)].status = "none"
           /\ \A i \in Ids : i # RequestId(c) => requests'[i] = requests[i]
           /\ requests'[RequestId(c)].status = "completed" /\ requests'[RequestId(c)].hash = Hash(c)
           /\ requests'[RequestId(c)].accepted = Len(Request(c).entries)
           /\ requests'[RequestId(c)].touched = call[c].touched
           /\ requests' \in [Ids -> RowType]
           /\ call' \in [Calls -> CallType] /\ \A d \in Calls : d # c => call'[d] = call[d]
           /\ call'[c].pc = "responded" /\ call'[c].committed /\ ~call'[c].duplicate
           /\ call'[c].locks = {} /\ DOMAIN call'[c].writes = {} /\ call'[c].status \in {202, 500}
           /\ call'[c].status = 202 => /\ call'[c].accepted = Len(Request(c).entries)
                                       /\ call'[c].touched = call[c].touched
<1>1. call \in [Calls -> CallType] /\ call[c] \in CallType /\ call[c].pc = "completed"
    BY DEF IngestInv, StateTyped, Commit
<1>2. c \in Sound /\ RequestId(c) \in Ids /\ requests[RequestId(c)].status = "none"
    BY <1>1 DEF IngestInv, InTransaction, Sound
<1>3. call[c].accepted = Len(Request(c).entries) /\ call[c].accepted \in Nat /\ call[c].touched \in Nat
    BY <1>1 DEF IngestInv, Merged, CallType
<1>4. CompletedRow(c) \in RowType
    BY <1>3 DEF CompletedRow, RowType
<1>5. requests \in [Ids -> RowType] /\ requests' = [requests EXCEPT ![RequestId(c)] = CompletedRow(c)]
    BY DEF IngestInv, StateTyped, Commit
<1>6. requests'[RequestId(c)] = CompletedRow(c)
    BY <1>2, <1>5
<1>7. PICK r \in {Confirmed(call[c].accepted, call[c].touched), Lost} : call' = [call EXCEPT ![c] = r]
    BY DEF Commit, Confirmed, Lost
<1>8. /\ r \in CallType /\ r.pc = "responded" /\ r.committed /\ ~r.duplicate /\ r.locks = {}
      /\ DOMAIN r.writes = {} /\ r.status \in {202, 500}
      /\ r.status = 202 => r.accepted = call[c].accepted /\ r.touched = call[c].touched
    BY <1>3, <1>7, ConfirmedType, LostType
<1>9. call'[c] = r /\ call' \in [Calls -> CallType] /\ \A d \in Calls : d # c => call'[d] = call[d]
    BY <1>1, <1>7, <1>8
<1>10. /\ \A i \in Ids : i # RequestId(c) => requests'[i] = requests[i]
       /\ requests' \in [Ids -> RowType]
    BY <1>4, <1>5
<1>11. /\ CompletedRow(c).status = "completed" /\ CompletedRow(c).hash = Hash(c)
       /\ CompletedRow(c).accepted = call[c].accepted /\ CompletedRow(c).touched = call[c].touched
    BY DEF CompletedRow
<1> QED BY <1>2, <1>3, <1>6, <1>8, <1>9, <1>10, <1>11

\* What a commit does to the read model: every key of the request is merged,
\* written or left alone because the merge would not change it.
LEMMA CommitRows ==
    ASSUME IngestInv, NEW c \in Calls, Commit(c)
    PROVE  /\ current' \in [Keys -> PriceType]
           /\ \A k \in Keys : k \notin call[c].locks => current'[k] = current[k]
           /\ \A k \in Keys : k \in DOMAIN call[c].writes <=> current'[k] # current[k]
           /\ \A k \in KeysOf[c] :
                 \/ current'[k] = Merge(current[k], Excluded[c][k])
                 \/ current'[k] = current[k] /\ ~Touches(current[k], Excluded[c][k])
           /\ \A k \in Keys, s \in Sides : current'[k][s].at >= current[k][s].at
           /\ call[c].locks = KeysOf[c] /\ KeysOf[c] \subseteq Keys
<1> DEFINE w == call[c].writes
<1>1. call[c] \in CallType /\ call[c].pc = "completed" /\ current \in [Keys -> PriceType] /\ c \in Sound
    BY DEF IngestInv, StateTyped, Commit, InTransaction
<1>2. /\ DOMAIN w \subseteq call[c].locks /\ call[c].locks = KeysOf[c]
      /\ \A k \in KeysOf[c] : /\ k \in DOMAIN w <=> Touches(current[k], Excluded[c][k])
                              /\ k \in DOMAIN w => w[k] = Merge(current[k], Excluded[c][k])
    BY <1>1 DEF IngestInv, Merged
<1>3. w \in Rows /\ \A k \in DOMAIN w : k \in Keys /\ w[k] \in PriceType
  <2>1. w \in Rows
      BY <1>1 DEF CallType
  <2> QED BY <2>1, RowsUse
<1>4. current' = [k \in Keys |-> IF k \in DOMAIN w THEN w[k] ELSE current[k]]
    BY DEF Commit
<1>5. \A k \in KeysOf[c] : k \in Keys /\ Excluded[c][k] \in PriceType
    BY <1>1, ExcludedType
<1>6. current' \in [Keys -> PriceType]
    BY <1>1, <1>3, <1>4
<1>7. /\ \A k \in DOMAIN w : /\ current'[k] = Merge(current[k], Excluded[c][k]) /\ current'[k] # current[k]
                             /\ \A s \in Sides : current'[k][s].at >= current[k][s].at
      /\ \A k \in Keys \ DOMAIN w : current'[k] = current[k]
  <2>1. ASSUME NEW k \in DOMAIN w
        PROVE  /\ current'[k] = Merge(current[k], Excluded[c][k]) /\ current'[k] # current[k]
               /\ \A s \in Sides : current'[k][s].at >= current[k][s].at
    <3>1. k \in KeysOf[c] /\ k \in Keys /\ current[k] \in PriceType /\ Excluded[c][k] \in PriceType
        BY <1>1, <1>2, <1>5
    <3>2. current'[k] = Merge(current[k], Excluded[c][k]) /\ Touches(current[k], Excluded[c][k])
        BY <1>2, <1>4, <3>1
    <3> QED BY <3>1, <3>2, MergeChanges
  <2> QED BY <1>4, <2>1
<1>8. \A k \in Keys, s \in Sides : current'[k][s].at >= current[k][s].at
  <2>1. \A k \in Keys, s \in Sides : current[k][s].at \in Nat
      BY <1>1 DEF PriceType, QuoteType, Sides
  <2> QED BY <1>7, <2>1
<1> QED BY <1>2, <1>5, <1>6, <1>7, <1>8

\* q is the newest of the quotes in S.
IsNewest(q, S) ==
    IF S = {} THEN q = NoQuote ELSE q \in S /\ \A x \in S : x.at <= q.at

\* The merge of one side with the newest quote of a request is the newest
\* quote of both.
LEMMA NewestOfBoth ==
    ASSUME NEW old \in QuoteType, NEW new \in QuoteType, NEW res,
           \/ res = MergeSide(old, new)
           \/ res = old /\ ~TouchesSide(old, new),
           NEW A, NEW B,
           \A q \in A \cup B : q \in QuoteType /\ q.at # 0,
           IsNewest(old, A), IsNewest(new, B)
    PROVE  IsNewest(res, A \cup B)
<1>1. NoQuote.at = 0
    BY DEF NoQuote
<1>2. old.at \in Nat /\ new.at \in Nat /\ \A q \in A \cup B : q.at \in Nat
    BY DEF QuoteType
<1>3. CASE B = {}
    BY <1>1, <1>2, <1>3 DEF IsNewest, MergeSide, TouchesSide
<1>4. CASE B # {} /\ A = {}
    BY <1>1, <1>2, <1>4 DEF IsNewest, MergeSide, TouchesSide
<1>5. CASE B # {} /\ A # {}
    BY <1>1, <1>2, <1>5 DEF IsNewest, MergeSide, TouchesSide
<1> QED BY <1>3, <1>4, <1>5

\* The offers a commit adds.
LEMMA CommitOffers ==
    ASSUME NEW c \in Calls, Commit(c), NEW k, NEW s
    PROVE  Offers(k, s)' = Offers(k, s) \cup {Request(c).entries[n][s] : n \in Dated(c, k, s)}
<1> DEFINE news == {<<RequestId(c), n, Request(c).entries[n]>> : n \in DOMAIN Request(c).entries}
           Of(R) == {r[3][s] : r \in {x \in R : x[3].key = k /\ x[3][s].at # 0}}
<1>1. raw' = raw \cup news
    BY DEF Commit
<1>2. Offers(k, s)' = Of(raw') /\ Offers(k, s) = Of(raw)
    BY DEF Offers
<1>3. Of(raw \cup news) = Of(raw) \cup Of(news)
  <2> HIDE DEF news
  <2> QED OBVIOUS
<1>4. Of(news) = {Request(c).entries[n][s] : n \in Dated(c, k, s)}
  <2>1. ASSUME NEW q \in Of(news) PROVE \E n \in Dated(c, k, s) : q = Request(c).entries[n][s]
    <3>1. PICK r \in news : r[3].key = k /\ r[3][s].at # 0 /\ q = r[3][s]
        BY <2>1
    <3>2. PICK n \in DOMAIN Request(c).entries : r = <<RequestId(c), n, Request(c).entries[n]>>
        OBVIOUS
    <3>3. r[3] = Request(c).entries[n]
        BY <3>2
    <3> QED BY <3>1, <3>3 DEF Dated
  <2>2. ASSUME NEW n \in Dated(c, k, s) PROVE Request(c).entries[n][s] \in Of(news)
    <3>1. PICK r : r = <<RequestId(c), n, Request(c).entries[n]>>
        OBVIOUS
    <3>2. r \in news /\ r[3] = Request(c).entries[n]
        BY <3>1 DEF Dated
    <3>3. r[3].key = k /\ r[3][s].at # 0
        BY <3>2 DEF Dated
    <3> HIDE DEF news
    <3> QED BY <3>2, <3>3
  <2> HIDE DEF Of
  <2> QED BY <2>1, <2>2
<1> QED BY <1>1, <1>2, <1>3, <1>4

\* The read model stays the newest committed observation of every key.
LEMMA CommitNewest ==
    ASSUME IngestInv, NEW c \in Calls, Commit(c)
    PROVE  CurrentIsNewest'
<1> SUFFICES ASSUME NEW k \in Keys, NEW s \in Sides
             PROVE  IsNewest(current'[k][s], Offers(k, s)')
    BY DEF CurrentIsNewest, IsNewest
<1> DEFINE A == Offers(k, s)
           B == {Request(c).entries[n][s] : n \in Dated(c, k, s)}
           old == current[k][s]
           new == Latest(c, k, s)
<1>1. Offers(k, s)' = A \cup B
    BY CommitOffers
<1>2. IsNewest(old, A)
    BY DEF IngestInv, CurrentIsNewest, IsNewest
<1>3. c \in Sound
    BY CommitShape
<1>4. CASE k \notin KeysOf[c]
  <2>1. Dated(c, k, s) = {}
      BY <1>3, <1>4 DEF Dated, KeysOf
  <2>2. B = {}
      BY <2>1
  <2>3. current'[k] = current[k]
      BY <1>4, CommitRows
  <2> HIDE DEF A, B
  <2> QED BY <1>1, <1>2, <2>2, <2>3
<1>5. CASE k \in KeysOf[c]
  <2>1. /\ current[k] \in PriceType /\ Excluded[c][k] \in PriceType
        /\ Excluded[c][k][s] = new
      BY <1>3, <1>5, ExcludedType DEF IngestInv, StateTyped
  <2>2. old \in QuoteType /\ new \in QuoteType
      BY <2>1, LatestIsNewest DEF PriceType, Sides
  <2>3. \/ current'[k][s] = MergeSide(old, new)
        \/ current'[k][s] = old /\ ~TouchesSide(old, new)
    <3>1. CASE current'[k] = Merge(current[k], Excluded[c][k])
        BY <2>1, <3>1, MergeChanges
    <3>2. CASE current'[k] = current[k] /\ ~Touches(current[k], Excluded[c][k])
        BY <2>1, <3>2 DEF Touches
    <3> QED BY <1>5, <3>1, <3>2, CommitRows
  <2>4. \A q \in B : q \in QuoteType /\ q.at # 0
      BY EntriesType DEF Dated, EntryType, Sides
  <2>5. \A q \in A : q \in QuoteType /\ q.at # 0
    <3>1. \A x \in raw : x[3] \in EntryType
      <4>1. \A d \in Calls : \A x \in RawOf(d) : x[3] \in EntryType
          BY EntriesType DEF RawOf
      <4> QED BY <4>1 DEF IngestInv, RawIsCommitted, Committed
    <3> QED BY <3>1 DEF Offers, EntryType, Sides
  <2>6. IsNewest(new, B)
    <3>1. CASE Dated(c, k, s) = {}
        BY <3>1, LatestIsNewest DEF IsNewest
    <3>2. CASE Dated(c, k, s) # {}
        BY <3>2, LatestIsNewest DEF IsNewest
    <3> QED BY <3>1, <3>2
  <2> HIDE DEF A, B, old, new
  <2>7. \A q \in A \cup B : q \in QuoteType /\ q.at # 0
      BY <2>4, <2>5
  <2> QED BY <1>1, <1>2, <2>2, <2>3, <2>6, <2>7, NewestOfBoth
<1> QED BY <1>4, <1>5

LEMMA CommitStep ==
    ASSUME IngestInv, NEW c \in Calls, Commit(c)
    PROVE  IngestInv'
<1> USE CommitShape
<1>1. StateTyped'
    BY CommitRows DEF StateTyped
<1>2. \A d \in Calls : d # c =>
          /\ call'[d] = call[d]
          /\ InTransaction(d, call[d]) /\ Merged(d, call[d]) /\ Answered(d, call[d])
          /\ Apart(d, call[d], c, call[c])
    BY DEF IngestInv, AllApart
<1>3. ASSUME NEW d \in Calls, d # c
      PROVE  InTransaction(d, call[d])' /\ Merged(d, call[d])' /\ Answered(d, call[d])'
  <2>1. call[d].pc \in {"registered", "merging", "completed"} =>
            RequestId(d) \in Ids /\ requests'[RequestId(d)] = requests[RequestId(d)]
    <3>1. call[c].pc = "completed"
        BY DEF Commit
    <3> QED BY <1>2, <1>3, <3>1 DEF Apart, InTransaction, Sound
  <2>2. InTransaction(d, call[d])'
      BY <1>2, <1>3, <2>1 DEF InTransaction
  <2>3. call[d].committed \/ call[d].duplicate \/ call[d].status = 409 =>
            RequestId(d) \in Ids /\ requests'[RequestId(d)] = requests[RequestId(d)]
      BY <1>2, <1>3 DEF Answered, Sound
  <2>4. Answered(d, call[d])'
      BY <1>2, <1>3, <2>3 DEF Answered
  <2>5. \A k \in call[d].locks : k \in Keys /\ k \notin call[c].locks
      BY <1>2, <1>3 DEF Apart, IngestInv, StateTyped, CallType
  <2>6. \A k \in call[d].locks : current'[k] = current[k]
      BY <2>5, CommitRows
  <2>7. Merged(d, call[d])'
      BY <1>2, <1>3, <2>6 DEF Merged
  <2> QED BY <2>2, <2>4, <2>7
<1>4. InTransaction(c, call[c])' /\ Merged(c, call[c])' /\ Answered(c, call[c])'
  <2>1. InTransaction(c, call[c])'
      BY DEF InTransaction
  <2>2. Merged(c, call[c])'
      BY DEF Merged
  <2>3. Answered(c, call[c])'
      BY DEF Answered
  <2> QED BY <2>1, <2>2, <2>3
<1>5. AllApart'
  <2>1. ASSUME NEW d \in Calls, d # c
        PROVE  Apart(d, call'[d], c, call'[c]) /\ Apart(c, call'[c], d, call'[d])
    <3>1. call[d].committed => RequestId(d) # RequestId(c)
        BY <1>2, <2>1 DEF Answered
    <3> QED BY <1>2, <2>1, <3>1 DEF Apart
  <2>2. ASSUME NEW d \in Calls, NEW e \in Calls, d # e, d # c, e # c
        PROVE  Apart(d, call'[d], e, call'[e])
      BY <1>2, <2>2 DEF IngestInv, AllApart
  <2>3. \A d, e \in Calls : d # e => Apart(d, call'[d], e, call'[e])
      BY <2>1, <2>2
  <2> QED BY <2>3 DEF AllApart, Apart
<1>6. Committed' = Committed \cup {c}
    BY <1>2 DEF Committed
<1>7. RowsCommitted'
    BY <1>6 DEF IngestInv, RowsCommitted
<1>8. RawIsCommitted'
  <2>1. raw' = raw \cup RawOf(c)
      BY DEF Commit, RawOf
  <2>2. UNION {RawOf(d) : d \in Committed \cup {c}} = (UNION {RawOf(d) : d \in Committed}) \cup RawOf(c)
      OBVIOUS
  <2> QED BY <1>6, <2>1, <2>2 DEF IngestInv, RawIsCommitted, RawOf
<1>9. CurrentIsNewest'
    BY CommitNewest
<1> QED BY <1>1, <1>3, <1>4, <1>5, <1>7, <1>8, <1>9 DEF IngestInv

LEMMA NextIngest == IngestInv /\ [Next]_vars => IngestInv'
<1> SUFFICES ASSUME IngestInv, [Next]_vars PROVE IngestInv'
    OBVIOUS
<1>1. CASE UNCHANGED vars
  <2>1. StateTyped' /\ AllApart' /\ RowsCommitted' /\ RawIsCommitted'
      BY <1>1 DEF vars, IngestInv, StateTyped, AllApart, Apart, RowsCommitted, RawIsCommitted, Committed
  <2>2. CurrentIsNewest'
    <3>1. \A k, s : Offers(k, s)' = Offers(k, s)
        BY <1>1 DEF Offers, vars
    <3> QED BY <1>1, <3>1 DEF vars, IngestInv, CurrentIsNewest
  <2>3. ASSUME NEW c \in Calls
        PROVE  InTransaction(c, call[c])' /\ Merged(c, call[c])' /\ Answered(c, call[c])'
    <3>1. InTransaction(c, call[c]) /\ Merged(c, call[c]) /\ Answered(c, call[c])
        BY DEF IngestInv
    <3>2. InTransaction(c, call[c])'
        BY <1>1, <3>1 DEF vars, InTransaction
    <3>3. Merged(c, call[c])'
        BY <1>1, <3>1 DEF vars, Merged
    <3>4. Answered(c, call[c])'
        BY <1>1, <3>1 DEF vars, Answered
    <3> QED BY <3>2, <3>3, <3>4
  <2> QED BY <2>1, <2>2, <2>3 DEF IngestInv
<1>2. ASSUME NEW c \in Calls, Arrive(c) \/ Step(c) \/ Fail(c) PROVE IngestInv'
    BY <1>2, ArriveStep, RegisterStep, ExistingStep, CopyStep, MergeKeyStep, CompleteStep, CommitStep,
       FinishStep, FailStep DEF Step
<1> QED BY <1>1, <1>2 DEF Next

\* The tables, the open transactions and the answers agree, whatever order,
\* overlap or retry the calls have.
THEOREM IngestInvariant == Spec => []IngestInv
<1> QED BY InitIngest, NextIngest, PTL DEF Spec

\* The read model is the newest committed observation of every key and side.
THEOREM CurrentNewest == Spec => []CurrentIsNewest
<1>1. IngestInv => CurrentIsNewest
    BY DEF IngestInv
<1> QED BY <1>1, IngestInvariant, PTL

\* current_rows_touched is the number of rows a commit changes, and no row
\* moves back in time.
THEOREM TouchedCounted == Spec => TouchedIsChanged
<1>1. IngestInv /\ [Next]_vars =>
        [\A c \in Calls : Commit(c) =>
            /\ call[c].touched = Cardinality({k \in Keys : current'[k] # current[k]})
            /\ \A k \in Keys, s \in Sides : current'[k][s].at >= current[k][s].at]_vars
  <2> SUFFICES ASSUME IngestInv, NEW c \in Calls, Commit(c)
               PROVE  /\ call[c].touched = Cardinality({k \in Keys : current'[k] # current[k]})
                      /\ \A k \in Keys, s \in Sides : current'[k][s].at >= current[k][s].at
      OBVIOUS
  <2>1. call[c].touched = Cardinality(DOMAIN call[c].writes)
      BY DEF IngestInv, Merged, Commit
  <2>2. DOMAIN call[c].writes = {k \in Keys : current'[k] # current[k]}
    <3>1. call[c].writes \in Rows
        BY DEF IngestInv, StateTyped, CallType
    <3>2. DOMAIN call[c].writes \subseteq Keys
        BY <3>1, RowsUse
    <3> QED BY <3>2, CommitRows
  <2> QED BY <2>1, <2>2, CommitRows
<1> QED BY <1>1, IngestInvariant, PTL DEF Spec, TouchedIsChanged

-----------------------------------------------------------------------------
(* The metrics.                                                             *)

\* A set that is numbered by a finite one, each member once.
LEMMA Numbered ==
    ASSUME NEW S, IsFiniteSet(S), NEW T, NEW f \in [S -> T],
           \A x, y \in S : f[x] = f[y] => x = y,
           \A z \in T : \E x \in S : z = f[x]
    PROVE  IsFiniteSet(T) /\ Cardinality(T) = Cardinality(S)
<1>1. f \in Bijection(S, T)
    BY DEF Bijection, Injection, Surjection, IsInjective
<1>2. ExistsBijection(S, T)
    BY <1>1 DEF ExistsBijection
<1> QED BY <1>2, FS_Bijection

\* A request leaves one row of the audit trail per entry.
LEMMA RawCount ==
    ASSUME NEW c \in Calls
    PROVE  /\ IsFiniteSet(RawOf(c)) /\ Cardinality(RawOf(c)) = Len(Request(c).entries)
           /\ IsFiniteSet({c} \X DOMAIN Request(c).entries)
           /\ Cardinality({c} \X DOMAIN Request(c).entries) = Len(Request(c).entries)
<1> DEFINE D == DOMAIN Request(c).entries
           f == [n \in D |-> <<RequestId(c), n, Request(c).entries[n]>>]
           g == [n \in D |-> <<c, n>>]
<1>1. IsFiniteSet(D) /\ Cardinality(D) = Len(Request(c).entries)
    BY EntriesType
<1>2. f \in [D -> RawOf(c)] /\ (\A x, y \in D : f[x] = f[y] => x = y) /\ \A z \in RawOf(c) : \E x \in D : z = f[x]
    BY DEF RawOf
<1>3. g \in [D -> {c} \X D] /\ (\A x, y \in D : g[x] = g[y] => x = y) /\ \A z \in {c} \X D : \E x \in D : z = g[x]
    OBVIOUS
<1> HIDE DEF D, f, g
<1>4. IsFiniteSet(RawOf(c)) /\ Cardinality(RawOf(c)) = Cardinality(D)
    BY <1>1, <1>2, Numbered
<1>5. IsFiniteSet({c} \X D) /\ Cardinality({c} \X D) = Cardinality(D)
    BY <1>1, <1>3, Numbered
<1> QED BY <1>1, <1>4, <1>5 DEF D

\* What is known of a call that answers without a commit.
Refused(status) == [NewCall EXCEPT !.pc = "responded", !.status = status]

LEMMA RefusedType ==
    ASSUME NEW status
    PROVE  Refused(status).pc = "responded" /\ ~Refused(status).committed
<1>1. NewCall \in CallType /\ ~NewCall.committed
    BY NewCallType
<1>2. Refused(status).pc = "responded" /\ Refused(status).committed = NewCall.committed
    BY <1>1 DEF Refused, CallType
<1> QED BY <1>1, <1>2

\* The steps between the first check and the response, other than the commit.
LEMMA MoveShape ==
    ASSUME IngestInv, NEW c \in Calls,
           \/ Register(c) \/ Existing(c) \/ Copy(c) \/ (\E k \in Keys : MergeKey(c, k)) \/ Complete(c)
           \/ DeadlockVictim(c) \/ Fail(c)
    PROVE  /\ UNCHANGED <<raw, metrics>> /\ \A d \in Calls : d # c => call'[d] = call[d]
           /\ call[c].pc \notin {"new", "done"} /\ ~call[c].committed
           /\ call'[c].pc \notin {"new", "done"} /\ ~call'[c].committed
<1>1. call \in [Calls -> CallType]
    BY DEF IngestInv, StateTyped
<1>2. call[c].pc \in {"arrived", "registered", "merging", "completed"}
    BY DEF Register, Existing, Copy, MergeKey, Complete, DeadlockVictim, Deadlocked, Fail, Open
<1>3. ~call[c].committed
    BY <1>2 DEF IngestInv, InTransaction
<1>4. UNCHANGED <<raw, metrics>>
    BY DEF Register, Existing, Copy, MergeKey, Complete, DeadlockVictim, Fail
<1>5. ASSUME NEW r, call' = [call EXCEPT ![c] = r], r.pc \notin {"new", "done"}, ~r.committed
      PROVE  /\ \A d \in Calls : d # c => call'[d] = call[d]
             /\ call'[c].pc \notin {"new", "done"} /\ ~call'[c].committed
    BY <1>1, <1>5
<1>6. ASSUME NEW status, Respond(c, status)
      PROVE  /\ \A d \in Calls : d # c => call'[d] = call[d]
             /\ call'[c].pc \notin {"new", "done"} /\ ~call'[c].committed
  <2>1. call' = [call EXCEPT ![c] = Refused(status)]
      BY <1>6 DEF Respond, Refused
  <2> QED BY <1>5, <2>1, RefusedType
<1>7. CASE Register(c) \/ Copy(c) \/ Complete(c)
  <2>1. CASE Register(c)
      BY <1>1, <1>2, <1>3, <1>4, <2>1 DEF Register, CallType
  <2>2. CASE Copy(c)
      BY <1>1, <1>2, <1>3, <1>4, <2>2 DEF Copy, CallType
  <2>3. CASE Complete(c)
      BY <1>1, <1>2, <1>3, <1>4, <2>3 DEF Complete, CallType
  <2> QED BY <1>7, <2>1, <2>2, <2>3
<1>8. CASE \E k \in Keys : MergeKey(c, k)
  <2>1. PICK k \in Keys : MergeKey(c, k)
      BY <1>8
  <2>2. call' = [call EXCEPT ![c] = call'[c]] /\ call'[c].pc = call[c].pc /\ call'[c].committed = call[c].committed
    <3>1. CASE Touches(current[k], Excluded[c][k])
        BY <1>1, <2>1, <3>1 DEF MergeKey, CallType
    <3>2. CASE ~Touches(current[k], Excluded[c][k])
        BY <1>1, <2>1, <3>2 DEF MergeKey, CallType
    <3> QED BY <3>1, <3>2
  <2> QED BY <1>2, <1>3, <1>4, <1>5, <2>2
<1>9. CASE DeadlockVictim(c) \/ Fail(c)
    BY <1>2, <1>3, <1>4, <1>6, <1>9 DEF DeadlockVictim, Fail
<1>10. CASE Existing(c)
  <2> DEFINE q == requests[RequestId(c)]
  <2>1. CASE Respond(c, 409)
      BY <1>2, <1>3, <1>4, <1>6, <2>1
  <2>2. CASE ~Respond(c, 409)
    <3>1. call' = [call EXCEPT ![c] = Duplicated(q.accepted, q.touched)]
        BY <1>10, <2>2 DEF Existing, Duplicated
    <3>2. c \in Sound /\ q \in RowType
        BY <1>2 DEF IngestInv, InTransaction, Sound, StateTyped
    <3>3. q.accepted \in Nat /\ q.touched \in Nat
        BY <3>2 DEF RowType
    <3> HIDE DEF q
    <3>4. Duplicated(q.accepted, q.touched).pc = "responded" /\ ~Duplicated(q.accepted, q.touched).committed
        BY <3>3, DuplicateType
    <3> QED BY <1>2, <1>3, <1>4, <1>5, <3>1, <3>4
  <2> QED BY <2>1, <2>2
<1> QED BY <1>7, <1>8, <1>9, <1>10

LEMMA InitMetrics == Init => MetricsInv
<1> SUFFICES ASSUME Init PROVE MetricsInv
    OBVIOUS
<1>1. \A c \in Calls : call[c].pc = "new" /\ ~call[c].committed
    BY NewCallType DEF Init
<1>2. Active = {} /\ Unconfirmed = {} /\ raw = {}
    BY <1>1 DEF Active, Unconfirmed, Committed, Init
<1>3. EntriesOf({}) = {}
    BY DEF EntriesOf
<1>4. metrics = NoMetrics
    BY DEF Init
<1> QED BY <1>2, <1>3, <1>4, FS_EmptySet DEF MetricsInv, MetricsType, NoMetrics

\* A call is counted as in flight when it arrives.
LEMMA ArriveMetrics ==
    ASSUME IngestInv, MetricsInv, NEW c \in Calls, Arrive(c)
    PROVE  MetricsInv'
<1>1. call \in [Calls -> CallType] /\ call[c].pc = "new" /\ ~call[c].committed /\ raw' = raw
    BY DEF IngestInv, StateTyped, InTransaction, Arrive
<1>2. /\ \A d \in Calls : d # c => call'[d] = call[d]
      /\ call'[c].pc \notin {"new", "done"} /\ ~call'[c].committed
  <2>1. CASE c \in Sound
      BY <1>1, <2>1 DEF Arrive, CallType
  <2>2. CASE c \notin Sound
    <3>1. call' = [call EXCEPT ![c] = Refused(Refusal(c))]
        BY <2>2 DEF Arrive, Respond, Refused
    <3> QED BY <1>1, <3>1, RefusedType
  <2> QED BY <2>1, <2>2
<1>3. Active' = Active \cup {c} /\ c \notin Active
    BY <1>1, <1>2 DEF Active
<1>4. Unconfirmed' = Unconfirmed
    BY <1>1, <1>2 DEF Unconfirmed, Committed
<1>5. IsFiniteSet(Active') /\ Cardinality(Active') = Cardinality(Active) + 1
    BY <1>3, FS_AddElement DEF MetricsInv
<1>6. /\ metrics \in MetricsType /\ metrics.requests \in Nat /\ metrics.inFlight \in Nat
      /\ metrics.succeeded \in Nat /\ metrics.errors \in Nat
    BY DEF MetricsInv, MetricsType
<1> DEFINE a == metrics.requests + 1
           b == metrics.inFlight + 1
<1>7. a \in Nat /\ b \in Nat /\ metrics' = [metrics EXCEPT !.requests = a, !.inFlight = b]
    BY <1>6 DEF Arrive
<1>8. /\ metrics' \in MetricsType /\ metrics'.requests = a
      /\ metrics'.inFlight = b /\ metrics'.succeeded = metrics.succeeded
      /\ metrics'.errors = metrics.errors /\ metrics'.received = metrics.received
      /\ metrics'.stored = metrics.stored /\ metrics'.rejected = metrics.rejected
      /\ metrics'.duplicated = metrics.duplicated
  <2> HIDE DEF a, b
  <2>1. metrics' \in MetricsType
      BY <1>6, <1>7, Zenon DEF MetricsType
  <2> QED BY <1>6, <1>7, <2>1 DEF MetricsType
<1> QED BY <1>1, <1>4, <1>5, <1>6, <1>8 DEF MetricsInv, EntriesOf

LEMMA MoveMetrics ==
    ASSUME IngestInv, MetricsInv, NEW c \in Calls,
           \/ Register(c) \/ Existing(c) \/ Copy(c) \/ (\E k \in Keys : MergeKey(c, k)) \/ Complete(c)
           \/ DeadlockVictim(c) \/ Fail(c)
    PROVE  MetricsInv'
<1>1. /\ UNCHANGED <<raw, metrics>> /\ \A d \in Calls : d # c => call'[d] = call[d]
      /\ call[c].pc \notin {"new", "done"} /\ ~call[c].committed
      /\ call'[c].pc \notin {"new", "done"} /\ ~call'[c].committed
    BY MoveShape
<1>2. Active' = Active /\ Unconfirmed' = Unconfirmed
    BY <1>1 DEF Active, Unconfirmed, Committed
<1> QED BY <1>1, <1>2 DEF MetricsInv, EntriesOf

\* A commit adds its entries to the audit trail and, until the handler
\* returns, to the unconfirmed ones.
LEMMA CommitMetrics ==
    ASSUME IngestInv, MetricsInv, NEW c \in Calls, Commit(c)
    PROVE  MetricsInv'
<1> USE CommitShape
<1> DEFINE E == {c} \X DOMAIN Request(c).entries
<1>1. call[c].pc = "completed" /\ ~call[c].committed /\ UNCHANGED metrics /\ raw' = raw \cup RawOf(c)
    BY DEF IngestInv, InTransaction, Commit, RawOf
<1>2. Active' = Active
    BY <1>1 DEF Active
<1>3. Unconfirmed' = Unconfirmed \cup {c} /\ c \notin Unconfirmed
    BY <1>1 DEF Unconfirmed, Committed
<1>4. raw \cap RawOf(c) = {}
  <2>1. \A d \in Committed : RequestId(d) # RequestId(c)
      BY DEF IngestInv, Answered, Committed
  <2>2. \A d \in Committed : RawOf(d) \cap RawOf(c) = {}
      BY <2>1 DEF RawOf
  <2> QED BY <2>2 DEF IngestInv, RawIsCommitted
<1>5. EntriesOf(Unconfirmed') = EntriesOf(Unconfirmed) \cup E /\ EntriesOf(Unconfirmed) \cap E = {}
    BY <1>3 DEF EntriesOf
<1> HIDE DEF E
<1>6. /\ IsFiniteSet(raw') /\ Cardinality(raw') = Cardinality(raw) + Len(Request(c).entries)
      /\ IsFiniteSet(EntriesOf(Unconfirmed'))
      /\ Cardinality(EntriesOf(Unconfirmed')) = Cardinality(EntriesOf(Unconfirmed)) + Len(Request(c).entries)
  <2>1. IsFiniteSet(E) /\ Cardinality(E) = Len(Request(c).entries)
      BY RawCount DEF E
  <2>2. IsFiniteSet(RawOf(c)) /\ Cardinality(RawOf(c)) = Len(Request(c).entries)
      BY RawCount
  <2>3. IsFiniteSet(raw) /\ IsFiniteSet(EntriesOf(Unconfirmed)) /\ Len(Request(c).entries) \in Nat
      BY EntriesType DEF MetricsInv
  <2>4. Cardinality(raw) \in Nat /\ Cardinality(EntriesOf(Unconfirmed)) \in Nat
      BY <2>3, FS_CardinalityType
  <2>5. IsFiniteSet(raw \cup RawOf(c))
        /\ Cardinality(raw \cup RawOf(c)) = Cardinality(raw) + Cardinality(RawOf(c)) - Cardinality({})
      BY <1>4, <2>2, <2>3, FS_Union
  <2>6. IsFiniteSet(EntriesOf(Unconfirmed) \cup E)
        /\ Cardinality(EntriesOf(Unconfirmed) \cup E) =
              Cardinality(EntriesOf(Unconfirmed)) + Cardinality(E) - Cardinality({})
      BY <1>5, <2>1, <2>3, FS_Union
  <2> QED BY <1>1, <1>5, <2>1, <2>2, <2>3, <2>4, <2>5, <2>6, FS_EmptySet
<1>7. metrics.stored \in Nat /\ Cardinality(EntriesOf(Unconfirmed)) \in Nat /\ Len(Request(c).entries) \in Nat
    BY FS_CardinalityType, EntriesType DEF MetricsInv, MetricsType
<1>8. EntriesOf(Unconfirmed)' = EntriesOf(Unconfirmed')
    BY DEF EntriesOf
<1> QED BY <1>1, <1>2, <1>6, <1>7, <1>8 DEF MetricsInv

\* What the deferred function adds to the counters.
Decoded(c) == IF Request(c).front = "ok" THEN Len(Request(c).entries) ELSE 0

LEMMA CountedShape ==
    ASSUME IngestInv, MetricsInv, NEW c \in Calls, call[c].pc = "responded"
    PROVE  /\ Counted(c) \in MetricsType
           /\ Counted(c).requests = metrics.requests
           /\ Counted(c).inFlight = IF metrics.inFlight > 0 THEN metrics.inFlight - 1 ELSE metrics.inFlight
           /\ Counted(c).succeeded + Counted(c).errors = metrics.succeeded + metrics.errors + 1
           /\ Counted(c).received = metrics.received + Decoded(c)
           /\ Counted(c).stored + Counted(c).rejected + Counted(c).duplicated =
                 metrics.stored + metrics.rejected + metrics.duplicated + Decoded(c)
           /\ Counted(c).stored =
                 metrics.stored + (IF call[c].status = 202 THEN Len(Request(c).entries) ELSE 0)
<1>1. /\ metrics \in MetricsType /\ call[c] \in CallType
      /\ call[c].accepted \in Nat /\ call[c].touched \in Nat /\ Len(Request(c).entries) \in Nat
    BY EntriesType DEF IngestInv, StateTyped, MetricsInv, CallType
<1>2. /\ Succeeded(c) <=> call[c].status \in {200, 202}
      /\ call[c].status = 202 => ~call[c].duplicate
      /\ call[c].duplicate => call[c].status = 200
      /\ call[c].status = 200 => call[c].duplicate
  <2>1. call[c].status \in Statuses
      BY <1>1 DEF CallType
  <2>2. Succeeded(c) <=> call[c].status \in {200, 202}
      BY <2>1 DEF Statuses, Succeeded
  <2>3. Answered(c, call[c])
      BY DEF IngestInv
  <2> QED BY <2>2, <2>3 DEF Answered
<1>3. call[c].status \in {200, 202} =>
          call[c].accepted = Len(Request(c).entries) /\ Request(c).front = "ok"
  <2> HAVE call[c].status \in {200, 202}
  <2>1. Answered(c, call[c])
      BY DEF IngestInv
  <2>2. c \in Sound
      BY <2>1 DEF Answered
  <2>3. CASE call[c].committed
      BY <2>1, <2>2, <2>3 DEF Answered, Sound
  <2>4. CASE call[c].duplicate
    <3>1. requests[RequestId(c)].status = "completed" /\ requests[RequestId(c)].hash = Hash(c)
        BY <2>1, <2>4 DEF Answered
    <3>2. PICK d \in Committed : RequestId(d) = RequestId(c)
        BY <2>2, <3>1 DEF IngestInv, RowsCommitted, Sound
    <3>3. Answered(d, call[d]) /\ call[d].committed
        BY DEF IngestInv, Committed
    <3>4. /\ Hash(d) = Hash(c)
          /\ requests[RequestId(c)].accepted = Len(Request(d).entries)
        BY <3>1, <3>2, <3>3 DEF Answered
    <3>5. Request(d).entries = Request(c).entries
        BY <3>4 DEF Hash
    <3> QED BY <2>1, <2>2, <2>4, <3>4, <3>5 DEF Answered, Sound
  <2> QED BY <2>1, <2>3, <2>4 DEF Answered
<1>4. Decoded(c) \in Nat /\ (call[c].status \in {200, 202} => Decoded(c) = call[c].accepted)
    BY <1>1, <1>3 DEF Decoded
<1> DEFINE ok == Succeeded(c)
           dup == call[c].duplicate
           decoded == Decoded(c)
           rejected == CASE dup -> 0 [] ok -> decoded - call[c].accepted [] OTHER -> decoded
<1>5. Counted(c) =
        [metrics EXCEPT
            !.inFlight = IF metrics.inFlight > 0 THEN metrics.inFlight - 1 ELSE metrics.inFlight,
            !.received = metrics.received + decoded,
            !.rejected = metrics.rejected + rejected,
            !.succeeded = IF ok THEN metrics.succeeded + 1 ELSE metrics.succeeded,
            !.errors = IF ok THEN metrics.errors ELSE metrics.errors + 1,
            !.duplicates = IF dup THEN metrics.duplicates + 1 ELSE metrics.duplicates,
            !.duplicated = IF dup THEN metrics.duplicated + call[c].accepted ELSE metrics.duplicated,
            !.stored = IF ok /\ ~dup THEN metrics.stored + call[c].accepted ELSE metrics.stored,
            !.touched = IF ok /\ ~dup THEN metrics.touched + call[c].touched ELSE metrics.touched]
    BY DEF Counted, Decoded
<1>6. rejected = IF ok THEN 0 ELSE decoded
  <2>1. CASE dup
    <3>1. ok /\ decoded - call[c].accepted = 0
        BY <1>1, <1>2, <1>4, <2>1
    <3> HIDE DEF ok, dup, decoded
    <3> QED BY <2>1, <3>1
  <2>2. CASE ~dup /\ ok
      BY <1>1, <1>2, <1>4, <2>2
  <2>3. CASE ~dup /\ ~ok
      BY <2>3
  <2> QED BY <2>1, <2>2, <2>3
<1>7. /\ metrics.inFlight \in Nat /\ metrics.received \in Nat /\ metrics.rejected \in Nat
      /\ metrics.succeeded \in Nat /\ metrics.errors \in Nat /\ metrics.duplicates \in Nat
      /\ metrics.duplicated \in Nat /\ metrics.stored \in Nat /\ metrics.touched \in Nat
    BY <1>1 DEF MetricsType
<1> HIDE DEF rejected, decoded, ok, dup
<1>8. /\ Counted(c).requests = metrics.requests
      /\ Counted(c).inFlight = IF metrics.inFlight > 0 THEN metrics.inFlight - 1 ELSE metrics.inFlight
      /\ Counted(c).received = metrics.received + decoded
      /\ Counted(c).rejected = metrics.rejected + rejected
      /\ Counted(c).succeeded = IF ok THEN metrics.succeeded + 1 ELSE metrics.succeeded
      /\ Counted(c).errors = IF ok THEN metrics.errors ELSE metrics.errors + 1
      /\ Counted(c).duplicates = IF dup THEN metrics.duplicates + 1 ELSE metrics.duplicates
      /\ Counted(c).duplicated = IF dup THEN metrics.duplicated + call[c].accepted ELSE metrics.duplicated
      /\ Counted(c).stored = IF ok /\ ~dup THEN metrics.stored + call[c].accepted ELSE metrics.stored
      /\ Counted(c).touched = IF ok /\ ~dup THEN metrics.touched + call[c].touched ELSE metrics.touched
    BY <1>1, <1>5 DEF MetricsType
<1>9. Counted(c) \in MetricsType
  <2> DEFINE a1 == IF metrics.inFlight > 0 THEN metrics.inFlight - 1 ELSE metrics.inFlight
             a2 == metrics.received + decoded
             a3 == metrics.rejected + rejected
             a4 == IF ok THEN metrics.succeeded + 1 ELSE metrics.succeeded
             a5 == IF ok THEN metrics.errors ELSE metrics.errors + 1
             a6 == IF dup THEN metrics.duplicates + 1 ELSE metrics.duplicates
             a7 == IF dup THEN metrics.duplicated + call[c].accepted ELSE metrics.duplicated
             a8 == IF ok /\ ~dup THEN metrics.stored + call[c].accepted ELSE metrics.stored
             a9 == IF ok /\ ~dup THEN metrics.touched + call[c].touched ELSE metrics.touched
  <2>1. decoded \in Nat /\ rejected \in Nat
      BY <1>4, <1>6 DEF decoded
  <2>2. /\ a1 \in Nat /\ a2 \in Nat /\ a3 \in Nat /\ a4 \in Nat /\ a5 \in Nat /\ a6 \in Nat
        /\ a7 \in Nat /\ a8 \in Nat /\ a9 \in Nat
    <3>1. a1 \in Nat /\ a2 \in Nat /\ a3 \in Nat
        BY <1>7, <2>1
    <3>2. a4 \in Nat /\ a5 \in Nat /\ a6 \in Nat
        BY <1>7
    <3>3. /\ metrics.duplicated + call[c].accepted \in Nat /\ metrics.stored + call[c].accepted \in Nat
          /\ metrics.touched + call[c].touched \in Nat
      <4>1. \A x, y \in Nat : x + y \in Nat
          OBVIOUS
      <4>2. call[c].accepted \in Nat /\ call[c].touched \in Nat
          BY <1>1
      <4> HIDE DEF a1, a2, a3, a4, a5, a6, a7, a8, a9
      <4> QED BY <1>7, <4>1, <4>2, Zenon
    <3>4. a7 \in Nat
        BY <1>7, <3>3
    <3>5. a8 \in Nat
        BY <1>7, <3>3
    <3>6. a9 \in Nat
        BY <1>7, <3>3
    <3> QED BY <3>1, <3>2, <3>4, <3>5, <3>6
  <2>3. Counted(c) = [metrics EXCEPT !.inFlight = a1, !.received = a2, !.rejected = a3, !.succeeded = a4,
                                     !.errors = a5, !.duplicates = a6, !.duplicated = a7,
                                     !.stored = a8, !.touched = a9]
      BY <1>5
  <2> HIDE DEF a1, a2, a3, a4, a5, a6, a7, a8, a9
  <2> QED BY <1>1, <2>2, <2>3, ZenonT(120) DEF MetricsType
<1>10. /\ ok <=> call[c].status \in {200, 202}
       /\ dup <=> call[c].status = 200
       /\ ok => decoded = call[c].accepted /\ call[c].accepted = Len(Request(c).entries)
       /\ decoded = Decoded(c) /\ decoded \in Nat
    BY <1>2, <1>3, <1>4 DEF ok, dup, decoded
<1>11. Counted(c).stored = metrics.stored + (IF call[c].status = 202 THEN Len(Request(c).entries) ELSE 0)
    BY <1>7, <1>8, <1>10
<1>12. Counted(c).stored + Counted(c).rejected + Counted(c).duplicated =
          metrics.stored + metrics.rejected + metrics.duplicated + Decoded(c)
  <2>1. /\ metrics.stored \in Int /\ metrics.rejected \in Int /\ metrics.duplicated \in Int
        /\ Decoded(c) \in Int /\ decoded = Decoded(c) /\ (ok => call[c].accepted = Decoded(c))
      BY <1>7, <1>10
  <2>2. CASE call[c].status = 200
    <3>1. ok /\ dup
        BY <1>10, <2>2
    <3>2. /\ Counted(c).stored = metrics.stored
          /\ Counted(c).rejected = metrics.rejected + 0
          /\ Counted(c).duplicated = metrics.duplicated + call[c].accepted
        BY <1>6, <1>8, <3>1
    <3>3. Counted(c).stored + Counted(c).rejected + Counted(c).duplicated =
              metrics.stored + (metrics.rejected + 0) + (metrics.duplicated + Decoded(c))
        BY <2>1, <3>1, <3>2
    <3>4. metrics.stored + (metrics.rejected + 0) + (metrics.duplicated + Decoded(c)) =
              metrics.stored + metrics.rejected + metrics.duplicated + Decoded(c)
        BY <2>1
    <3> QED BY <3>3, <3>4, Zenon
  <2>3. CASE call[c].status = 202
    <3>1. ok /\ ~dup
        BY <1>10, <2>3
    <3>2. /\ Counted(c).stored = metrics.stored + call[c].accepted
          /\ Counted(c).rejected = metrics.rejected + 0
          /\ Counted(c).duplicated = metrics.duplicated
        BY <1>6, <1>8, <3>1
    <3>3. Counted(c).stored + Counted(c).rejected + Counted(c).duplicated =
              (metrics.stored + Decoded(c)) + (metrics.rejected + 0) + metrics.duplicated
        BY <2>1, <3>1, <3>2
    <3>4. (metrics.stored + Decoded(c)) + (metrics.rejected + 0) + metrics.duplicated =
              metrics.stored + metrics.rejected + metrics.duplicated + Decoded(c)
        BY <2>1
    <3> QED BY <3>3, <3>4, Zenon
  <2>4. CASE call[c].status \notin {200, 202}
    <3>1. ~ok /\ ~dup
        BY <1>10, <2>4
    <3>2. /\ Counted(c).stored = metrics.stored
          /\ Counted(c).rejected = metrics.rejected + decoded
          /\ Counted(c).duplicated = metrics.duplicated
        BY <1>6, <1>8, <3>1
    <3>3. Counted(c).stored + Counted(c).rejected + Counted(c).duplicated =
              metrics.stored + (metrics.rejected + Decoded(c)) + metrics.duplicated
        BY <2>1, <3>1, <3>2
    <3>4. metrics.stored + (metrics.rejected + Decoded(c)) + metrics.duplicated =
              metrics.stored + metrics.rejected + metrics.duplicated + Decoded(c)
        BY <2>1
    <3> QED BY <3>3, <3>4, Zenon
  <2> QED BY <2>2, <2>3, <2>4
<1>13. Counted(c).succeeded + Counted(c).errors = metrics.succeeded + metrics.errors + 1
    BY <1>7, <1>8
<1> QED BY <1>8, <1>9, <1>10, <1>11, <1>12, <1>13

\* The handler returns: the call is no longer in flight, and its entries are
\* stored, rejected, duplicate or, after a lost reply of the commit, unconfirmed.
LEMMA FinishMetrics ==
    ASSUME IngestInv, MetricsInv, NEW c \in Calls, Finish(c)
    PROVE  MetricsInv'
<1> DEFINE len == Len(Request(c).entries)
<1>1. /\ call \in [Calls -> CallType] /\ call[c] \in CallType /\ call[c].pc = "responded"
      /\ raw' = raw /\ metrics' = Counted(c) /\ call' = [call EXCEPT ![c].pc = "done"]
    BY DEF IngestInv, StateTyped, Finish
<1>2. /\ \A d \in Calls : d # c => call'[d] = call[d]
      /\ call'[c].pc = "done" /\ call'[c].status = call[c].status /\ call'[c].committed = call[c].committed
    BY <1>1 DEF CallType
<1>3. Active' = Active \ {c} /\ c \in Active
    BY <1>1, <1>2 DEF Active
<1>4. IsFiniteSet(Active') /\ Cardinality(Active') = Cardinality(Active) - 1 /\ Cardinality(Active') \in Nat
  <2>1. IsFiniteSet(Active)
      BY DEF MetricsInv
  <2>2. IsFiniteSet(Active') /\ Cardinality(Active') = Cardinality(Active) - 1
      BY <1>3, <2>1, FS_RemoveElement
  <2> QED BY <2>2, FS_CardinalityType
<1>5. /\ IsFiniteSet(EntriesOf(Unconfirmed'))
      /\ Cardinality(EntriesOf(Unconfirmed)) =
            Cardinality(EntriesOf(Unconfirmed')) + (IF call[c].status = 202 THEN len ELSE 0)
      /\ Cardinality(EntriesOf(Unconfirmed')) \in Nat
  <2>1. Answered(c, call[c])
      BY DEF IngestInv
  <2>2. IsFiniteSet(EntriesOf(Unconfirmed)) /\ Cardinality(EntriesOf(Unconfirmed)) \in Nat
      BY FS_CardinalityType DEF MetricsInv
  <2>3. CASE call[c].status = 202
    <3> DEFINE E == {c} \X DOMAIN Request(c).entries
    <3>1. c \in Unconfirmed /\ Unconfirmed' = Unconfirmed \ {c}
        BY <1>1, <1>2, <2>1, <2>3 DEF Unconfirmed, Committed, Answered
    <3>2. /\ EntriesOf(Unconfirmed) = EntriesOf(Unconfirmed') \cup E
          /\ EntriesOf(Unconfirmed') \cap E = {}
        BY <3>1 DEF EntriesOf
    <3>3. IsFiniteSet(E) /\ Cardinality(E) = len /\ len \in Nat
        BY RawCount, EntriesType
    <3> HIDE DEF E, len
    <3>4. IsFiniteSet(EntriesOf(Unconfirmed'))
        BY <2>2, <3>2, FS_Subset
    <3>5. Cardinality(EntriesOf(Unconfirmed') \cup E) =
              Cardinality(EntriesOf(Unconfirmed')) + Cardinality(E) - Cardinality({})
        BY <3>2, <3>3, <3>4, FS_Union
    <3>6. Cardinality(EntriesOf(Unconfirmed')) \in Nat /\ Cardinality({}) = 0
        BY <3>4, FS_CardinalityType, FS_EmptySet
    <3>7. Cardinality(EntriesOf(Unconfirmed)) = Cardinality(EntriesOf(Unconfirmed')) + len
        BY <3>2, <3>3, <3>5, <3>6
    <3> QED BY <2>3, <3>4, <3>6, <3>7
  <2>4. CASE call[c].status # 202
    <3>1. Unconfirmed' = Unconfirmed
        BY <1>1, <1>2, <2>1, <2>4 DEF Unconfirmed, Committed, Answered
    <3> QED BY <2>2, <2>4, <3>1
  <2> QED BY <2>3, <2>4
<1>6. /\ metrics' \in MetricsType
      /\ metrics'.requests = metrics.requests
      /\ metrics'.inFlight = IF metrics.inFlight > 0 THEN metrics.inFlight - 1 ELSE metrics.inFlight
      /\ metrics'.succeeded + metrics'.errors = metrics.succeeded + metrics.errors + 1
      /\ metrics'.received = metrics.received + Decoded(c)
      /\ metrics'.stored + metrics'.rejected + metrics'.duplicated =
            metrics.stored + metrics.rejected + metrics.duplicated + Decoded(c)
      /\ metrics'.stored = metrics.stored + (IF call[c].status = 202 THEN len ELSE 0)
    BY <1>1, CountedShape
<1> HIDE DEF len
<1>7. /\ metrics.inFlight = Cardinality(Active)
      /\ metrics.requests = metrics.inFlight + metrics.succeeded + metrics.errors
      /\ metrics.received = metrics.stored + metrics.rejected + metrics.duplicated
      /\ IsFiniteSet(raw)
      /\ Cardinality(raw) = metrics.stored + Cardinality(EntriesOf(Unconfirmed))
    BY DEF MetricsInv
<1>8. /\ metrics.inFlight \in Nat /\ metrics.succeeded \in Nat /\ metrics.errors \in Nat
      /\ metrics.stored \in Nat /\ metrics.rejected \in Nat /\ metrics.duplicated \in Nat
      /\ metrics.received \in Nat /\ metrics.requests \in Nat
    BY DEF MetricsInv, MetricsType
<1>9. /\ metrics'.inFlight \in Nat /\ metrics'.succeeded \in Nat /\ metrics'.errors \in Nat
      /\ metrics'.stored \in Nat /\ metrics'.rejected \in Nat /\ metrics'.duplicated \in Nat
    BY <1>6 DEF MetricsType
<1>10. metrics'.inFlight = Cardinality(Active')
    BY <1>4, <1>6, <1>7, <1>8
<1>11. metrics'.requests = metrics'.inFlight + metrics'.succeeded + metrics'.errors
    BY <1>4, <1>6, <1>7, <1>8, <1>9
<1>12. metrics'.received = metrics'.stored + metrics'.rejected + metrics'.duplicated
    BY <1>6, <1>7
<1>13. Cardinality(raw') = metrics'.stored + Cardinality(EntriesOf(Unconfirmed'))
  <2>1. CASE call[c].status = 202
    <3>1. len \in Nat
        BY EntriesType DEF len
    <3>2. /\ metrics'.stored = metrics.stored + len
          /\ Cardinality(EntriesOf(Unconfirmed)) = Cardinality(EntriesOf(Unconfirmed')) + len
        BY <1>5, <1>6, <2>1
    <3> QED BY <1>1, <1>5, <1>7, <1>8, <3>1, <3>2
  <2>2. CASE call[c].status # 202
      BY <1>1, <1>5, <1>6, <1>7, <1>8, <2>2
  <2> QED BY <2>1, <2>2
<1>14. EntriesOf(Unconfirmed)' = EntriesOf(Unconfirmed')
    BY DEF EntriesOf
<1> QED BY <1>1, <1>4, <1>5, <1>6, <1>7, <1>10, <1>11, <1>12, <1>13, <1>14 DEF MetricsInv

LEMMA NextMetrics == IngestInv /\ MetricsInv /\ [Next]_vars => MetricsInv'
<1> SUFFICES ASSUME IngestInv, MetricsInv, [Next]_vars PROVE MetricsInv'
    OBVIOUS
<1>1. CASE UNCHANGED vars
    BY <1>1 DEF vars, MetricsInv, Active, Unconfirmed, Committed, EntriesOf
<1>2. ASSUME NEW c \in Calls, Arrive(c) \/ Step(c) \/ Fail(c) PROVE MetricsInv'
    BY <1>2, ArriveMetrics, MoveMetrics, CommitMetrics, FinishMetrics DEF Step
<1> QED BY <1>1, <1>2 DEF Next

\* One UUID takes effect once, in whatever spelling its calls send it: at most
\* one of them commits, the audit trail holds exactly its entries, the other
\* answers repeat its counts or refuse another payload or another spelling,
\* and the metrics account for every entry.
THEOREM OneEffect == Spec => []OneEffectPerRequest
<1>1. IngestInv => TypeOK
  <2> SUFFICES ASSUME IngestInv PROVE TypeOK
      OBVIOUS
  <2>1. \A i \in Ids : requests[i].status \in {"none", "completed"}
      BY DEF IngestInv, StateTyped, RowType
  <2>2. current \in [Keys -> PriceType]
      BY DEF IngestInv, StateTyped
  <2>3. \A c \in Calls : /\ call[c].pc \in Pcs /\ call[c].status \in Statuses
                         /\ DOMAIN call[c].writes \subseteq call[c].locks
                         /\ call[c].locks # {} => call[c].pc \in {"merging", "completed"}
      BY DEF IngestInv, StateTyped, CallType, Merged
  <2> QED BY <2>1, <2>2, <2>3 DEF TypeOK, Pcs, Statuses, Open
<1>2. IngestInv => RepliesAgree
  <2> SUFFICES ASSUME IngestInv, NEW c \in Committed, NEW d \in Calls, RequestId(c) = RequestId(d)
               PROVE  /\ call[d].duplicate =>
                            /\ Request(d).entries = Request(c).entries
                            /\ call[d].accepted = Len(Request(c).entries)
                            /\ call[c].status = 202 => call[d].touched = call[c].touched
                      /\ call[d].status = 409 => \/ Request(d).entries # Request(c).entries
                                                 \/ Request(d).id # Request(c).id
      BY DEF RepliesAgree
  <2>1. c \in Calls /\ call[c].committed
      BY DEF Committed
  <2>2. Answered(c, call[c]) /\ Answered(d, call[d])
      BY <2>1 DEF IngestInv
  <2>3. /\ requests[RequestId(c)].hash = Hash(c)
        /\ requests[RequestId(c)].accepted = Len(Request(c).entries)
        /\ call[c].status = 202 => call[c].touched = requests[RequestId(c)].touched
      BY <2>1, <2>2 DEF Answered
  <2>4. ASSUME call[d].duplicate
        PROVE  /\ Request(d).entries = Request(c).entries
               /\ call[d].accepted = Len(Request(c).entries)
               /\ call[c].status = 202 => call[d].touched = call[c].touched
    <3>1. /\ requests[RequestId(d)].hash = Hash(d)
          /\ call[d].accepted = requests[RequestId(d)].accepted
          /\ call[d].touched = requests[RequestId(d)].touched
        BY <2>2, <2>4 DEF Answered
    <3>2. Hash(d) = Hash(c)
        BY <2>3, <3>1
    <3>3. Request(d).entries = Request(c).entries
        BY <3>2 DEF Hash
    <3> QED BY <2>3, <3>1, <3>3
  <2>5. ASSUME call[d].status = 409, Request(d).entries = Request(c).entries,
               Request(d).id = Request(c).id
        PROVE  FALSE
    <3>1. Hash(d) # Hash(c) /\ d \in Sound
        BY <2>2, <2>3, <2>5 DEF Answered
    <3>2. Request(d).entries # <<>>
        BY <3>1 DEF Sound, Valid
    <3>3. Request(d).server = Request(c).server
        BY <2>1, <2>5, <3>2, ServerAssumption
    <3> QED BY <2>5, <3>1, <3>3 DEF Hash
  <2> QED BY <2>4, <2>5
<1>3. ASSUME IngestInv, NEW i \in Ids
      PROVE  LET winners == {c \in Committed : RequestId(c) = i} IN
             /\ Cardinality(winners) <= 1
             /\ {<<r[2], r[3]>> : r \in {x \in raw : x[1] = i}} =
                   UNION {{<<n, Request(c).entries[n]>> : n \in DOMAIN Request(c).entries} : c \in winners}
  <2> DEFINE winners == {c \in Committed : RequestId(c) = i}
             Shown == {<<r[2], r[3]>> : r \in {x \in raw : x[1] = i}}
             Sent(c) == {<<n, Request(c).entries[n]>> : n \in DOMAIN Request(c).entries}
  <2>1. \A c, d \in winners : c = d
      BY <1>3 DEF IngestInv, AllApart, Apart, Committed
  <2>2. Cardinality(winners) <= 1
    <3>1. CASE winners = {}
        BY <3>1, FS_EmptySet
    <3>2. CASE winners # {}
      <4>1. PICK c : c \in winners
          BY <3>2
      <4>2. winners = {c}
          BY <2>1, <4>1
      <4>3. Cardinality({c}) = 1
          BY FS_Singleton
      <4> HIDE DEF winners
      <4> QED BY <4>2, <4>3
    <3> QED BY <3>1, <3>2
  <2>3. ASSUME NEW p \in Shown PROVE \E c \in winners : p \in Sent(c)
    <3>1. PICK r \in raw : r[1] = i /\ p = <<r[2], r[3]>>
        BY <2>3
    <3>2. PICK c \in Committed : r \in RawOf(c)
        BY <1>3 DEF IngestInv, RawIsCommitted
    <3>3. PICK n \in DOMAIN Request(c).entries : r = <<RequestId(c), n, Request(c).entries[n]>>
        BY <3>2 DEF RawOf
    <3>4. r[1] = RequestId(c) /\ r[2] = n /\ r[3] = Request(c).entries[n]
        BY <3>3
    <3> QED BY <3>1, <3>4
  <2>4. ASSUME NEW c \in winners, NEW p \in Sent(c) PROVE p \in Shown
    <3>1. PICK n \in DOMAIN Request(c).entries : p = <<n, Request(c).entries[n]>>
        BY <2>4
    <3>2. PICK r : r = <<RequestId(c), n, Request(c).entries[n]>>
        OBVIOUS
    <3>3. r \in raw
        BY <1>3, <3>2 DEF IngestInv, RawIsCommitted, RawOf
    <3>4. r[1] = i /\ r[2] = n /\ r[3] = Request(c).entries[n]
        BY <3>2
    <3> QED BY <3>1, <3>3, <3>4
  <2>5. Shown = UNION {Sent(c) : c \in winners}
    <3> HIDE DEF Shown, Sent, winners
    <3> QED BY <2>3, <2>4
  <2> QED BY <2>2, <2>5
<1>4. MetricsInv => MetricsConserve
    BY DEF MetricsInv, MetricsConserve, EntriesOf, Unconfirmed
<1>5. IngestInv /\ MetricsInv => OneEffectPerRequest
    BY <1>1, <1>2, <1>3, <1>4 DEF OneEffectPerRequest
<1>6. Spec => []MetricsInv
    BY InitMetrics, NextMetrics, IngestInvariant, PTL DEF Spec
<1> QED BY <1>5, <1>6, IngestInvariant, PTL
=============================================================================
