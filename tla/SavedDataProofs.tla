-------------------------- MODULE SavedDataProofs --------------------------
(***************************************************************************)
(* Machine-checked safety of the saved data, for any calls and any limits:  *)
(* PresetInv is inductive and implies OneDefault and DefaultNotLost;        *)
(* LimitInv, inductive on top of it, implies ExcessOnlyByOverlap.           *)
(***************************************************************************)
EXTENDS SavedData, FiniteSetTheorems, TLAPS

Writers == {"create", "update"}

Pcs == {"new", "counting", "counted", "scanning", "clearing", "writing", "naming",
        "named", "written", "deleting", "done"}

Replies == {"none", "ok", "limit", "conflict", "404", "500"}

\* A preset that exists, or will, has one of these ids.
Ids == DOMAIN InitPresets \cup Calls

Rows == UNION {[D -> PresetType] : D \in SUBSET Ids}

CallType == [pc : Pcs, reply : Replies, scan : SUBSET Ids, writes : Rows, after : SUBSET Calls]

StateTyped ==
    /\ presets \in Rows
    /\ calcs \subseteq Calls
    /\ call \in [Calls -> CallType]

\* Where a call of each operation may be.
CallPlaced(c, r) ==
    /\ r.pc = "counting" => Input(c).op \in {"create", "save"}
    /\ r.pc = "counted" => Input(c).op = "save"
    /\ r.pc \in {"scanning", "clearing", "writing", "naming", "named", "written"} =>
          Input(c).op \in Writers
    /\ r.pc = "deleting" => Input(c).op \in {"delete", "drop"}
    /\ r.pc = "clearing" => Input(c).default

\* What the transaction r of c has written: rows it cleared for its own
\* default, and then its own row.
WritesShaped(c, r) ==
    /\ r.pc \notin {"writing", "naming", "named", "written"} => DOMAIN r.writes = {}
    /\ r.pc = "writing" => Target(c) \notin DOMAIN r.writes
    /\ r.pc = "clearing" => Target(c) \notin r.scan
    /\ r.pc \in {"writing", "naming", "named", "written"} =>
          \A i \in DOMAIN r.writes \ {Target(c)} :
              /\ i \in DOMAIN presets /\ Input(c).default
              /\ r.writes[i].name = presets[i].name /\ ~r.writes[i].default
    /\ r.pc \in {"naming", "named", "written"} =>
          /\ Target(c) \in DOMAIN r.writes /\ r.writes[Target(c)] = NewRow(c)
          /\ Input(c).op = "update" => Target(c) \in DOMAIN presets

\* The index entries r has made are in no committed row but its own and those
\* it clears.
IndexesFree(c, r) ==
    /\ r.pc \in {"named", "written"} =>
          \A i \in DOMAIN presets \ {Target(c)} : presets[i].name # Input(c).name
    /\ r.pc = "written" /\ Input(c).default =>
          \A i \in DOMAIN presets \ {Target(c)} : presets[i].default => i \in DOMAIN r.writes

\* What two open transactions never share: a row, a name, the default.
Apart(c, r, d, s) ==
    /\ DOMAIN r.writes \cap DOMAIN s.writes = {}
    /\ ~(/\ r.pc \in {"named", "written"} /\ s.pc \in {"named", "written"}
         /\ Input(c).name = Input(d).name)
    /\ ~(/\ r.pc = "written" /\ s.pc = "written"
         /\ Input(c).default /\ Input(d).default)

AllApart == \A c, d \in Calls : c # d => Apart(c, call[c], d, call[d])

\* A created row belongs to a call that has committed.
CreatedDone ==
    /\ \A c \in DOMAIN presets \cap Calls : call[c].pc = "done" /\ Input(c).op = "create"
    /\ \A c \in calcs : call[c].pc = "done" /\ Input(c).op = "save"

Unique ==
    \A i, j \in DOMAIN presets : i # j =>
        /\ ~(presets[i].default /\ presets[j].default)
        /\ presets[i].name # presets[j].name

\* The inductive invariant of the rows.
PresetInv ==
    /\ StateTyped
    /\ \A c \in Calls : /\ CallPlaced(c, call[c])
                        /\ WritesShaped(c, call[c])
                        /\ IndexesFree(c, call[c])
    /\ AllApart
    /\ CreatedDone
    /\ Unique

\* Calls that started later know more.
AfterOrdered ==
    \A c, d \in Calls : d \in call[c].after =>
        /\ call[d].pc = "done" /\ Input(d).op = Input(c).op
        /\ call[d].after \subseteq call[c].after

\* The presets that were there when a create with record r started, and the
\* calculations for a save.
OlderPresets(r) == {i \in DOMAIN presets : i \notin Calls \/ i \in r.after}
OlderCalcs(r) == calcs \cap r.after

Counted(c, r) ==
    /\ Input(c).op = "create" /\ r.pc \notin {"new", "counting"} /\ (r.pc = "done" => c \in DOMAIN presets) =>
          Cardinality(OlderPresets(r)) < PresetLimit
    /\ r.pc = "counted" \/ c \in calcs => Cardinality(OlderCalcs(r)) < CalculationLimit

\* The inductive invariant of the limits, on top of PresetInv.
LimitInv ==
    /\ IsFiniteSet(DOMAIN presets) /\ IsFiniteSet(calcs)
    /\ AfterOrdered
    /\ \A c \in Calls : Counted(c, call[c])

-----------------------------------------------------------------------------
(* The types.                                                               *)

\* What being a table of presets means.
LEMMA RowsUse ==
    ASSUME NEW f \in Rows
    PROVE  /\ DOMAIN f \subseteq Ids
           /\ \A i \in DOMAIN f : f[i] \in PresetType
<1>1. PICK D \in SUBSET Ids : f \in [D -> PresetType]
    BY DEF Rows
<1> QED BY <1>1

LEMMA RowsMake ==
    ASSUME NEW D, D \subseteq Ids, NEW f \in [D -> PresetType]
    PROVE  f \in Rows
<1>1. D \in SUBSET Ids OBVIOUS
<1> QED BY <1>1 DEF Rows

\* A call that has not started.
LEMMA NewCallType ==
    /\ NewCall \in CallType
    /\ NewCall.pc = "new" /\ DOMAIN NewCall.writes = {} /\ NewCall.after = {}
<1>1. [i \in {} |-> {}] \in [{} -> PresetType]
    OBVIOUS
<1>2. [i \in {} |-> {}] \in Rows
    BY <1>1, RowsMake
<1>3. DOMAIN [i \in {} |-> {}] = {}
    OBVIOUS
<1> DEFINE e == [i \in {} |-> {}]
<1> HIDE DEF e
<1>4. NewCall = [pc |-> "new", reply |-> "none", scan |-> {}, writes |-> e, after |-> {}]
    BY DEF NewCall, e
<1>5. e \in Rows /\ DOMAIN e = {}
    BY <1>2, <1>3 DEF e
<1> QED BY <1>4, <1>5 DEF CallType, Pcs, Replies

\* The record an answered call is left with.
Answered(reply, after) == [NewCall EXCEPT !.pc = "done", !.reply = reply, !.after = after]

LEMMA AnsweredType ==
    ASSUME NEW reply \in Replies, NEW after \in SUBSET Calls
    PROVE  /\ Answered(reply, after) \in CallType
           /\ Answered(reply, after).pc = "done"
           /\ Answered(reply, after).after = after
           /\ DOMAIN Answered(reply, after).writes = {}
<1>1. "done" \in Pcs
    BY DEF Pcs
<1> QED BY <1>1, NewCallType DEF Answered, CallType

\* The rows are in order at the start.
LEMMA InitPresetInv == Init => PresetInv
<1> SUFFICES ASSUME Init PROVE PresetInv
    OBVIOUS
<1> USE SavedDataAssumption
<1>1. NewCall \in CallType /\ NewCall.pc = "new" /\ DOMAIN NewCall.writes = {}
    BY NewCallType
<1>2. \A c \in Calls : call[c] = NewCall
    BY DEF Init
<1>3. StateTyped
  <2>1. presets \in Rows
      BY RowsMake DEF Init, Ids
  <2>2. call \in [Calls -> CallType]
      BY <1>1 DEF Init
  <2> QED BY <2>1, <2>2 DEF StateTyped, Init
<1>4. \A c \in Calls : CallPlaced(c, call[c]) /\ WritesShaped(c, call[c]) /\ IndexesFree(c, call[c])
    BY <1>1, <1>2 DEF CallPlaced, WritesShaped, IndexesFree
<1>5. AllApart
    BY <1>1, <1>2 DEF AllApart, Apart
<1>6. CreatedDone
    BY DEF CreatedDone, Init
<1>7. Unique
    BY StartAssumption DEF Unique, Init
<1> QED BY <1>3, <1>4, <1>5, <1>6, <1>7 DEF PresetInv

-----------------------------------------------------------------------------
(* Statements.                                                              *)

\* A step of one call that leaves the committed rows alone.
LEMMA StatementStep ==
    ASSUME PresetInv, NEW c \in Calls, NEW r \in CallType,
           call' = [call EXCEPT ![c] = r], UNCHANGED <<presets, calcs>>,
           call[c].pc # "done",
           CallPlaced(c, r), WritesShaped(c, r), IndexesFree(c, r),
           \A d \in Calls \ {c} : Apart(c, r, d, call[d])
    PROVE  PresetInv'
<1>1. StateTyped'
    BY DEF PresetInv, StateTyped
<1>2. call'[c] = r /\ \A d \in Calls : d # c => call'[d] = call[d]
    BY DEF PresetInv, StateTyped
<1>3. \A d \in Calls : CallPlaced(d, call'[d]) /\ WritesShaped(d, call'[d]) /\ IndexesFree(d, call'[d])
    BY <1>2 DEF PresetInv
<1>4. ASSUME NEW d \in Calls
      PROVE  /\ CallPlaced(d, call[d])' /\ WritesShaped(d, call[d])' /\ IndexesFree(d, call[d])'
  <2>1. CallPlaced(d, call[d])'
      BY <1>3 DEF CallPlaced
  <2>2. WritesShaped(d, call[d])'
      BY <1>3 DEF WritesShaped
  <2>3. IndexesFree(d, call[d])'
      BY <1>3 DEF IndexesFree
  <2> QED BY <2>1, <2>2, <2>3
<1>5. ASSUME NEW d \in Calls, NEW e \in Calls, d # e
      PROVE  Apart(d, call'[d], e, call'[e])
  <2>1. CASE d = c
      BY <1>2, <1>5, <2>1
  <2>2. CASE e = c
    <3>1. Apart(c, r, d, call[d])
        BY <1>5, <2>2
    <3>2. Apart(d, call[d], c, r)
        BY <3>1 DEF Apart
    <3> QED BY <1>2, <1>5, <2>2, <3>2
  <2>3. CASE d # c /\ e # c
      BY <1>2, <1>5, <2>3 DEF PresetInv, AllApart
  <2> QED BY <2>1, <2>2, <2>3
<1>6. AllApart'
    BY <1>5 DEF AllApart, Apart
<1>7. CreatedDone'
    BY <1>2 DEF PresetInv, StateTyped, CreatedDone
<1>8. Unique'
    BY DEF PresetInv, Unique
<1> QED BY <1>1, <1>4, <1>6, <1>7, <1>8 DEF PresetInv

\* Every statement that ends its transaction without a trace.
LEMMA AnswerStep ==
    ASSUME PresetInv, NEW c \in Calls, NEW reply \in Replies, call[c].pc # "done",
           Answer(c, reply), UNCHANGED <<presets, calcs>>
    PROVE  PresetInv'
<1> DEFINE r == Answered(reply, call[c].after)
<1>1. call[c].after \in SUBSET Calls
    BY DEF PresetInv, StateTyped, CallType
<1>2. r \in CallType /\ r.pc = "done" /\ DOMAIN r.writes = {}
    BY <1>1, AnsweredType
<1>3. call' = [call EXCEPT ![c] = r]
    BY DEF Answer, Answered
<1> HIDE DEF r
<1>4. CallPlaced(c, r) /\ WritesShaped(c, r) /\ IndexesFree(c, r)
    BY <1>2 DEF CallPlaced, WritesShaped, IndexesFree
<1>5. \A d \in Calls \ {c} : Apart(c, r, d, call[d])
    BY <1>2 DEF Apart
<1> QED BY <1>2, <1>3, <1>4, <1>5, StatementStep

\* A statement that only moves on, before anything is written.
LEMMA GotoStep ==
    ASSUME PresetInv, NEW c \in Calls, NEW p \in Pcs, NEW found \in SUBSET Ids, NEW after \in SUBSET Calls,
           call[c].pc # "done", DOMAIN call[c].writes = {},
           call' = [call EXCEPT ![c] = [call[c] EXCEPT !.pc = p, !.scan = found, !.after = after]],
           UNCHANGED <<presets, calcs>>,
           p \in {"counting", "counted", "scanning", "clearing", "writing", "deleting"},
           p = "counting" => Input(c).op \in {"create", "save"},
           p = "counted" => Input(c).op = "save",
           p \in {"scanning", "clearing", "writing"} => Input(c).op \in Writers,
           p = "deleting" => Input(c).op \in {"delete", "drop"},
           p = "clearing" => Input(c).default /\ Target(c) \notin found
    PROVE  PresetInv'
<1> DEFINE r == [call[c] EXCEPT !.pc = p, !.scan = found, !.after = after]
<1>1. call[c] \in CallType
    BY DEF PresetInv, StateTyped
<1>2. r \in CallType /\ r.pc = p /\ r.writes = call[c].writes /\ r.scan = found
    BY <1>1 DEF CallType
<1> HIDE DEF r
<1>3. CallPlaced(c, r) /\ WritesShaped(c, r) /\ IndexesFree(c, r)
    BY <1>2 DEF CallPlaced, WritesShaped, IndexesFree
<1>4. \A d \in Calls \ {c} : Apart(c, r, d, call[d])
    BY <1>2 DEF Apart
<1>5. call' = [call EXCEPT ![c] = r]
    BY DEF r
<1> QED BY <1>2, <1>3, <1>4, <1>5, StatementStep

LEMMA StartStep ==
    ASSUME PresetInv, NEW c \in Calls, Start(c)
    PROVE  PresetInv'
<1> DEFINE p == CASE Input(c).op \in {"create", "save"} -> "counting"
                  [] Input(c).op = "update" -> "scanning"
                  [] OTHER -> "deleting"
           after == {d \in Calls : Input(d).op = Input(c).op /\ call[d].pc = "done"}
<1>1. call[c] \in CallType /\ call[c].pc = "new" /\ DOMAIN call[c].writes = {}
    BY DEF PresetInv, StateTyped, WritesShaped, Start
<1>2. /\ p \in {"counting", "scanning", "deleting"}
      /\ p = "counting" => Input(c).op \in {"create", "save"}
      /\ p = "scanning" => Input(c).op \in Writers
      /\ p = "deleting" => Input(c).op \in {"delete", "drop"}
    BY SavedDataAssumption DEF Operations, Writers
<1>3. after \in SUBSET Calls
    OBVIOUS
<1>4. call' = [call EXCEPT ![c] = [call[c] EXCEPT !.pc = p, !.after = after]]
    BY DEF Start
<1> HIDE DEF p, after
<1>5. call' = [call EXCEPT ![c] = [call[c] EXCEPT !.pc = p, !.scan = call[c].scan, !.after = after]]
    BY <1>1, <1>4 DEF CallType
<1>6. call[c].scan \in SUBSET Ids /\ p \in Pcs
    BY <1>1, <1>2 DEF CallType, Pcs
<1>7. UNCHANGED <<presets, calcs>>
    BY DEF Start
<1> QED BY <1>1, <1>2, <1>3, <1>5, <1>6, <1>7, GotoStep

LEMMA CountStep ==
    ASSUME PresetInv, NEW c \in Calls, Count(c)
    PROVE  PresetInv'
<1>1. call[c] \in CallType /\ call[c].pc = "counting" /\ DOMAIN call[c].writes = {}
    BY DEF PresetInv, StateTyped, WritesShaped, Count
<1>2. UNCHANGED <<presets, calcs>>
    BY DEF Count
<1>3. CASE Answer(c, "limit")
  <2>1. "limit" \in Replies
      BY DEF Replies
  <2> QED BY <1>1, <1>2, <1>3, <2>1, AnswerStep
<1>4. CASE call' = [call EXCEPT ![c].pc = IF Input(c).op = "create" THEN "scanning" ELSE "counted"]
  <2> DEFINE p == IF Input(c).op = "create" THEN "scanning" ELSE "counted"
  <2>1. Input(c).op \in {"create", "save"}
      BY <1>1 DEF PresetInv, CallPlaced
  <2>2. /\ p \in {"scanning", "counted"} /\ p \in Pcs
        /\ p = "scanning" => Input(c).op \in Writers
        /\ p = "counted" => Input(c).op = "save"
      BY <2>1 DEF Pcs, Writers
  <2> HIDE DEF p
  <2>3. call' = [call EXCEPT ![c] = [call[c] EXCEPT !.pc = p, !.scan = call[c].scan, !.after = call[c].after]]
      BY <1>1, <1>4 DEF CallType, p
  <2>4. call[c].scan \in SUBSET Ids /\ call[c].after \in SUBSET Calls
      BY <1>1 DEF CallType
  <2> QED BY <1>1, <1>2, <2>2, <2>3, <2>4, GotoStep
<1> QED BY <1>3, <1>4 DEF Count

LEMMA ScanStep ==
    ASSUME PresetInv, NEW c \in Calls, ScanDefaults(c)
    PROVE  PresetInv'
<1> DEFINE found == IF Input(c).default
                    THEN {i \in DOMAIN presets \ {Target(c)} : presets[i].default}
                    ELSE call[c].scan
           p == IF Input(c).default THEN "clearing" ELSE "writing"
<1>1. call[c] \in CallType /\ call[c].pc = "scanning" /\ DOMAIN call[c].writes = {} /\ presets \in Rows
    BY DEF PresetInv, StateTyped, WritesShaped, ScanDefaults
<1>2. /\ p \in {"clearing", "writing"} /\ p \in Pcs
      /\ p = "clearing" => Input(c).default /\ Target(c) \notin found
    BY DEF Pcs
<1>3. found \in SUBSET Ids
    BY <1>1, RowsUse DEF CallType
<1>4. Input(c).op \in Writers
    BY <1>1 DEF PresetInv, CallPlaced
<1>5. call' = [call EXCEPT ![c] = [call[c] EXCEPT !.pc = p, !.scan = found, !.after = call[c].after]]
    BY <1>1 DEF CallType, ScanDefaults
<1> HIDE DEF found, p
<1>6. call[c].after \in SUBSET Calls
    BY <1>1 DEF CallType
<1>7. UNCHANGED <<presets, calcs>>
    BY DEF ScanDefaults
<1> QED BY <1>1, <1>2, <1>3, <1>4, <1>5, <1>6, <1>7, GotoStep

\* The cleared rows were locked by nobody else, and keep their names.
LEMMA ClearStep ==
    ASSUME PresetInv, NEW c \in Calls, ClearDefaults(c)
    PROVE  PresetInv'
<1> DEFINE rows == {i \in call[c].scan \cap DOMAIN presets : presets[i].default}
           w == [i \in rows |-> [presets[i] EXCEPT !.default = FALSE]]
           r == [call[c] EXCEPT !.pc = "writing", !.scan = {}, !.writes = w]
<1>1. call[c] \in CallType /\ call[c].pc = "clearing" /\ presets \in Rows
    BY DEF PresetInv, StateTyped, ClearDefaults
<1>2. Input(c).op \in Writers /\ Input(c).default /\ Target(c) \notin call[c].scan
    BY <1>1 DEF PresetInv, CallPlaced, WritesShaped
<1>3. \A i \in DOMAIN presets : presets[i] \in PresetType /\ i \in Ids
    BY <1>1, RowsUse
<1>4. \A i \in rows : /\ [presets[i] EXCEPT !.default = FALSE] \in PresetType
                      /\ [presets[i] EXCEPT !.default = FALSE].name = presets[i].name
                      /\ ~[presets[i] EXCEPT !.default = FALSE].default
    BY <1>3 DEF PresetType
<1>5. w \in [rows -> PresetType] /\ rows \subseteq Ids
    BY <1>3, <1>4
<1>6. w \in Rows
    BY <1>5, RowsMake
<1>7. DOMAIN w = rows /\ \A i \in DOMAIN w : w[i].name = presets[i].name /\ ~w[i].default
    BY <1>4
<1>8. \A d \in Calls \ {c} : call[c].scan \cap DOMAIN call[d].writes = {}
    BY <1>1 DEF ClearDefaults, Blockers, Locked
<1>9. rows \subseteq call[c].scan /\ rows \subseteq DOMAIN presets
    OBVIOUS
<1>10. call' = [call EXCEPT ![c] = r]
    BY DEF ClearDefaults
<1> HIDE DEF w, rows
<1>11. r \in CallType /\ r.pc = "writing" /\ r.writes = w
    BY <1>1, <1>6 DEF CallType, Pcs
<1> HIDE DEF r
<1>12. CallPlaced(c, r) /\ IndexesFree(c, r)
    BY <1>2, <1>11 DEF CallPlaced, IndexesFree
<1>13. WritesShaped(c, r)
    BY <1>2, <1>7, <1>9, <1>11 DEF WritesShaped
<1>14. \A d \in Calls \ {c} : Apart(c, r, d, call[d])
    BY <1>7, <1>8, <1>9, <1>11 DEF Apart
<1>15. UNCHANGED <<presets, calcs>> /\ call[c].pc # "done"
    BY <1>1 DEF ClearDefaults
<1> QED BY <1>10, <1>11, <1>12, <1>13, <1>14, <1>15, StatementStep

\* The row written was locked by nobody else.
LEMMA WriteStep ==
    ASSUME PresetInv, NEW c \in Calls, WriteRow(c)
    PROVE  PresetInv'
<1>1. call[c] \in CallType /\ call[c].pc = "writing" /\ presets \in Rows /\ call[c].pc # "done"
    BY DEF PresetInv, StateTyped, WriteRow
<1>2. Input(c).op \in Writers /\ Target(c) \notin DOMAIN call[c].writes
    BY <1>1 DEF PresetInv, CallPlaced, WritesShaped
<1>3. UNCHANGED <<presets, calcs>>
    BY DEF WriteRow, RowMissing
<1>4. CASE Input(c).op = "update" /\ Target(c) \notin DOMAIN presets
  <2>1. Answer(c, "404")
      BY <1>4 DEF WriteRow, RowMissing
  <2>2. "404" \in Replies
      BY DEF Replies
  <2> QED BY <1>1, <1>3, <2>1, <2>2, AnswerStep
<1>5. CASE ~(Input(c).op = "update" /\ Target(c) \notin DOMAIN presets)
  <2> DEFINE D == DOMAIN call[c].writes \cup {Target(c)}
             w == [i \in D |-> IF i = Target(c) THEN NewRow(c) ELSE call[c].writes[i]]
             r == [call[c] EXCEPT !.pc = "naming", !.writes = w]
  <2>1. call' = [call EXCEPT ![c] = r]
      BY <1>5 DEF WriteRow
  <2>2. call[c].writes \in Rows
      BY <1>1 DEF CallType
  <2>3. DOMAIN call[c].writes \subseteq Ids /\ \A i \in DOMAIN call[c].writes : call[c].writes[i] \in PresetType
      BY <2>2, RowsUse
  <2>4. DOMAIN presets \subseteq Ids
      BY <1>1, RowsUse
  <2>5. Target(c) \in Ids
      BY <1>2, <1>5, <2>4 DEF Target, Writers, Ids
  <2>6. NewRow(c) \in PresetType
      BY <1>2, SavedDataAssumption DEF NewRow, PresetType, Writers
  <2>7. w \in [D -> PresetType] /\ D \subseteq Ids
      BY <2>3, <2>5, <2>6
  <2>8. w \in Rows
      BY <2>7, RowsMake
  <2>9. /\ DOMAIN w = DOMAIN call[c].writes \cup {Target(c)}
        /\ w[Target(c)] = NewRow(c)
        /\ \A i \in DOMAIN w \ {Target(c)} : i \in DOMAIN call[c].writes /\ w[i] = call[c].writes[i]
      OBVIOUS
  <2> HIDE DEF w
  <2>10. r \in CallType /\ r.pc = "naming" /\ r.writes = w
      BY <1>1, <2>8 DEF CallType, Pcs
  <2> HIDE DEF r
  <2>11. CallPlaced(c, r) /\ IndexesFree(c, r)
      BY <1>2, <2>10 DEF CallPlaced, IndexesFree
  <2>12. \A i \in DOMAIN call[c].writes \ {Target(c)} :
            /\ i \in DOMAIN presets /\ Input(c).default
            /\ call[c].writes[i].name = presets[i].name /\ ~call[c].writes[i].default
      BY <1>1 DEF PresetInv, WritesShaped
  <2>13. WritesShaped(c, r)
      BY <1>2, <1>5, <2>9, <2>10, <2>12 DEF WritesShaped
  <2>14. \A d \in Calls \ {c} : Target(c) \notin DOMAIN call[d].writes
      BY <1>1 DEF WriteRow, Blockers, Locked
  <2>15. \A d \in Calls \ {c} : DOMAIN call[c].writes \cap DOMAIN call[d].writes = {}
      BY DEF PresetInv, AllApart, Apart
  <2>16. \A d \in Calls \ {c} : Apart(c, r, d, call[d])
      BY <2>9, <2>10, <2>14, <2>15 DEF Apart
  <2> QED BY <1>1, <1>3, <2>1, <2>10, <2>11, <2>13, <2>16, StatementStep
<1> QED BY <1>4, <1>5

\* What c sees of the committed rows: a row that is not its own keeps its
\* name, and is no default unless it was one.
LEMMA VisibleRows ==
    ASSUME PresetInv, NEW c \in Calls, call[c].pc \in {"naming", "named", "written"}
    PROVE  /\ DOMAIN Visible(c) = DOMAIN presets \cup {Target(c)}
           /\ Visible(c)[Target(c)] = NewRow(c)
           /\ \A i \in DOMAIN presets \ {Target(c)} :
                 /\ Visible(c)[i].name = presets[i].name
                 /\ Visible(c)[i].default <=> presets[i].default /\ i \notin Locked(c)
           /\ \A i \in DOMAIN presets \ Locked(c) : Visible(c)[i] = presets[i]
           /\ Visible(c) \in Rows
<1>1. call[c] \in CallType /\ presets \in Rows
    BY DEF PresetInv, StateTyped
<1>2. call[c].writes \in Rows
    BY <1>1 DEF CallType
<1>3. WritesShaped(c, call[c]) /\ CallPlaced(c, call[c])
    BY DEF PresetInv
<1>4. /\ Target(c) \in Locked(c) /\ call[c].writes[Target(c)] = NewRow(c)
      /\ \A i \in Locked(c) \ {Target(c)} :
            /\ i \in DOMAIN presets
            /\ call[c].writes[i].name = presets[i].name /\ ~call[c].writes[i].default
    BY <1>3 DEF WritesShaped, Locked
<1>5. DOMAIN Visible(c) = DOMAIN presets \cup {Target(c)}
    BY <1>4 DEF Visible
<1>6. Visible(c) \in [DOMAIN presets \cup Locked(c) -> PresetType]
    BY <1>1, <1>2, RowsUse DEF Visible, Locked
<1>7. DOMAIN presets \cup Locked(c) \subseteq Ids
    BY <1>1, <1>2, RowsUse DEF Locked
<1>8. Visible(c) \in Rows
    BY <1>6, <1>7, RowsMake
<1>9. Visible(c)[Target(c)] = NewRow(c)
    BY <1>4 DEF Visible
<1>10. \A i \in DOMAIN presets \ Locked(c) : Visible(c)[i] = presets[i]
    BY DEF Visible
<1>11. ASSUME NEW i \in DOMAIN presets \ {Target(c)}
       PROVE  /\ Visible(c)[i].name = presets[i].name
              /\ Visible(c)[i].default <=> presets[i].default /\ i \notin Locked(c)
  <2>1. CASE i \in Locked(c)
      BY <1>4, <2>1 DEF Visible
  <2>2. CASE i \notin Locked(c)
      BY <1>10, <2>2
  <2> QED BY <2>1, <2>2
<1> QED BY <1>5, <1>8, <1>9, <1>10, <1>11

\* An index entry is made when no committed row and no open transaction has it.
LEMMA IndexStep ==
    ASSUME PresetInv, NEW c \in Calls, EnterIndexes(c)
    PROVE  PresetInv'
<1>1. call[c] \in CallType /\ call[c].pc \in {"naming", "named"} /\ call[c].pc # "done"
    BY DEF PresetInv, StateTyped, EnterIndexes
<1>2. UNCHANGED <<presets, calcs>> /\ Blockers(c) = {}
    BY DEF EnterIndexes
<1>3. CASE Answer(c, "conflict")
  <2>1. "conflict" \in Replies
      BY DEF Replies
  <2> QED BY <1>1, <1>2, <1>3, <2>1, AnswerStep
<1>4. ASSUME NEW p \in {"named", "written"}, call' = [call EXCEPT ![c].pc = p],
             p = "named" => call[c].pc = "naming" /\ ~NameTaken(c),
             p = "written" => call[c].pc = "named" /\ ~DefaultTaken(c)
      PROVE  PresetInv'
  <2> DEFINE r == [call[c] EXCEPT !.pc = p]
  <2>1. call' = [call EXCEPT ![c] = r]
      BY <1>4
  <2>2. p \in Pcs
      BY DEF Pcs
  <2>3. r \in CallType /\ r.pc = p /\ r.writes = call[c].writes /\ r.scan = call[c].scan
      BY <1>1, <2>2 DEF CallType
  <2> HIDE DEF r
  <2>4. CallPlaced(c, r) /\ WritesShaped(c, r)
      BY <1>1, <2>3 DEF PresetInv, CallPlaced, WritesShaped
  <2>5. IndexesFree(c, r)
    <3>1. CASE p = "named"
      <4>1. \A i \in DOMAIN presets \ {Target(c)} : Visible(c)[i].name # Input(c).name
          BY <1>1, <1>4, <3>1, VisibleRows DEF NameTaken, OtherRows
      <4>2. \A i \in DOMAIN presets \ {Target(c)} : presets[i].name # Input(c).name
          BY <1>1, <4>1, VisibleRows
      <4> QED BY <2>3, <3>1, <4>2 DEF IndexesFree
    <3>2. CASE p = "written"
      <4>1. Input(c).default => \A i \in DOMAIN presets \ {Target(c)} : ~Visible(c)[i].default
          BY <1>1, <1>4, <3>2, VisibleRows DEF DefaultTaken, OtherRows
      <4>2. Input(c).default => \A i \in DOMAIN presets \ {Target(c)} : presets[i].default => i \in DOMAIN r.writes
          BY <1>1, <2>3, <4>1, VisibleRows DEF Locked
      <4>3. \A i \in DOMAIN presets \ {Target(c)} : presets[i].name # Input(c).name
          BY <1>4, <3>2 DEF PresetInv, IndexesFree
      <4> QED BY <2>3, <3>2, <4>2, <4>3 DEF IndexesFree
    <3> QED BY <3>1, <3>2
  <2>6. ASSUME NEW d \in Calls \ {c} PROVE Apart(c, r, d, call[d])
    <3>1. Apart(c, call[c], d, call[d])
        BY DEF PresetInv, AllApart
    <3>2. CASE p = "named"
      <4>1. ~NamePending(c, d)
          BY <1>2, <1>4, <3>2 DEF Blockers
      <4> QED BY <2>3, <3>1, <3>2, <4>1 DEF Apart, NamePending
    <3>3. CASE p = "written"
      <4>1. ~DefaultPending(c, d)
          BY <1>2, <1>4, <3>3 DEF Blockers
      <4> QED BY <1>4, <2>3, <3>1, <3>3, <4>1 DEF Apart, DefaultPending
    <3> QED BY <3>2, <3>3
  <2> QED BY <1>1, <1>2, <2>1, <2>3, <2>4, <2>5, <2>6, StatementStep
<1> QED BY <1>3, <1>4 DEF EnterIndexes

-----------------------------------------------------------------------------
(* Commits and deletes.                                                     *)

\* A step that ends c's transaction and changes the committed rows: no row
\* that another transaction has locked, and no index entry it has made.
LEMMA RowsStep ==
    ASSUME PresetInv, NEW c \in Calls, NEW reply \in Replies, Answer(c, reply),
           presets' \in Rows, calcs' \subseteq Calls, Unique',
           \A d \in calcs' \ calcs : d = c /\ Input(c).op = "save",
           \A d \in DOMAIN presets' \ DOMAIN presets : d \in Calls => d = c /\ Input(c).op = "create",
           \A d \in Calls \ {c} : \A i \in Locked(d) :
               i \in DOMAIN presets => i \in DOMAIN presets' /\ presets'[i] = presets[i],
           \A d \in Calls \ {c} : call[d].pc \in {"named", "written"} =>
               \A i \in DOMAIN presets' \ {Target(d)} : presets'[i].name # Input(d).name,
           \A d \in Calls \ {c} : call[d].pc = "written" /\ Input(d).default =>
               \A i \in DOMAIN presets' \ {Target(d)} : presets'[i].default => i \in Locked(d)
    PROVE  PresetInv'
<1> DEFINE r == Answered(reply, call[c].after)
<1>1. call[c].after \in SUBSET Calls
    BY DEF PresetInv, StateTyped, CallType
<1>2. r \in CallType /\ r.pc = "done" /\ DOMAIN r.writes = {}
    BY <1>1, AnsweredType
<1>3. call' = [call EXCEPT ![c] = r]
    BY DEF Answer, Answered
<1> HIDE DEF r
<1>4. call'[c] = r /\ \A d \in Calls : d # c => call'[d] = call[d]
    BY <1>3 DEF PresetInv, StateTyped
<1>5. StateTyped'
    BY <1>2, <1>3 DEF PresetInv, StateTyped
<1>6. ASSUME NEW d \in Calls
      PROVE  CallPlaced(d, call[d])' /\ WritesShaped(d, call[d])' /\ IndexesFree(d, call[d])'
  <2>1. CASE d = c
      BY <1>2, <1>4, <2>1 DEF CallPlaced, WritesShaped, IndexesFree
  <2>2. CASE d # c
    <3>1. CallPlaced(d, call[d])'
        BY <1>4, <2>2 DEF PresetInv, CallPlaced
    <3>2. WritesShaped(d, call[d])'
        BY <1>4, <2>2 DEF PresetInv, WritesShaped, Locked
    <3>3. IndexesFree(d, call[d])'
        BY <1>4, <2>2 DEF IndexesFree, Locked
    <3> QED BY <3>1, <3>2, <3>3
  <2> QED BY <2>1, <2>2
<1>7. ASSUME NEW d \in Calls, NEW e \in Calls, d # e
      PROVE  Apart(d, call'[d], e, call'[e])
  <2>1. CASE d = c \/ e = c
      BY <1>2, <1>4, <2>1 DEF Apart
  <2>2. CASE d # c /\ e # c
      BY <1>4, <1>7, <2>2 DEF PresetInv, AllApart
  <2> QED BY <2>1, <2>2
<1>8. AllApart'
    BY <1>7 DEF AllApart, Apart
<1>9. CreatedDone'
  <2>1. \A d \in DOMAIN presets' \cap Calls : call'[d].pc = "done" /\ Input(d).op = "create"
      BY <1>2, <1>4 DEF PresetInv, CreatedDone
  <2>2. \A d \in calcs' : call'[d].pc = "done" /\ Input(d).op = "save"
      BY <1>2, <1>4 DEF PresetInv, CreatedDone
  <2> QED BY <2>1, <2>2 DEF CreatedDone
<1> QED BY <1>5, <1>6, <1>8, <1>9 DEF PresetInv

\* The commit of a written preset: its name and its default are its own.
LEMMA CommitStep ==
    ASSUME PresetInv, NEW c \in Calls, Commit(c)
    PROVE  PresetInv'
<1>1. PICK reply \in Replies : Answer(c, reply)
    BY DEF Commit, Replies
<1>2. call[c] \in CallType /\ presets \in Rows /\ calcs \subseteq Calls
    BY DEF PresetInv, StateTyped
<1>3. CASE call[c].pc = "counted" /\ calcs' = calcs \cup {c} /\ UNCHANGED presets
  <2>1. Input(c).op = "save"
      BY <1>3 DEF PresetInv, CallPlaced
  <2>2. Unique'
      BY <1>3 DEF PresetInv, Unique
  <2>3. \A d \in Calls \ {c} : call[d].pc \in {"named", "written"} =>
            \A i \in DOMAIN presets' \ {Target(d)} : presets'[i].name # Input(d).name
      BY <1>3 DEF PresetInv, IndexesFree
  <2>4. \A d \in Calls \ {c} : call[d].pc = "written" /\ Input(d).default =>
            \A i \in DOMAIN presets' \ {Target(d)} : presets'[i].default => i \in Locked(d)
      BY <1>3 DEF PresetInv, IndexesFree, Locked
  <2> QED BY <1>1, <1>2, <1>3, <2>1, <2>2, <2>3, <2>4, RowsStep
<1>4. CASE call[c].pc = "written" /\ presets' = Visible(c) /\ UNCHANGED calcs
  <2> DEFINE P == Visible(c)
  <2>1. /\ DOMAIN P = DOMAIN presets \cup {Target(c)}
        /\ P[Target(c)] = NewRow(c)
        /\ P \in Rows
        /\ \A i \in DOMAIN presets \ {Target(c)} :
              /\ P[i].name = presets[i].name
              /\ P[i].default <=> presets[i].default /\ i \notin Locked(c)
        /\ \A i \in DOMAIN presets \ Locked(c) : P[i] = presets[i]
      BY <1>4, VisibleRows
  <2>1a. P[Target(c)].name = Input(c).name /\ (P[Target(c)].default <=> Input(c).default)
      BY <2>1 DEF NewRow
  <2>2. /\ \A i \in DOMAIN presets \ {Target(c)} : presets[i].name # Input(c).name
        /\ Input(c).default => \A i \in DOMAIN presets \ {Target(c)} : presets[i].default => i \in Locked(c)
      BY <1>4 DEF PresetInv, IndexesFree, Locked
  <2>3. \A d \in Calls \ {c} : Apart(c, call[c], d, call[d])
      BY DEF PresetInv, AllApart
  <2>4. presets' = P
      BY <1>4
  <2> HIDE DEF P
  <2>5. \A i, j \in DOMAIN P : i # j => P[i].name # P[j].name
    <3> SUFFICES ASSUME NEW i \in DOMAIN P, NEW j \in DOMAIN P, i # j PROVE P[i].name # P[j].name
        OBVIOUS
    <3>1. CASE i # Target(c) /\ j # Target(c)
        BY <2>1, <3>1 DEF PresetInv, Unique
    <3>2. CASE i = Target(c) \/ j = Target(c)
        BY <2>1a, <2>1, <2>2, <3>2
    <3> QED BY <3>1, <3>2
  <2>6. \A i, j \in DOMAIN P : i # j => ~(P[i].default /\ P[j].default)
    <3> SUFFICES ASSUME NEW i \in DOMAIN P, NEW j \in DOMAIN P, i # j, P[i].default, P[j].default
                 PROVE FALSE
        OBVIOUS
    <3>1. CASE i # Target(c) /\ j # Target(c)
        BY <2>1, <3>1 DEF PresetInv, Unique
    <3>2. CASE i = Target(c)
        BY <2>1a, <2>1, <2>2, <3>2
    <3>3. CASE j = Target(c)
        BY <2>1a, <2>1, <2>2, <3>3
    <3> QED BY <3>1, <3>2, <3>3
  <2>7. Unique'
      BY <2>4, <2>5, <2>6 DEF Unique
  <2>8. \A d \in DOMAIN presets' \ DOMAIN presets : d \in Calls => d = c /\ Input(c).op = "create"
    <3>1. Input(c).op = "update" => Target(c) \in DOMAIN presets
        BY <1>4 DEF PresetInv, WritesShaped
    <3>2. Input(c).op \in Writers
        BY <1>4 DEF PresetInv, CallPlaced
    <3> QED BY <2>1, <2>4, <3>1, <3>2 DEF Target, Writers
  <2>9. \A d \in Calls \ {c} : \A i \in Locked(d) :
            i \in DOMAIN presets => i \in DOMAIN presets' /\ presets'[i] = presets[i]
      BY <2>1, <2>3, <2>4 DEF Apart, Locked
  <2>10. \A d \in Calls \ {c} : call[d].pc \in {"named", "written"} =>
            \A i \in DOMAIN presets' \ {Target(d)} : presets'[i].name # Input(d).name
    <3> SUFFICES ASSUME NEW d \in Calls \ {c}, call[d].pc \in {"named", "written"},
                        NEW i \in DOMAIN P, i # Target(d)
                 PROVE  P[i].name # Input(d).name
        BY <2>4
    <3>1. CASE i = Target(c)
        BY <1>4, <2>1a, <2>1, <2>3, <3>1 DEF Apart
    <3>2. CASE i # Target(c)
      <4>1. \A k \in DOMAIN presets \ {Target(d)} : presets[k].name # Input(d).name
          BY DEF PresetInv, IndexesFree
      <4> QED BY <2>1, <3>2, <4>1
    <3> QED BY <3>1, <3>2
  <2>11. \A d \in Calls \ {c} : call[d].pc = "written" /\ Input(d).default =>
            \A i \in DOMAIN presets' \ {Target(d)} : presets'[i].default => i \in Locked(d)
    <3> SUFFICES ASSUME NEW d \in Calls \ {c}, call[d].pc = "written", Input(d).default,
                        NEW i \in DOMAIN P, i # Target(d), P[i].default
                 PROVE  i \in Locked(d)
        BY <2>4
    <3>1. i # Target(c)
        BY <1>4, <2>1a, <2>1, <2>3 DEF Apart
    <3>2. \A k \in DOMAIN presets \ {Target(d)} : presets[k].default => k \in Locked(d)
        BY DEF PresetInv, IndexesFree, Locked
    <3> QED BY <2>1, <3>1, <3>2
  <2> QED BY <1>1, <1>2, <1>4, <2>1, <2>4, <2>7, <2>8, <2>9, <2>10, <2>11, RowsStep
<1> QED BY <1>3, <1>4 DEF Commit

\* A deleted row was locked by nobody.
LEMMA DeleteStep ==
    ASSUME PresetInv, NEW c \in Calls, Delete(c)
    PROVE  PresetInv'
<1>1. PICK reply \in Replies : Answer(c, reply)
    BY DEF Delete, Replies
<1>2. presets \in Rows /\ calcs \subseteq Calls
    BY DEF PresetInv, StateTyped
<1>3. call[c].pc = "deleting" /\ Input(c).op \in {"delete", "drop"}
    BY DEF Delete, PresetInv, CallPlaced
<1>4. \A d \in Calls \ {c} : Input(c).id \notin Locked(d)
    BY <1>3 DEF Delete, Blockers, Target
<1>5. /\ \A i \in DOMAIN presets' : i \in DOMAIN presets /\ presets'[i] = presets[i]
      /\ \A i \in DOMAIN presets \ {Input(c).id} : i \in DOMAIN presets'
      /\ presets' \in [DOMAIN presets' -> PresetType]
  <2>1. CASE Input(c).op = "delete"
      BY <1>2, <2>1, RowsUse DEF Delete
  <2>2. CASE Input(c).op = "drop"
    <3>1. presets' = presets
        BY <2>2 DEF Delete
    <3>2. PICK D \in SUBSET Ids : presets \in [D -> PresetType]
        BY <1>2 DEF Rows
    <3> QED BY <3>1, <3>2
  <2> QED BY <1>3, <2>1, <2>2
<1>6. presets' \in Rows
  <2>1. DOMAIN presets' \subseteq Ids
      BY <1>2, <1>5, RowsUse
  <2> QED BY <1>5, <2>1, RowsMake
<1>7. calcs' \subseteq calcs
    BY DEF Delete
<1>8. Unique'
    BY <1>5 DEF PresetInv, Unique
<1>9. \A d \in Calls \ {c} : call[d].pc \in {"named", "written"} =>
          \A i \in DOMAIN presets' \ {Target(d)} : presets'[i].name # Input(d).name
    BY <1>5 DEF PresetInv, IndexesFree
<1>10. \A d \in Calls \ {c} : call[d].pc = "written" /\ Input(d).default =>
          \A i \in DOMAIN presets' \ {Target(d)} : presets'[i].default => i \in Locked(d)
    BY <1>5 DEF PresetInv, IndexesFree, Locked
<1> QED BY <1>1, <1>2, <1>4, <1>5, <1>6, <1>7, <1>8, <1>9, <1>10, RowsStep

LEMMA NextPresetInv == PresetInv /\ [Next]_vars => PresetInv'
<1> SUFFICES ASSUME PresetInv, [Next]_vars PROVE PresetInv'
    OBVIOUS
<1>1. CASE UNCHANGED vars
  <2>1. StateTyped' /\ AllApart' /\ CreatedDone' /\ Unique'
      BY <1>1 DEF vars, PresetInv, StateTyped, AllApart, Apart, CreatedDone, Unique
  <2>2. ASSUME NEW c \in Calls
        PROVE  CallPlaced(c, call[c])' /\ WritesShaped(c, call[c])' /\ IndexesFree(c, call[c])'
    <3>1. CallPlaced(c, call[c]) /\ WritesShaped(c, call[c]) /\ IndexesFree(c, call[c])
        BY DEF PresetInv
    <3> QED BY <1>1, <3>1 DEF vars, CallPlaced, WritesShaped, IndexesFree
  <2> QED BY <2>1, <2>2 DEF PresetInv
<1>2. ASSUME NEW c \in Calls, Fail(c) PROVE PresetInv'
  <2>1. "500" \in Replies
      BY DEF Replies
  <2> QED BY <1>2, <2>1, AnswerStep DEF Fail
<1>3. ASSUME NEW c \in Calls, Start(c) \/ Step(c) PROVE PresetInv'
    BY <1>2, <1>3, StartStep, CountStep, ScanStep, ClearStep, WriteStep, IndexStep, CommitStep, DeleteStep
       DEF Step, DeadlockVictim
<1> QED BY <1>1, <1>2, <1>3 DEF Next

\* The rows, the open transactions and the index entries they have made stay
\* consistent, however the calls overlap.
THEOREM PresetInvariant == Spec => []PresetInv
<1> QED BY InitPresetInv, NextPresetInv, PTL DEF Spec

\* A user never has two default presets, two presets of one name, or two
\* transactions that have the same row locked.
THEOREM DefaultOnce == Spec => []OneDefault
<1>1. PresetInv => OneDefault
  <2> SUFFICES ASSUME PresetInv PROVE OneDefault
      OBVIOUS
  <2>1. \A i \in DOMAIN presets : presets[i] \in PresetType
      BY RowsUse DEF PresetInv, StateTyped
  <2>2. calcs \subseteq Calls /\ \A c \in Calls : call[c].pc \in Pcs /\ call[c].reply \in Replies
      BY DEF PresetInv, StateTyped, CallType
  <2>3. \A c \in Calls : \A d \in Calls \ {c} : Locked(c) \cap Locked(d) = {}
      BY DEF PresetInv, AllApart, Apart, Locked
  <2>4. TypeOK
      BY <2>1, <2>2, <2>3 DEF TypeOK, Pcs, Replies
  <2> QED BY <2>4 DEF OneDefault, PresetInv, Unique
<1> QED BY <1>1, PresetInvariant, PTL

\* A user who has a default keeps one until it is deleted, or updated to be
\* none: what a call clears for its own default is rolled back with it.
THEOREM DefaultKept == Spec => DefaultNotLost
<1>1. PresetInv /\ [Next]_vars => [HasDefault /\ ~HasDefault' =>
          \E c \in Calls : /\ Input(c).op = "delete" \/ (Input(c).op = "update" /\ ~Input(c).default)
                           /\ Input(c).id \in DOMAIN presets /\ presets[Input(c).id].default
                           /\ call'[c].pc = "done" /\ call[c].pc # "done"]_vars
  <2> SUFFICES ASSUME PresetInv, Next, HasDefault, ~HasDefault'
               PROVE  \E c \in Calls : /\ Input(c).op = "delete" \/ (Input(c).op = "update" /\ ~Input(c).default)
                                       /\ Input(c).id \in DOMAIN presets /\ presets[Input(c).id].default
                                       /\ call'[c].pc = "done" /\ call[c].pc # "done"
      OBVIOUS
  <2>1. presets' # presets
      BY DEF HasDefault
  <2>2. PICK c \in Calls : Commit(c) \/ Delete(c)
      BY <2>1 DEF Next, Start, Step, Count, ScanDefaults, ClearDefaults, WriteRow, RowMissing, EnterIndexes,
                  DeadlockVictim, Fail
  <2>3. PICK i \in DOMAIN presets : presets[i].default
      BY DEF HasDefault
  <2>4. call'[c].pc = "done" /\ call[c].pc # "done"
    <3>1. PICK reply \in Replies : Answer(c, reply)
        BY <2>2 DEF Commit, Delete, Replies
    <3>2. call[c].after \in SUBSET Calls /\ c \in DOMAIN call
        BY DEF PresetInv, StateTyped, CallType
    <3>3. call'[c] = Answered(reply, call[c].after)
        BY <3>1, <3>2 DEF Answer, Answered
    <3> QED BY <2>2, <3>2, <3>3, AnsweredType DEF Commit, Delete
  <2>5. CASE Delete(c)
    <3>1. Input(c).op = "delete"
        BY <2>1, <2>5 DEF Delete
    <3>2. i = Input(c).id
        BY <2>3, <2>5, <3>1 DEF Delete, HasDefault
    <3> QED BY <2>3, <2>4, <3>1, <3>2
  <2>6. CASE Commit(c)
    <3>1. call[c].pc = "written" /\ presets' = Visible(c)
        BY <2>1, <2>6 DEF Commit
    <3>2. DOMAIN Visible(c) = DOMAIN presets \cup {Target(c)} /\ Visible(c)[Target(c)] = NewRow(c)
        BY <3>1, VisibleRows
    <3>3. ~Input(c).default
        BY <3>1, <3>2 DEF HasDefault, NewRow
    <3>4. Locked(c) \ {Target(c)} = {}
        BY <3>1, <3>3 DEF PresetInv, WritesShaped, Locked
    <3>5. i = Target(c)
        BY <2>3, <3>1, <3>2, <3>4, VisibleRows DEF HasDefault
    <3>6. Input(c).op \in Writers
        BY <3>1 DEF PresetInv, CallPlaced
    <3>7. Input(c).op = "update"
        BY <2>3, <3>1, <3>5, <3>6 DEF PresetInv, CreatedDone, Target, Writers
    <3> QED BY <2>3, <2>4, <3>3, <3>5, <3>7 DEF Target
  <2> QED BY <2>2, <2>5, <2>6
<1> QED BY <1>1, PresetInvariant, PTL DEF Spec, DefaultNotLost

-----------------------------------------------------------------------------
(* The limits.                                                              *)

\* A finite family of finite sets has a member that contains no other.
LEMMA FiniteMinimal ==
    ASSUME NEW S, IsFiniteSet(S), NEW T, T \subseteq SUBSET S, T # {}
    PROVE  \E X \in T : \A Y \in T : Y \subseteq X => Y = X
<1>1. T \subseteq FiniteSubsetsOf(S)
    BY FS_Subset DEF FiniteSubsetsOf
<1>2. PICK X \in T : \A Y \in T : ~ (<<Y, X>> \in StrictSubsetOrdering(S))
    BY <1>1, WFMin, FS_StrictSubsetOrderingWellFounded
<1>3. ASSUME NEW Y \in T, Y \subseteq X, Y # X PROVE FALSE
    BY <1>2, <1>3 DEF StrictSubsetOrdering
<1> QED BY <1>3

\* A finite set with a total and transitive relation has a greatest element.
LEMMA FiniteMaximum ==
    ASSUME NEW S, IsFiniteSet(S), S # {}, NEW R,
           \A x, y \in S : <<x, y>> \in R \/ <<y, x>> \in R,
           \A x, y, z \in S : <<x, y>> \in R /\ <<y, z>> \in R => <<x, z>> \in R
    PROVE  \E m \in S : \A x \in S : <<x, m>> \in R
<1> DEFINE Up(m) == {x \in S : <<m, x>> \in R}
           T == {Up(m) : m \in S}
<1>1. T # {} /\ T \subseteq SUBSET S
    OBVIOUS
<1>2. PICK X \in T : \A Y \in T : Y \subseteq X => Y = X
  <2> HIDE DEF T
  <2> QED BY <1>1, FiniteMinimal
<1>3. PICK m \in S : X = Up(m)
    OBVIOUS
<1>4. ASSUME NEW x \in S PROVE <<x, m>> \in R
  <2>1. CASE <<m, x>> \in R
    <3>1. Up(x) \subseteq Up(m)
        BY <2>1
    <3>2. Up(x) \in T
        OBVIOUS
    <3>3. Up(x) = Up(m)
        BY <1>2, <1>3, <3>1, <3>2
    <3>4. m \in Up(m)
        OBVIOUS
    <3> QED BY <3>3, <3>4
  <2> QED BY <2>1
<1> QED BY <1>4

\* Among creates that did not overlap one started after all the others had
\* been answered.
LEMMA LastOne ==
    ASSUME PresetInv, AfterOrdered, NEW S, S \subseteq Calls, IsFiniteSet(S), S # {}, ~Excess(S)
    PROVE  \E m \in S : \A x \in S : x = m \/ x \in call[m].after
<1> DEFINE R == {p \in S \X S : p[1] = p[2] \/ p[1] \in call[p[2]].after}
<1>1. \A x, y \in S : <<x, y>> \in R <=> x = y \/ x \in call[y].after
    OBVIOUS
<1> HIDE DEF R
<1>2. \A x, y \in S : <<x, y>> \in R \/ <<y, x>> \in R
    BY <1>1 DEF Excess, Overlap
<1>3. \A x, y, z \in S : <<x, y>> \in R /\ <<y, z>> \in R => <<x, z>> \in R
    BY <1>1 DEF AfterOrdered
<1>4. PICK m \in S : \A x \in S : <<x, m>> \in R
    BY <1>2, <1>3, FiniteMaximum
<1> QED BY <1>1, <1>4

\* So the others were there when it was counted.
LEMMA LastCounts ==
    ASSUME NEW S, IsFiniteSet(S), NEW m \in S, NEW O, S \ {m} \subseteq O, IsFiniteSet(O),
           NEW limit \in Int, Cardinality(O) < limit
    PROVE  Cardinality(S) <= limit
<1>1. IsFiniteSet(S \ {m}) /\ Cardinality(S \ {m}) = Cardinality(S) - 1
    BY FS_RemoveElement
<1>2. Cardinality(S \ {m}) <= Cardinality(O)
    BY FS_Subset
<1>3. Cardinality(S) \in Nat /\ Cardinality(O) \in Nat
    BY FS_CardinalityType
<1> QED BY <1>1, <1>2, <1>3

\* LimitInv says what the run checks.
LEMMA LimitInvImplies == PresetInv /\ LimitInv => ExcessOnlyByOverlap
<1> SUFFICES ASSUME PresetInv, LimitInv PROVE ExcessOnlyByOverlap
    OBVIOUS
<1>1. ASSUME ~Excess(DOMAIN presets) PROVE Cardinality(DOMAIN presets) <= PresetLimit
  <2> DEFINE S == DOMAIN presets \cap Calls
  <2>1. CASE S = {}
    <3>1. DOMAIN presets \subseteq DOMAIN InitPresets
        BY <2>1, RowsUse DEF PresetInv, StateTyped, Ids
    <3>2. Cardinality(DOMAIN presets) <= Cardinality(DOMAIN InitPresets)
        BY <3>1, StartAssumption, FS_Subset
    <3>3. Cardinality(DOMAIN presets) \in Nat /\ Cardinality(DOMAIN InitPresets) \in Nat
        BY StartAssumption, FS_CardinalityType DEF LimitInv
    <3> QED BY <3>2, <3>3, StartAssumption, SavedDataAssumption
  <2>2. CASE S # {}
    <3>1. IsFiniteSet(S) /\ ~Excess(S)
        BY <1>1, FS_Subset DEF LimitInv, Excess
    <3> HIDE DEF S
    <3>2. PICK m \in S : \A x \in S : x = m \/ x \in call[m].after
        BY <2>2, <3>1, LastOne DEF LimitInv, S
    <3>3. m \in Calls /\ m \in DOMAIN presets /\ DOMAIN presets \cap Calls = S
        BY DEF S
    <3>4. Input(m).op = "create" /\ call[m].pc = "done"
        BY <3>3 DEF PresetInv, CreatedDone
    <3>5. Cardinality(OlderPresets(call[m])) < PresetLimit
        BY <3>3, <3>4 DEF LimitInv, Counted
    <3>6. DOMAIN presets \ {m} \subseteq OlderPresets(call[m]) /\ OlderPresets(call[m]) \subseteq DOMAIN presets
        BY <3>2, <3>3 DEF OlderPresets
    <3>7. IsFiniteSet(DOMAIN presets) /\ IsFiniteSet(OlderPresets(call[m]))
        BY <3>6, FS_Subset DEF LimitInv
    <3> QED BY <3>3, <3>5, <3>6, <3>7, LastCounts, SavedDataAssumption
  <2> QED BY <2>1, <2>2
<1>2. ASSUME ~Excess(calcs) PROVE Cardinality(calcs) <= CalculationLimit
  <2>1. CASE calcs = {}
      BY <2>1, FS_EmptySet, StartAssumption, SavedDataAssumption
  <2>2. CASE calcs # {}
    <3>1. IsFiniteSet(calcs) /\ calcs \subseteq Calls
        BY DEF LimitInv, PresetInv, StateTyped
    <3>2. PICK m \in calcs : \A x \in calcs : x = m \/ x \in call[m].after
        BY <1>2, <2>2, <3>1, LastOne DEF LimitInv
    <3>3. Cardinality(OlderCalcs(call[m])) < CalculationLimit
        BY <3>1 DEF LimitInv, Counted
    <3>4. calcs \ {m} \subseteq OlderCalcs(call[m]) /\ OlderCalcs(call[m]) \subseteq calcs
        BY <3>2 DEF OlderCalcs
    <3>5. IsFiniteSet(OlderCalcs(call[m]))
        BY <3>1, <3>4, FS_Subset
    <3> QED BY <3>1, <3>3, <3>4, <3>5, LastCounts, SavedDataAssumption
  <2> QED BY <2>1, <2>2
<1>3. Cardinality(DOMAIN presets) \in Nat /\ Cardinality(calcs) \in Nat
    BY FS_CardinalityType DEF LimitInv
<1> QED BY <1>1, <1>2, <1>3, SavedDataAssumption DEF ExcessOnlyByOverlap

\* What a step of c leaves alone.
LEMMA StepShape ==
    ASSUME PresetInv, NEW c \in Calls, Start(c) \/ Step(c) \/ Fail(c)
    PROVE  /\ call[c].pc # "done"
           /\ \A d \in Calls \ {c} : call'[d] = call[d]
           /\ DOMAIN presets' \subseteq DOMAIN presets \cup {c} /\ calcs' \subseteq calcs \cup {c}
           /\ ~Start(c) => call'[c].after = call[c].after
<1>1. call \in [Calls -> CallType] /\ call[c].after \in SUBSET Calls
    BY DEF PresetInv, StateTyped, CallType
<1>2. ASSUME NEW reply \in Replies, Answer(c, reply)
      PROVE  /\ \A d \in Calls \ {c} : call'[d] = call[d]
             /\ call'[c].after = call[c].after
  <2>1. call' = [call EXCEPT ![c] = Answered(reply, call[c].after)]
      BY <1>2 DEF Answer, Answered
  <2> QED BY <1>1, <2>1, AnsweredType
<1>3. {"ok", "limit", "conflict", "404", "500"} \subseteq Replies
    BY DEF Replies
<1>4. CASE Start(c)
    BY <1>1, <1>4 DEF Start
<1>5. CASE Count(c)
    BY <1>1, <1>2, <1>3, <1>5 DEF Count, CallType
<1>6. CASE ScanDefaults(c)
    BY <1>1, <1>6 DEF ScanDefaults, CallType
<1>7. CASE ClearDefaults(c)
    BY <1>1, <1>7 DEF ClearDefaults, CallType
<1>8. CASE WriteRow(c)
    BY <1>1, <1>2, <1>3, <1>8 DEF WriteRow, RowMissing, CallType
<1>9. CASE EnterIndexes(c)
    BY <1>1, <1>2, <1>3, <1>9 DEF EnterIndexes, CallType
<1>10. CASE Commit(c)
  <2>1. PICK reply \in Replies : Answer(c, reply)
      BY <1>3, <1>10 DEF Commit
  <2>2. call[c].pc = "written" => DOMAIN Visible(c) \subseteq DOMAIN presets \cup {c}
    <3> HAVE call[c].pc = "written"
    <3>1. Input(c).op \in Writers /\ (Input(c).op = "update" => Target(c) \in DOMAIN presets)
        BY DEF PresetInv, CallPlaced, WritesShaped
    <3> QED BY <3>1, VisibleRows DEF Target, Writers
  <2> QED BY <1>2, <1>10, <2>1, <2>2 DEF Commit
<1>11. CASE Delete(c)
  <2>1. PICK reply \in Replies : Answer(c, reply)
      BY <1>3, <1>11 DEF Delete
  <2>2. DOMAIN presets' \subseteq DOMAIN presets /\ calcs' \subseteq calcs
      BY <1>11 DEF Delete
  <2> QED BY <1>2, <1>11, <2>1, <2>2 DEF Delete
<1>12. CASE Fail(c)
    BY <1>2, <1>3, <1>12 DEF Fail
<1> QED BY <1>4, <1>5, <1>6, <1>7, <1>8, <1>9, <1>10, <1>11, <1>12 DEF Step, DeadlockVictim

\* Where a step leaves c: a create or a save passes its count once, and is
\* answered with a row only by its commit.
LEMMA CountShape ==
    ASSUME PresetInv, NEW c \in Calls, Step(c) \/ Fail(c)
    PROVE  /\ Input(c).op = "create" /\ call'[c].pc \notin {"new", "counting"}
                /\ (call'[c].pc = "done" => c \in DOMAIN presets') =>
                 \/ call[c].pc \notin {"new", "counting", "done"}
                 \/ UNCHANGED presets /\ ~LimitReached(Cardinality(DOMAIN presets), PresetLimit)
           /\ call'[c].pc = "counted" \/ c \in calcs' =>
                 \/ call[c].pc = "counted"
                 \/ UNCHANGED calcs /\ ~LimitReached(Cardinality(calcs), CalculationLimit)
<1>1. call \in [Calls -> CallType] /\ call[c].after \in SUBSET Calls /\ CallPlaced(c, call[c])
    BY DEF PresetInv, StateTyped, CallType
<1>2. call[c].pc # "done" /\ c \notin DOMAIN presets /\ c \notin calcs
  <2>1. call[c].pc # "done"
      BY StepShape
  <2> QED BY <2>1 DEF PresetInv, CreatedDone
<1>3. ASSUME NEW reply \in Replies, Answer(c, reply) PROVE call'[c].pc = "done"
  <2>1. call' = [call EXCEPT ![c] = Answered(reply, call[c].after)]
      BY <1>3 DEF Answer, Answered
  <2> QED BY <1>1, <2>1, AnsweredType
<1>4. {"ok", "limit", "conflict", "404", "500"} \subseteq Replies
    BY DEF Replies
<1>5. CASE Count(c)
  <2>1. CASE Answer(c, "limit")
      BY <1>2, <1>3, <1>4, <1>5, <2>1 DEF Count
  <2>2. CASE ~Answer(c, "limit")
    <3>1. /\ Input(c).op = "create" => ~LimitReached(Cardinality(DOMAIN presets), PresetLimit)
          /\ Input(c).op # "create" => ~LimitReached(Cardinality(calcs), CalculationLimit)
          /\ call' = [call EXCEPT ![c].pc = IF Input(c).op = "create" THEN "scanning" ELSE "counted"]
          /\ UNCHANGED <<presets, calcs>>
        BY <1>5, <2>2 DEF Count
    <3>2. call'[c].pc = IF Input(c).op = "create" THEN "scanning" ELSE "counted"
        BY <1>1, <3>1 DEF CallType
    <3> QED BY <1>2, <3>1, <3>2
  <2> QED BY <2>1, <2>2
<1>6. CASE ScanDefaults(c)
    BY <1>1, <1>2, <1>6 DEF ScanDefaults, CallType
<1>7. CASE ClearDefaults(c)
    BY <1>1, <1>2, <1>7 DEF ClearDefaults, CallType
<1>8. CASE WriteRow(c)
    BY <1>1, <1>2, <1>3, <1>4, <1>8 DEF WriteRow, RowMissing, CallType
<1>9. CASE EnterIndexes(c)
    BY <1>1, <1>2, <1>3, <1>4, <1>9 DEF EnterIndexes, CallType
<1>10. CASE Commit(c)
  <2>1. call'[c].pc = "done"
      BY <1>3, <1>4, <1>10 DEF Commit
  <2> QED BY <1>1, <1>2, <1>10, <2>1 DEF Commit, CallPlaced
<1>11. CASE Delete(c)
  <2>1. call'[c].pc = "done"
      BY <1>3, <1>4, <1>11 DEF Delete
  <2>2. c \notin DOMAIN presets' /\ c \notin calcs'
      BY <1>2, <1>11 DEF Delete
  <2> QED BY <2>1, <2>2
<1>12. CASE Fail(c)
    BY <1>2, <1>3, <1>4, <1>12 DEF Fail
<1> QED BY <1>5, <1>6, <1>7, <1>8, <1>9, <1>10, <1>11, <1>12 DEF Step, DeadlockVictim

LEMMA InitLimitInv == Init => LimitInv
<1> SUFFICES ASSUME Init PROVE LimitInv
    OBVIOUS
<1>1. \A c \in Calls : call[c].pc = "new" /\ call[c].after = {}
    BY NewCallType DEF Init
<1>2. calcs = {} /\ IsFiniteSet(calcs) /\ IsFiniteSet(DOMAIN presets)
    BY StartAssumption, FS_EmptySet DEF Init
<1> QED BY <1>1, <1>2 DEF LimitInv, AfterOrdered, Counted

\* A row is added by a call that nobody has started after, so what was
\* counted before a create or a save only shrinks.
LEMMA NextLimitInv == PresetInv /\ LimitInv /\ [Next]_vars => LimitInv'
<1> SUFFICES ASSUME PresetInv, LimitInv, [Next]_vars PROVE LimitInv'
    OBVIOUS
<1>1. CASE UNCHANGED vars
    BY <1>1 DEF vars, LimitInv, AfterOrdered, Counted, OlderPresets, OlderCalcs
<1>2. ASSUME NEW c \in Calls, Start(c) \/ Step(c) \/ Fail(c) PROVE LimitInv'
  <2>1. /\ call[c].pc # "done"
        /\ \A d \in Calls \ {c} : call'[d] = call[d]
        /\ DOMAIN presets' \subseteq DOMAIN presets \cup {c} /\ calcs' \subseteq calcs \cup {c}
        /\ ~Start(c) => call'[c].after = call[c].after
      BY <1>2, StepShape
  <2>2. /\ IsFiniteSet(DOMAIN presets) /\ IsFiniteSet(calcs)
        /\ AfterOrdered /\ \A d \in Calls : Counted(d, call[d])
      BY DEF LimitInv
  <2>3. IsFiniteSet(DOMAIN presets') /\ IsFiniteSet(calcs')
    <3>1. IsFiniteSet(DOMAIN presets \cup {c}) /\ IsFiniteSet(calcs \cup {c})
        BY <2>2, FS_AddElement
    <3> QED BY <2>1, <3>1, FS_Subset
  <2>4. \A d \in Calls : c \notin call[d].after
      BY <2>1, <2>2 DEF AfterOrdered
  <2>5. \A d \in Calls : d # c \/ ~Start(c) => call'[d].after = call[d].after
      BY <2>1
  <2>6. Start(c) => call'[c].after = {d \in Calls : Input(d).op = Input(c).op /\ call[d].pc = "done"}
      BY DEF Start, PresetInv, StateTyped, CallType
  <2>7. AfterOrdered'
    <3> SUFFICES ASSUME NEW e \in Calls, NEW d \in Calls, d \in call'[e].after
                 PROVE  /\ call'[d].pc = "done" /\ Input(d).op = Input(e).op
                        /\ call'[d].after \subseteq call'[e].after
        BY DEF AfterOrdered
    <3>1. CASE e # c \/ ~Start(c)
      <4>1. d \in call[e].after
          BY <2>5, <3>1
      <4>2. d # c
          BY <2>4, <4>1
      <4> QED BY <2>1, <2>2, <2>5, <3>1, <4>1, <4>2 DEF AfterOrdered
    <3>2. CASE e = c /\ Start(c)
      <4>1. call[d].pc = "done" /\ Input(d).op = Input(c).op /\ d # c
          BY <2>1, <2>6, <3>2
      <4>2. call'[d] = call[d] /\ call[d].after \subseteq Calls
          BY <2>1, <4>1 DEF PresetInv, StateTyped, CallType
      <4>3. \A x \in call[d].after : call[x].pc = "done" /\ Input(x).op = Input(c).op
          BY <2>2, <4>1, <4>2 DEF AfterOrdered
      <4> QED BY <2>6, <3>2, <4>1, <4>2, <4>3
    <3> QED BY <3>1, <3>2
  <2>8. ASSUME NEW d \in Calls, d # c \/ ~Start(c)
        PROVE  /\ OlderPresets(call[d])' \subseteq OlderPresets(call[d])
               /\ OlderCalcs(call[d])' \subseteq OlderCalcs(call[d])
      BY <2>1, <2>4, <2>5, <2>8 DEF OlderPresets, OlderCalcs
  <2>9. \A d \in Calls : /\ OlderPresets(call[d]) \subseteq DOMAIN presets
                         /\ OlderCalcs(call[d]) \subseteq calcs
                         /\ IsFiniteSet(OlderPresets(call[d])) /\ IsFiniteSet(OlderCalcs(call[d]))
    <3>1. \A d \in Calls : OlderPresets(call[d]) \subseteq DOMAIN presets /\ OlderCalcs(call[d]) \subseteq calcs
        BY DEF OlderPresets, OlderCalcs
    <3> QED BY <2>2, <3>1, FS_Subset
  <2>10. ASSUME NEW d \in Calls, d # c \/ ~Start(c)
         PROVE  /\ Cardinality(OlderPresets(call[d])') <= Cardinality(OlderPresets(call[d]))
                /\ Cardinality(OlderCalcs(call[d])') <= Cardinality(OlderCalcs(call[d]))
                /\ Cardinality(OlderPresets(call[d])) <= Cardinality(DOMAIN presets)
                /\ Cardinality(OlderCalcs(call[d])) <= Cardinality(calcs)
                /\ Cardinality(OlderPresets(call[d])') \in Nat
                /\ Cardinality(OlderPresets(call[d])) \in Nat
                /\ Cardinality(OlderCalcs(call[d])') \in Nat
                /\ Cardinality(OlderCalcs(call[d])) \in Nat
                /\ Cardinality(DOMAIN presets) \in Nat /\ Cardinality(calcs) \in Nat
    <3>1. IsFiniteSet(OlderPresets(call[d])') /\ IsFiniteSet(OlderCalcs(call[d])')
        BY <2>8, <2>9, <2>10, FS_Subset
    <3>2. /\ Cardinality(OlderPresets(call[d])') <= Cardinality(OlderPresets(call[d]))
          /\ Cardinality(OlderCalcs(call[d])') <= Cardinality(OlderCalcs(call[d]))
        BY <2>8, <2>9, <2>10, FS_Subset
    <3>3. /\ Cardinality(OlderPresets(call[d])) <= Cardinality(DOMAIN presets)
          /\ Cardinality(OlderCalcs(call[d])) <= Cardinality(calcs)
        BY <2>2, <2>9, FS_Subset
    <3> QED BY <2>2, <2>9, <3>1, <3>2, <3>3, FS_CardinalityType
  <2>11. ASSUME NEW d \in Calls PROVE Counted(d, call[d])'
    <3>1. CASE d # c
      <4>1. Counted(d, call[d]) /\ call'[d] = call[d]
          BY <2>1, <2>2, <3>1
      <4>2. (d \in DOMAIN presets' <=> d \in DOMAIN presets /\ d \in DOMAIN presets') /\ (d \in calcs' => d \in calcs)
          BY <2>1, <3>1
      <4> QED BY <2>10, <3>1, <4>1, <4>2, SavedDataAssumption DEF Counted
    <3>2. CASE d = c /\ Start(c)
      <4>1. /\ Input(c).op = "create" => call'[c].pc = "counting"
            /\ call'[c].pc # "counted"
          BY <3>2 DEF Start, PresetInv, StateTyped, CallType
      <4>2. c \notin calcs'
          BY <2>1, <3>2 DEF Start, PresetInv, CreatedDone
      <4> QED BY <3>2, <4>1, <4>2 DEF Counted
    <3>3. CASE d = c /\ ~Start(c)
      <4>1. Counted(c, call[c])
          BY <2>2
      <4>2. /\ Input(c).op = "create" /\ call'[c].pc \notin {"new", "counting"}
                 /\ (call'[c].pc = "done" => c \in DOMAIN presets') =>
                  \/ call[c].pc \notin {"new", "counting", "done"}
                  \/ UNCHANGED presets /\ ~LimitReached(Cardinality(DOMAIN presets), PresetLimit)
            /\ call'[c].pc = "counted" \/ c \in calcs' =>
                  \/ call[c].pc = "counted"
                  \/ UNCHANGED calcs /\ ~LimitReached(Cardinality(calcs), CalculationLimit)
          BY <1>2, <3>3, CountShape
      <4> QED BY <2>10, <3>3, <4>1, <4>2, SavedDataAssumption DEF Counted, LimitReached
    <3> QED BY <3>1, <3>2, <3>3
  <2> QED BY <2>3, <2>7, <2>11 DEF LimitInv
<1> QED BY <1>1, <1>2 DEF Next

\* A plan's limit is exceeded only when two creates, or two saves, ran at the
\* same time.
THEOREM ExcessByOverlap == Spec => []ExcessOnlyByOverlap
<1>1. Init => LimitInv
    BY InitLimitInv
<1>2. PresetInv /\ LimitInv /\ [Next]_vars => LimitInv'
    BY NextLimitInv
<1>3. Spec => []LimitInv
    BY <1>1, <1>2, PresetInvariant, PTL DEF Spec
<1> QED BY <1>3, PresetInvariant, LimitInvImplies, PTL
=============================================================================
