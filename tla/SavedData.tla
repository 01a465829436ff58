----------------------------- MODULE SavedData -----------------------------
(***************************************************************************)
(* The presets and calculations one user keeps: concurrent calls create,    *)
(* update and delete them, each in a READ COMMITTED transaction             *)
(* (internal/saveddata/saveddata.go, migrations/0016_cloud_saved_data.sql). *)
(*                                                                          *)
(* A statement sees the rows committed when it starts, waits for rows and   *)
(* index keys another open transaction has touched, and looks at a row it   *)
(* waited for again.  Two unique indexes guard the presets: one name once,  *)
(* one default.  A written row enters them in this order, so a transaction  *)
(* may already hold its name while it waits for the default.  Malformed     *)
(* input is answered 400 before anything is read; names are compared after  *)
(* trimming and lower-casing.                                               *)
(***************************************************************************)
EXTENDS Integers, FiniteSets

CONSTANTS Calls,         \* HTTP calls; a created preset has its call as id
          Input(_),      \* [op, id, name, default] of a call
          Scenarios,     \* the sets of calls that are made
          Names,
          InitPresets,   \* the presets at the start: id -> [name, default]
          PresetLimit,   \* saved_configurations.max
          CalculationLimit \* saved_calculations.max

Operations == {"create", "update", "delete", "save", "drop"}

PresetType == [name : Names, default : BOOLEAN]

ASSUME SavedDataAssumption ==
    /\ PresetLimit \in Int /\ CalculationLimit \in Int
    /\ Scenarios \subseteq SUBSET Calls
    /\ DOMAIN InitPresets \cap Calls = {}
    /\ InitPresets \in [DOMAIN InitPresets -> PresetType]
    /\ \A c \in Calls : /\ Input(c).op \in Operations
                        /\ Input(c).op \in {"create", "update"} =>
                              Input(c).name \in Names /\ Input(c).default \in BOOLEAN

\* The rows at the start satisfy the unique indexes and the limit.
ASSUME StartAssumption ==
    /\ \A i, j \in DOMAIN InitPresets : i # j =>
          /\ ~(InitPresets[i].default /\ InitPresets[j].default)
          /\ InitPresets[i].name # InitPresets[j].name
    /\ IsFiniteSet(DOMAIN InitPresets)
    /\ Cardinality(DOMAIN InitPresets) <= PresetLimit /\ 0 <= CalculationLimit

VARIABLES made,    \* the scenario
          presets, \* saved_presets, committed: id -> [name, default]
          calcs,   \* saved_calculations, committed: ids
          call     \* the progress and the answer of each call

vars == <<made, presets, calcs, call>>

\* writes are the uncommitted versions of the rows the transaction has locked,
\* scan the default rows it has found; after, a history of the run, the calls
\* of its kind that had been answered when it started.
NewCall == [pc |-> "new", reply |-> "none", scan |-> {},
            writes |-> [i \in {} |-> {}], after |-> {}]

Init ==
    /\ made \in Scenarios
    /\ presets = InitPresets
    /\ calcs = {}
    /\ call = [c \in Calls |-> NewCall]

-----------------------------------------------------------------------------
(* What a statement waits for.                                              *)

\* The row a create or update writes.
Target(c) == IF Input(c).op = "create" THEN c ELSE Input(c).id

NewRow(c) == [name |-> Input(c).name, default |-> Input(c).default]

Locked(d) == DOMAIN call[d].writes

\* The committed versions of the rows d has touched.
TouchedRows(d) == {presets[i] : i \in Locked(d) \cap DOMAIN presets}

\* d has touched the index entry of c's name.
NamePending(c, d) ==
    \/ \E r \in TouchedRows(d) : r.name = Input(c).name
    \/ call[d].pc \in {"named", "written"} /\ Input(d).name = Input(c).name

\* d has touched the index entry of the default.
DefaultPending(c, d) ==
    /\ Input(c).default
    /\ \/ \E r \in TouchedRows(d) : r.default
       \/ call[d].pc = "written" /\ Input(d).default

\* The open transactions the next statement of c has to wait for.
Blockers(c) ==
    {d \in Calls \ {c} :
        \/ call[c].pc = "clearing" /\ call[c].scan \cap Locked(d) # {}
        \/ call[c].pc \in {"writing", "deleting"} /\ Target(c) \in Locked(d)
        \/ call[c].pc = "naming" /\ NamePending(c, d)
        \/ call[c].pc = "named" /\ DefaultPending(c, d)}

\* The rows c's transaction sees, its own writes included.
Visible(c) ==
    [i \in DOMAIN presets \cup Locked(c) |->
        IF i \in Locked(c) THEN call[c].writes[i] ELSE presets[i]]

\* The rows the one c writes is compared with.
OtherRows(c) == {Visible(c)[i] : i \in DOMAIN Visible(c) \ {Target(c)}}

\* Unique violations.
NameTaken(c) == \E r \in OtherRows(c) : r.name = Input(c).name

-----------------------------------------------------------------------------
(* The calls.                                                               *)

\* The call ends and its transaction with it.
Answer(c, reply) ==
    call' = [call EXCEPT ![c] = [NewCall EXCEPT !.pc = "done", !.reply = reply,
                                                !.after = call[c].after]]

Start(c) ==
    /\ call[c].pc = "new"
    /\ c \in made
    /\ call' = [call EXCEPT ![c].pc = CASE Input(c).op \in {"create", "save"} -> "counting"
                                        [] Input(c).op = "update" -> "scanning"
                                        [] OTHER -> "deleting",
                            ![c].after = {d \in Calls : Input(d).op = Input(c).op /\ call[d].pc = "done"}]
    /\ UNCHANGED <<made, presets, calcs>>

\* Plausible bug: the limit itself is still accepted.
LimitReachedLate(count, limit) == limit <= 0 \/ count > limit

LimitReached(count, limit) == limit <= 0 \/ count >= limit

\* The limit and the count: the committed rows.
Count(c) ==
    /\ call[c].pc = "counting"
    /\ LET full == IF Input(c).op = "create"
                   THEN LimitReached(Cardinality(DOMAIN presets), PresetLimit)
                   ELSE LimitReached(Cardinality(calcs), CalculationLimit) IN
       IF full THEN Answer(c, "limit")
       ELSE call' = [call EXCEPT ![c].pc = IF Input(c).op = "create" THEN "scanning" ELSE "counted"]
    /\ UNCHANGED <<made, presets, calcs>>

\* update ... set is_default = false: find the default rows, if asked for.
ScanDefaults(c) ==
    /\ call[c].pc = "scanning"
    /\ call' = IF Input(c).default
               THEN [call EXCEPT ![c].pc = "clearing",
                                 ![c].scan = {i \in DOMAIN presets \ {Target(c)} : presets[i].default}]
               ELSE [call EXCEPT ![c].pc = "writing"]
    /\ UNCHANGED <<made, presets, calcs>>

\* Clear the rows found, unless they were changed while waiting for them.
ClearDefaults(c) ==
    LET rows == {i \in call[c].scan \cap DOMAIN presets : presets[i].default} IN
    /\ call[c].pc = "clearing"
    /\ Blockers(c) = {}
    /\ call' = [call EXCEPT ![c].pc = "writing", ![c].scan = {},
                            ![c].writes = [i \in rows |-> [presets[i] EXCEPT !.default = FALSE]]]
    /\ UNCHANGED <<made, presets, calcs>>

\* Plausible bug: what was cleared is committed although no row was updated.
RowMissingCommits(c) ==
    /\ presets' = Visible(c)
    /\ Answer(c, "404")

\* No row is returned: ErrNotFound, and the rollback restores the default.
RowMissing(c) ==
    /\ Answer(c, "404")
    /\ UNCHANGED presets

\* The insert or the update writes the row; its index entries follow.
WriteRow(c) ==
    /\ call[c].pc = "writing"
    /\ Blockers(c) = {}
    /\ IF Input(c).op = "update" /\ Target(c) \notin DOMAIN presets
       THEN RowMissing(c)
       ELSE /\ call' = [call EXCEPT ![c].pc = "naming",
                                    ![c].writes = [i \in DOMAIN @ \cup {Target(c)} |->
                                                     IF i = Target(c) THEN NewRow(c) ELSE @[i]]]
            /\ UNCHANGED presets
    /\ UNCHANGED <<made, calcs>>

\* Plausible bug: saved_presets_one_default_per_user is missing.
DefaultTakenNever(c) == FALSE

DefaultTaken(c) == Input(c).default /\ \E r \in OtherRows(c) : r.default

\* saved_presets_user_name_unique, then saved_presets_one_default_per_user.
EnterIndexes(c) ==
    /\ Blockers(c) = {}
    /\ \/ /\ call[c].pc = "naming"
          /\ IF NameTaken(c) THEN Answer(c, "conflict")
             ELSE call' = [call EXCEPT ![c].pc = "named"]
       \/ /\ call[c].pc = "named"
          /\ IF DefaultTaken(c) THEN Answer(c, "conflict")
             ELSE call' = [call EXCEPT ![c].pc = "written"]
    /\ UNCHANGED <<made, presets, calcs>>

\* A calculation is inserted without any conflict, a preset has been written;
\* then the commit, whose answer may be lost: an error to the client.
Commit(c) ==
    /\ \/ call[c].pc = "counted" /\ calcs' = calcs \cup {c} /\ UNCHANGED presets
       \/ call[c].pc = "written" /\ presets' = Visible(c) /\ UNCHANGED calcs
    /\ Answer(c, "ok") \/ Answer(c, "500")
    /\ UNCHANGED made

\* DeletePreset and DeleteCalculation: one statement.
Delete(c) ==
    LET rows == IF Input(c).op = "delete" THEN DOMAIN presets ELSE calcs
        id == Input(c).id IN
    /\ call[c].pc = "deleting"
    /\ Blockers(c) = {}
    /\ IF Input(c).op = "delete"
       THEN presets' = [i \in DOMAIN presets \ {id} |-> presets[i]] /\ UNCHANGED calcs
       ELSE calcs' = calcs \ {id} /\ UNCHANGED presets
    /\ Answer(c, IF id \in rows THEN "ok" ELSE "404")
    /\ UNCHANGED made

\* Plausible bug: the error return leaves the transaction open, with the rows
\* and index keys it holds.
FailWithoutRollback(c) ==
    /\ call[c].pc \notin {"new", "done"}
    /\ call' = [call EXCEPT ![c].pc = "done", ![c].reply = "500"]
    /\ UNCHANGED <<made, presets, calcs>>

\* Any other error rolls the transaction back.
Fail(c) ==
    /\ call[c].pc \notin {"new", "done"}
    /\ Answer(c, "500")
    /\ UNCHANGED <<made, presets, calcs>>

\* c is one of a set of transactions that wait for each other.
Deadlocked(c) ==
    \E group \in SUBSET {d \in Calls : Blockers(d) # {}} :
        c \in group /\ \A d \in group : Blockers(d) \cap group # {}

\* PostgreSQL ends a deadlock by failing one of its transactions.
DeadlockVictim(c) == Deadlocked(c) /\ Fail(c)

Step(c) ==
    \/ Count(c)
    \/ ScanDefaults(c)
    \/ ClearDefaults(c)
    \/ WriteRow(c)
    \/ EnterIndexes(c)
    \/ Commit(c)
    \/ Delete(c)
    \/ DeadlockVictim(c)

Next == \E c \in Calls : Start(c) \/ Step(c) \/ Fail(c)

Spec == Init /\ [][Next]_vars

\* The database goes on with some statement it can execute; that no call is
\* left out follows, because each has a bounded number of them.
FairSpec == Spec /\ WF_vars(\E c \in Calls : Step(c))

-----------------------------------------------------------------------------
(* Properties.                                                              *)

\* Type correctness: no two transactions have the same row locked.
TypeOK ==
    /\ \A i \in DOMAIN presets : presets[i] \in PresetType
    /\ calcs \subseteq Calls
    /\ \A c \in Calls :
          /\ call[c].pc \in {"new", "counting", "counted", "scanning", "clearing", "writing", "naming",
                             "named", "written", "deleting", "done"}
          /\ call[c].reply \in {"none", "ok", "limit", "conflict", "404", "500"}
          /\ \A d \in Calls \ {c} : Locked(c) \cap Locked(d) = {}

\* However creates and updates overlap, the user has at most one default
\* preset and no name twice, and two open transactions never have the same
\* row locked.
OneDefault ==
    /\ TypeOK
    /\ \A i, j \in DOMAIN presets : i # j =>
          /\ ~(presets[i].default /\ presets[j].default)
          /\ presets[i].name # presets[j].name

HasDefault == \E i \in DOMAIN presets : presets[i].default

\* The old default is given up only together with a new one: a default
\* disappears only when it is deleted or updated to be no default.
DefaultNotLost ==
    [][HasDefault /\ ~HasDefault' =>
          \E c \in Calls : /\ Input(c).op = "delete" \/ (Input(c).op = "update" /\ ~Input(c).default)
                           /\ Input(c).id \in DOMAIN presets /\ presets[Input(c).id].default
                           /\ call'[c].pc = "done" /\ call[c].pc # "done"]_vars

Overlap(c, d) == c \notin call[d].after /\ d \notin call[c].after

Excess(rows) == \E c, d \in rows \cap Calls : c # d /\ Overlap(c, d)

\* The plan's limits are exceeded only by creates that ran at the same time:
\* the count and the insert are not serialized.
ExcessOnlyByOverlap ==
    /\ Cardinality(DOMAIN presets) > PresetLimit => Excess(DOMAIN presets)
    /\ Cardinality(calcs) > CalculationLimit => Excess(calcs)

\* Every call is answered: waits for rows and index keys end, deadlocks
\* included.
EveryCallAnswered == []<>(\A c \in Calls : call[c].pc \in {"new", "done"})
=============================================================================
