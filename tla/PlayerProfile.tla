--------------------------- MODULE PlayerProfile ---------------------------
(***************************************************************************)
(* The linked Albion character of one account: concurrent HTTP calls read,  *)
(* link, refresh and unlink it (internal/playerprofile service.go,          *)
(* repository.go, repository_write.go, handler.go).                         *)
(*                                                                          *)
(* Every call reads the row and its events in two statements, then asks the *)
(* game's API, then writes; nothing is locked in between.  Save is one      *)
(* SERIALIZABLE transaction: of two that overlap, the one that has to wait  *)
(* for the row fails when the other commits.  Time 0 is a null timestamp.   *)
(* Requests that are malformed are answered 400 before anything is read.    *)
(***************************************************************************)
EXTENDS Integers, FiniteSets

CONSTANTS Calls,       \* HTTP calls
          NoCall,      \* nobody holds the row
          Kind(_),     \* "current", "link", "refresh" or "delete"
          Target(_),   \* the player a link asks for
          Players,     \* player ids
          Activity,    \* the sets of fights the provider may return
          Scenarios,   \* [calls, foreign, cached]: the calls that are made,
                       \* whether the provider may resolve an id to another
                       \* player, the sets of fights an old row has cached
          Cooldown,
          MaxTime      \* bound on the clock

ASSUME ProfileAssumption ==
    /\ NoCall \notin Calls
    /\ Cooldown \in Nat \ {0}
    /\ MaxTime \in Nat \ {0}
    /\ \A c \in Calls : /\ Kind(c) \in {"current", "link", "refresh", "delete"}
                        /\ Kind(c) = "link" => Target(c) \in Players
    /\ \A s \in Scenarios : s.calls \subseteq Calls /\ s.foreign \in BOOLEAN

VARIABLES made,    \* the scenario
          now,     \* the clock
          profile, \* the committed row of albion_player_profiles
          events,  \* the committed rows of albion_player_events
          nextId,  \* the next gen_random_uuid()
          holder,  \* the call whose open Save has written the row
          call     \* the progress and the answer of each call

vars == <<made, now, profile, events, nextId, holder, call>>

\* A fight is the number of equipment slots cached for both sides, and whether
\* the player's weapon type is known.
FightType == [slots : 0..10, opponent : 0..10, weapon : BOOLEAN]

\* A cached event belongs to the player whose activity was fetched.
EventsOf(p, fights) == {[of |-> p, fight |-> f] : f \in fights}

NoProfile == [there |-> FALSE, id |-> 0, player |-> NoCall, refreshed |-> 0,
              attempt |-> 0, status |-> "pending"]

\* at is the refresh time the call will store, after the calls that had been
\* answered when it started (a history of the run, not state of the program).
NewCall == [pc |-> "new", reply |-> "none", profile |-> NoProfile, events |-> {},
            player |-> NoCall, fetched |-> {}, at |-> 0, after |-> {}]

\* Nothing is linked, or a player was linked and refreshed at time 1, maybe
\* before equipment was cached.
Init ==
    /\ made \in Scenarios
    /\ now = 1
    /\ holder = NoCall
    /\ nextId = 2
    /\ call = [c \in Calls |-> NewCall]
    /\ \/ profile = NoProfile /\ events = {}
       \/ \E p \in Players, fights \in made.cached :
             /\ profile = [there |-> TRUE, id |-> 1, player |-> p, refreshed |-> 1,
                           attempt |-> 1, status |-> "ok"]
             /\ events = EventsOf(p, fights)

-----------------------------------------------------------------------------
(* The pure part.                                                           *)

\* snapshotNeedsEquipmentRefresh: nothing but single weapons, or the type of
\* the weapon, was cached.
NeedsEquipmentRefresh(cached) ==
    /\ \A e \in cached : e.fight.slots <= 1 /\ e.fight.opponent = 0
    /\ \E e \in cached : e.fight.slots = 1 \/ e.fight.weapon

\* refreshWindowElapsed, and the cooldown test of Refresh.
WindowElapsed(p) == p.attempt = 0 \/ now >= p.attempt + Cooldown

\* Plausible bug: a save that finds a row leaves the refresh times alone.
SavedProfileKeepingTimes(c) ==
    [there |-> TRUE, id |-> IF profile.there THEN profile.id ELSE nextId,
     player |-> call[c].player, status |-> "ok",
     refreshed |-> IF profile.there THEN profile.refreshed ELSE call[c].at,
     attempt |-> IF profile.there THEN profile.attempt ELSE call[c].at]

\* The upsert of Save: everything but the id is replaced.
SavedProfile(c) ==
    [there |-> TRUE, id |-> IF profile.there THEN profile.id ELSE nextId,
     player |-> call[c].player, refreshed |-> call[c].at,
     attempt |-> call[c].at, status |-> "ok"]

-----------------------------------------------------------------------------
(* The calls.                                                               *)

\* What the rows contained is not kept once the call is answered.
Answered(c, reply) ==
    [NewCall EXCEPT !.pc = "done", !.reply = reply, !.at = call[c].at, !.after = call[c].after]

Answer(c, reply) == call' = [call EXCEPT ![c] = Answered(c, reply)]

\* The account is resolved; Link knows its player, the others read first.
Start(c) ==
    /\ call[c].pc = "new"
    /\ c \in made.calls
    /\ call' = [call EXCEPT ![c].pc = CASE Kind(c) = "link"   -> "fetching"
                                        [] Kind(c) = "delete" -> "deleting"
                                        [] OTHER              -> "reading",
                            ![c].player = IF Kind(c) = "link" THEN Target(c) ELSE NoCall,
                            ![c].after = {d \in Calls : call[d].pc = "done"}]
    /\ UNCHANGED <<made, now, profile, events, nextId, holder>>

\* Without a row or after an error, Current still serves the snapshot it
\* read first; the others pass the error on.
ReadBackAnswer(c, reply) == IF Kind(c) = "current" THEN "200" ELSE reply

\* Get, first statement; "readback" is the Get that ends Save.
ReadProfile(c) ==
    /\ \/ /\ call[c].pc \in {"reading", "readback"}
          /\ profile.there
          /\ call' = [call EXCEPT ![c].pc = IF @ = "reading" THEN "readingEvents" ELSE "readbackEvents",
                                  ![c].profile = profile]
       \/ /\ call[c].pc = "reading"
          /\ ~profile.there
          /\ Answer(c, "404")
       \/ /\ call[c].pc = "readback"
          /\ ~profile.there
          /\ Answer(c, ReadBackAnswer(c, "404"))
    /\ UNCHANGED <<made, now, profile, events, nextId, holder>>

\* Get, second statement: the events of the row read by the first.
ReadEvents(c) ==
    LET rows == IF profile.there /\ profile.id = call[c].profile.id THEN events ELSE {} IN
    /\ \/ /\ call[c].pc = "readingEvents"
          /\ call' = [call EXCEPT ![c].pc = "read", ![c].events = rows]
       \/ /\ call[c].pc = "readbackEvents"
          /\ Answer(c, "200")
    /\ UNCHANGED <<made, now, profile, events, nextId, holder>>

\* Get or Delete fails (database error).
StatementError(c) ==
    /\ \/ call[c].pc \in {"reading", "readingEvents", "deleting"} /\ Answer(c, "500")
       \/ call[c].pc \in {"readback", "readbackEvents"} /\ Answer(c, ReadBackAnswer(c, "500"))
    /\ UNCHANGED <<made, now, profile, events, nextId, holder>>

\* Current repairs a legacy cache, at most once per window; Refresh takes the
\* time it will store here, before the fetch.
Decide(c) ==
    LET snapshot == call[c].profile
        fetches == /\ Kind(c) = "current" => NeedsEquipmentRefresh(call[c].events)
                   /\ WindowElapsed(snapshot) IN
    /\ call[c].pc = "read"
    /\ IF fetches
       THEN call' = [call EXCEPT ![c] =
                       [NewCall EXCEPT !.pc = "fetching", !.player = snapshot.player,
                                       !.at = IF Kind(c) = "refresh" THEN now ELSE 0,
                                       !.after = call[c].after]]
       ELSE Answer(c, IF Kind(c) = "current" THEN "200" ELSE "429")
    /\ UNCHANGED <<made, now, profile, events, nextId, holder>>

\* Plausible bug: Link keeps whatever player the provider returned.
AcceptedAnyPlayer(c, p) == TRUE

\* Only Link compares the returned player with the one it asked for.
Accepted(c, p) == Kind(c) = "link" => p = call[c].player

Resolves(p) == IF made.foreign THEN Players ELSE {p}

\* fetchSnapshot: the player as the provider resolves it, the events of the
\* id that was asked for.
Fetch(c) ==
    /\ call[c].pc = "fetching"
    /\ \E p \in Resolves(call[c].player), fights \in Activity :
          IF Accepted(c, p)
          THEN call' = [call EXCEPT ![c].pc = "saving", ![c].player = p,
                                    ![c].fetched = EventsOf(call[c].player, fights),
                                    ![c].at = IF Kind(c) = "refresh" THEN @ ELSE now]
          ELSE Answer(c, "400")
    /\ UNCHANGED <<made, now, profile, events, nextId, holder>>

\* The provider fails: Current serves the cache, Refresh notes the attempt.
\* The error is not one of those writeError maps to 502.
FetchError(c) ==
    /\ call[c].pc = "fetching"
    /\ CASE Kind(c) = "current" -> Answer(c, "200")
         [] Kind(c) = "link"    -> Answer(c, "500")
         [] Kind(c) = "refresh" -> call' = [call EXCEPT ![c].pc = "marking"]
    /\ UNCHANGED <<made, now, profile, events, nextId, holder>>

\* A statement on the row waits for the Save that has written it; a row that
\* is only being inserted is not seen.
RowFree == profile.there => holder = NoCall

\* MarkRefreshFailure: whatever player is linked now.  Its error is ignored.
MarkRefreshFailure(c) ==
    /\ call[c].pc = "marking"
    /\ RowFree
    /\ Answer(c, "500")
    /\ \/ profile' = IF profile.there
                     THEN [profile EXCEPT !.attempt = call[c].at, !.status = "error"]
                     ELSE profile
       \/ UNCHANGED profile
    /\ UNCHANGED <<made, now, events, nextId, holder>>

\* Save: the upsert writes the row and holds it, or waits for its holder.
SaveUpsert(c) ==
    /\ call[c].pc = "saving"
    /\ \/ /\ holder = NoCall
          /\ holder' = c
          /\ call' = [call EXCEPT ![c].pc = "saved"]
       \/ /\ holder # NoCall
          /\ call' = [call EXCEPT ![c].pc = "waiting"]
          /\ UNCHANGED holder
    /\ UNCHANGED <<made, now, profile, events, nextId>>

\* Plausible bug: the events of the earlier snapshot are not cleared.
SavedEventsAdded(c) == events \cup call[c].fetched

\* Save replaces the events of the row.
SavedEvents(c) == call[c].fetched

\* The holder has ended: after a commit the waiting calls cannot serialize
\* and fail, after a rollback they go on.
AfterSave(c, next, committed) ==
    [d \in Calls |->
       CASE d = c -> next
         [] d # c /\ call[d].pc = "waiting" ->
              IF committed THEN Answered(d, ReadBackAnswer(d, "500"))
                           ELSE [call[d] EXCEPT !.pc = "saving"]
         [] OTHER -> call[d]]

\* Save: the events are replaced and the transaction commits; its answer may
\* be lost, which the caller sees as an error.
SaveCommit(c) ==
    /\ call[c].pc = "saved"
    /\ profile' = SavedProfile(c)
    /\ events' = SavedEvents(c)
    /\ nextId' = IF profile.there THEN nextId ELSE nextId + 1
    /\ holder' = NoCall
    /\ \E next \in {[call[c] EXCEPT !.pc = "readback"], Answered(c, ReadBackAnswer(c, "500"))} :
          call' = AfterSave(c, next, TRUE)
    /\ UNCHANGED <<made, now>>

\* Plausible bug: the error return leaves the transaction open, and with it
\* the row written and everybody who waits for it.
SaveErrorWithoutRollback(c) ==
    /\ call[c].pc \in {"saving", "waiting", "saved"}
    /\ call' = [call EXCEPT ![c] = Answered(c, ReadBackAnswer(c, "500"))]
    /\ UNCHANGED <<made, now, profile, events, nextId, holder>>

\* A statement of Save fails and everything is rolled back.
SaveError(c) ==
    /\ call[c].pc \in {"saving", "waiting", "saved"}
    /\ holder' = IF holder = c THEN NoCall ELSE holder
    /\ call' = IF holder = c THEN AfterSave(c, Answered(c, ReadBackAnswer(c, "500")), FALSE)
               ELSE [call EXCEPT ![c] = Answered(c, ReadBackAnswer(c, "500"))]
    /\ UNCHANGED <<made, now, profile, events, nextId>>

\* Delete: the row, and its events by cascade.
Delete(c) ==
    /\ call[c].pc = "deleting"
    /\ RowFree
    /\ profile' = NoProfile
    /\ events' = {}
    /\ Answer(c, IF profile.there THEN "204" ELSE "404")
    /\ UNCHANGED <<made, now, nextId, holder>>

Tick ==
    /\ now < MaxTime
    /\ now' = now + 1
    /\ UNCHANGED <<made, profile, events, nextId, holder, call>>

Step(c) ==
    \/ ReadProfile(c)
    \/ ReadEvents(c)
    \/ Decide(c)
    \/ Fetch(c)
    \/ MarkRefreshFailure(c)
    \/ SaveUpsert(c)
    \/ SaveCommit(c)
    \/ Delete(c)

Next ==
    \/ \E c \in Calls : \/ Start(c) \/ Step(c)
                        \/ StatementError(c) \/ FetchError(c) \/ SaveError(c)
    \/ Tick

Spec == Init /\ [][Next]_vars

\* The provider answers or times out, the database executes its statements:
\* some call that can go on does, and each has a bounded number of steps.
FairSpec == Spec /\ WF_vars(\E c \in Calls : Step(c))

-----------------------------------------------------------------------------
(* Properties.                                                              *)

\* Type correctness of the row, its events and what the calls have read.
TypeOK ==
    /\ now \in 1..MaxTime
    /\ profile.there \in BOOLEAN
    /\ profile.there => profile.player \in Players /\ profile.id < nextId
    /\ \A c \in Calls :
          /\ call[c].pc \in {"new", "reading", "readingEvents", "read", "fetching", "marking",
                             "saving", "waiting", "saved", "readback", "readbackEvents",
                             "deleting", "done"}
          /\ call[c].reply \in {"none", "200", "204", "400", "404", "429", "500"}
          /\ holder = c <=> call[c].pc = "saved"
          /\ call[c].pc = "waiting" => holder # NoCall

\* The cached events are always those of the linked player, and an account
\* without a player has no events: no interleaving of links, refreshes and
\* unlinks leaves one player's fights under another's name, as long as the
\* provider answers for the player it was asked for.  A Save holds the row
\* exactly while it has written it.
CacheCoherent ==
    /\ TypeOK
    /\ ~profile.there => events = {}
    /\ ~made.foreign => \A e \in events : e.of = profile.player

\* Whatever the provider resolves an id to, a link saves only the player that
\* was asked for.
LinkSavesRequested ==
    [][\A c \in Calls : Kind(c) = "link" /\ SaveCommit(c) => profile'.player = Target(c)]_vars

Refreshing(c) == Kind(c) = "refresh" /\ call[c].at # 0

Overlap(c, d) == c \notin call[d].after /\ d \notin call[c].after

\* A refresh that starts after another was answered 200 waits for the whole
\* cooldown, even when links, reads and unlinks come in between; unless a
\* third call overlapped the first and stored its older time afterwards.
AnsweredRefreshCoolsDown ==
    \A c, d \in Calls :
        Refreshing(c) /\ call[c].reply = "200" /\ Refreshing(d) /\ c \in call[d].after =>
            \/ call[d].at >= call[c].at + Cooldown
            \/ \E e \in Calls \ {c, d} :
                  call[e].at # 0 /\ call[e].at <= call[c].at /\ Overlap(e, c)

\* Every call is answered: waits for the row end.
EveryCallAnswered == []<>(\A c \in Calls : call[c].pc \in {"new", "done"})

\* docs/PLAYER_PROFILES.md: "Unlinking removes the profile and cached
\* activity": once answered, only a later or overlapping link brings it back.
UnlinkedStaysUnlinked ==
    \A c \in Calls : Kind(c) = "delete" /\ call[c].reply = "204" /\ profile.there =>
        \E l \in Calls : Kind(l) = "link" /\ call[l].pc # "new" /\ l \notin call[c].after
=============================================================================
