------------------------ MODULE PlayerProfileProofs ------------------------
(***************************************************************************)
(* Machine-checked safety of the player profile, for any calls, players and *)
(* activity: CacheInv is inductive; it implies that the cached events are   *)
(* those of the linked player, that a link saves the player asked for, and  *)
(* that an answered refresh starts the cooldown for the next.               *)
(***************************************************************************)
EXTENDS PlayerProfile, TLAPS

Pcs == {"new", "reading", "readingEvents", "read", "fetching", "marking", "saving",
        "waiting", "saved", "readback", "readbackEvents", "deleting", "done"}

Replies == {"none", "200", "204", "400", "404", "429", "500"}

\* Every fight the provider returns or an old row has cached.
Fights == (UNION Activity) \cup (UNION {UNION s.cached : s \in Scenarios})

Events == SUBSET [of : Players, fight : Fights]

ProfileType == [there : BOOLEAN, id : Nat, player : Players \cup {NoCall}, refreshed : Nat,
                attempt : Nat, status : {"pending", "ok", "error"}]

CallType == [pc : Pcs, reply : Replies, profile : ProfileType, events : Events,
             player : Players \cup {NoCall}, fetched : Events, at : Nat, after : SUBSET Calls]

StateTyped ==
    /\ made \in Scenarios
    /\ now \in 1..MaxTime
    /\ profile \in ProfileType
    /\ events \in Events
    /\ nextId \in Nat
    /\ call \in [Calls -> CallType]

\* A row that is there names a player and has been refreshed.
Linked(p) == p.there /\ p.player \in Players /\ p.attempt # 0

RowCoherent ==
    /\ profile.there => Linked(profile) /\ profile.id < nextId
    /\ ~profile.there => events = {}
    /\ ~made.foreign => \A e \in events : e.of = profile.player

Saving == {"saving", "waiting", "saved"}

\* What call c knows and holds, by its progress; r is its record.
CallShaped(c, r) ==
    /\ holder = c <=> r.pc = "saved"
    /\ r.pc = "waiting" => holder # NoCall
    /\ r.pc \in {"reading", "readingEvents", "read"} => Kind(c) \in {"current", "refresh"}
    /\ r.pc \in {"readingEvents", "read"} => Linked(r.profile)
    /\ r.pc \in {"fetching", "marking"} \cup Saving => r.player \in Players /\ Kind(c) # "delete"
    /\ r.pc \in {"fetching"} \cup Saving => (Kind(c) = "link" => r.player = Target(c))
    /\ r.pc = "marking" => Kind(c) = "refresh"
    /\ r.pc \in Saving => (~made.foreign => \A e \in r.fetched : e.of = r.player)

\* When call c takes the time it stores: Refresh before its fetch, the others
\* with the answer.
CallTimed(c, r) ==
    /\ r.at <= now
    /\ r.pc \in {"new", "reading", "readingEvents", "read"} => r.at = 0
    /\ r.pc = "fetching" => (r.at # 0 <=> Kind(c) = "refresh")
    /\ r.pc \in {"marking", "readback", "readbackEvents"} \cup Saving => r.at # 0
    /\ r.reply = "200" => r.pc = "done"
    /\ r.pc = "new" => r.after = {}

\* A call answered before c started took its time before c did.
AfterInOrder ==
    \A c, d \in Calls : d \in call[c].after =>
        call[d].pc = "done" /\ (call[c].at # 0 => call[d].at <= call[c].at)

\* A refresh whose Save has committed and that does not know yet, or that was
\* answered 200.
Served(c, r) ==
    Kind(c) = "refresh" /\ (r.pc \in {"readback", "readbackEvents"} \/ r.reply = "200")

\* A call that overlapped c and stored an older time.
Late(c) ==
    \E e \in Calls \ {c} : call[e].at # 0 /\ call[e].at <= call[c].at /\ Overlap(e, c)

\* The row has c's time or a newer one, unless a late call wrote it.
RowNotOlder ==
    \A c \in Calls : Served(c, call[c]) /\ profile.there =>
        profile.attempt >= call[c].at \/ Late(c)

\* The same for what a later call has read.
ReadNotOlder ==
    \A c, d \in Calls :
        /\ Kind(c) = "refresh" /\ call[c].reply = "200" /\ c \in call[d].after
        /\ call[d].pc \in {"readingEvents", "read"}
        => call[d].profile.attempt >= call[c].at \/ Late(c)

\* The inductive invariant.
CacheInv ==
    /\ StateTyped
    /\ RowCoherent
    /\ \A c \in Calls : CallShaped(c, call[c]) /\ CallTimed(c, call[c])
    /\ AfterInOrder
    /\ RowNotOlder
    /\ ReadNotOlder
    /\ AnsweredRefreshCoolsDown

-----------------------------------------------------------------------------
(* Calls move on.                                                           *)

\* What any step does to the record of a call c that takes part in it.
Moves(c, r) ==
    /\ call[c].pc # "done"
    /\ \/ r.after = call[c].after
       \/ call[c].pc = "new" /\ r.after = {d \in Calls : call[d].pc = "done"}
    /\ \/ r.at = call[c].at
       \/ /\ call[c].at = 0 /\ call[c].pc # "new" /\ r.at = now
          /\ Kind(c) = "refresh" =>
                call[c].pc = "read" /\ now >= call[c].profile.attempt + Cooldown
    /\ r.pc \in {"readingEvents", "read"} =>
          \/ r.profile = profile /\ profile.there
          \/ call[c].pc = "readingEvents" /\ r.profile = call[c].profile

\* Calls whose time is taken keep it, and what they started after.
LEMMA TimesKept ==
    ASSUME CacheInv, UNCHANGED now, call' \in [Calls -> CallType],
           \A c \in Calls : call'[c] = call[c] \/ Moves(c, call'[c])
    PROVE  /\ \A c \in Calls : call[c].pc = "done" => call'[c] = call[c]
           /\ \A c \in Calls : call[c].at # 0 => call'[c].at = call[c].at
           /\ \A c \in Calls : call[c].pc # "new" => call'[c].after = call[c].after
           /\ \A c \in Calls : call[c].at # 0 => call[c].pc # "new"
           /\ \A c \in Calls : call[c].pc # "new" /\ call[c].at # 0 /\ Late(c) => Late(c)'
<1>1. \A c \in Calls : call[c].pc = "done" => call'[c] = call[c]
    BY DEF Moves
<1>2. \A c \in Calls : call[c].at # 0 => call'[c].at = call[c].at
    BY DEF Moves
<1>3. \A c \in Calls : call[c].pc # "new" => call'[c].after = call[c].after
    BY DEF Moves
<1>4. \A c \in Calls : call[c].at # 0 => call[c].pc # "new"
    BY DEF CacheInv, CallTimed
<1>5. ASSUME NEW c \in Calls, call[c].pc # "new", call[c].at # 0, Late(c)
      PROVE  Late(c)'
  <2>1. PICK e \in Calls \ {c} : call[e].at # 0 /\ call[e].at <= call[c].at /\ Overlap(e, c)
      BY <1>5 DEF Late
  <2>2. call'[e].at = call[e].at /\ call'[e].after = call[e].after
      BY <1>2, <1>3, <1>4, <2>1
  <2>3. call'[c].at = call[c].at /\ call'[c].after = call[c].after
      BY <1>2, <1>3, <1>5
  <2> QED
      BY <2>1, <2>2, <2>3 DEF Late, Overlap
<1> QED
    BY <1>1, <1>2, <1>3, <1>4, <1>5

\* The facts about pairs of calls survive every step.
LEMMA PairsKept ==
    ASSUME CacheInv, UNCHANGED now, call' \in [Calls -> CallType],
           \A c \in Calls : call'[c] = call[c] \/ Moves(c, call'[c])
    PROVE  (AfterInOrder /\ ReadNotOlder /\ AnsweredRefreshCoolsDown)'
<1>0. /\ call \in [Calls -> CallType] /\ now \in Nat /\ Cooldown \in Nat
      /\ \A c \in Calls : CallTimed(c, call[c])
    BY ProfileAssumption DEF CacheInv, StateTyped
<1>1. /\ \A c \in Calls : call[c].pc = "done" => call'[c] = call[c]
      /\ \A c \in Calls : call[c].at # 0 => call'[c].at = call[c].at
      /\ \A c \in Calls : call[c].pc # "new" => call'[c].after = call[c].after
      /\ \A c \in Calls : call[c].at # 0 => call[c].pc # "new"
      /\ \A c \in Calls : call[c].pc # "new" /\ call[c].at # 0 /\ Late(c) => Late(c)'
    BY TimesKept
<1>2. \A c \in Calls : call[c].at \in Nat /\ call'[c].at \in Nat /\ call[c].at <= now
    BY <1>0 DEF CallType, CallTimed
<1>3. ASSUME NEW c \in Calls, NEW d \in Calls, c \in call'[d].after
      PROVE  /\ call[c].pc = "done" /\ call'[c] = call[c]
             /\ c \in call[d].after \/ call[d].pc = "new"
  <2>1. CASE c \in call[d].after
      BY <1>1, <2>1 DEF CacheInv, AfterInOrder
  <2>2. CASE c \notin call[d].after
    <3>1. call[d].pc = "new" /\ call'[d].after = {x \in Calls : call[x].pc = "done"}
        BY <1>3, <2>2 DEF Moves
    <3> QED
        BY <1>1, <1>3, <3>1
  <2> QED
      BY <2>1, <2>2
<1>4. AfterInOrder'
  <2> SUFFICES ASSUME NEW d \in Calls, NEW c \in Calls, c \in call'[d].after
               PROVE  call'[c].pc = "done" /\ (call'[d].at # 0 => call'[c].at <= call'[d].at)
      BY DEF AfterInOrder
  <2>1. call[c].pc = "done" /\ call'[c] = call[c]
      BY <1>3
  <2>2. ASSUME call'[d].at # 0 PROVE call[c].at <= call'[d].at
    <3>1. CASE call[d].at # 0
        BY <1>1, <1>3, <3>1 DEF CacheInv, AfterInOrder
    <3>2. CASE call[d].at = 0
      <4>1. call'[d].at = now
          BY <2>2, <3>2 DEF Moves
      <4> QED
          BY <1>2, <4>1
    <3> QED
        BY <3>1, <3>2
  <2> QED
      BY <2>1, <2>2
<1>5. ReadNotOlder'
  <2> SUFFICES ASSUME NEW c \in Calls, NEW d \in Calls,
                      Kind(c) = "refresh", call'[c].reply = "200", c \in call'[d].after,
                      call'[d].pc \in {"readingEvents", "read"}
               PROVE  call'[d].profile.attempt >= call'[c].at \/ Late(c)'
      BY DEF ReadNotOlder
  <2>1. call[c].pc = "done" /\ call'[c] = call[c] /\ (c \in call[d].after \/ call[d].pc = "new")
      BY <1>3
  <2>2. call[c].at = 0 \/ (Late(c) => Late(c)')
      BY <1>1, <2>1
  <2>3. call'[d].profile.attempt \in Nat
      BY DEF CallType, ProfileType
  <2>4. CASE call[c].at = 0
      BY <2>1, <2>3, <2>4
  <2>5. CASE call'[d].profile = profile /\ profile.there
    <3>1. Served(c, call[c])
        BY <2>1 DEF Served
    <3>2. profile.attempt >= call[c].at \/ Late(c)
        BY <2>5, <3>1 DEF CacheInv, RowNotOlder
    <3> QED
        BY <2>1, <2>2, <2>4, <2>5, <3>2
  <2>6. CASE call[d].pc = "readingEvents" /\ call'[d].profile = call[d].profile
      BY <2>1, <2>2, <2>4, <2>6 DEF CacheInv, ReadNotOlder
  <2>7. CASE call'[d] = call[d] /\ call[d].pc # "new"
      BY <2>1, <2>2, <2>4, <2>7 DEF CacheInv, ReadNotOlder
  <2>8. CASE call'[d] = call[d] /\ call[d].pc = "new"
      BY <2>8
  <2> QED
      BY <2>5, <2>6, <2>7, <2>8 DEF Moves
<1>6. AnsweredRefreshCoolsDown'
  <2> SUFFICES ASSUME NEW c \in Calls, NEW d \in Calls,
                      Kind(c) = "refresh", call'[c].at # 0, call'[c].reply = "200",
                      Kind(d) = "refresh", call'[d].at # 0, c \in call'[d].after
               PROVE  \/ call'[d].at >= call'[c].at + Cooldown
                      \/ \E e \in Calls \ {c, d} :
                            call'[e].at # 0 /\ call'[e].at <= call'[c].at /\ Overlap(e, c)'
      BY DEF AnsweredRefreshCoolsDown, Refreshing, Overlap
  <2>1. call[c].pc = "done" /\ call'[c] = call[c] /\ (c \in call[d].after \/ call[d].pc = "new")
      BY <1>3
  <2>2. ASSUME NEW e \in Calls \ {c, d}, call[e].at # 0, call[e].at <= call[c].at, Overlap(e, c)
        PROVE  call'[e].at # 0 /\ call'[e].at <= call'[c].at /\ Overlap(e, c)'
    <3>1. call'[e].at = call[e].at /\ call'[e].after = call[e].after
        BY <1>1, <2>2
    <3> QED
        BY <2>1, <2>2, <3>1 DEF Overlap
  <2>3. CASE call[d].at # 0
    <3>1. c \in call[d].after /\ call'[d].at = call[d].at
        BY <1>1, <2>1, <2>3
    <3>2. \/ call[d].at >= call[c].at + Cooldown
          \/ \E e \in Calls \ {c, d} :
                call[e].at # 0 /\ call[e].at <= call[c].at /\ Overlap(e, c)
        BY <2>1, <2>3, <3>1 DEF CacheInv, AnsweredRefreshCoolsDown, Refreshing
    <3> QED
        BY <2>1, <2>2, <3>1, <3>2
  <2>4. CASE call[d].at = 0
    <3>1. /\ call[d].pc = "read" /\ now >= call[d].profile.attempt + Cooldown
          /\ call'[d].at = now
        BY <2>4 DEF Moves
    <3>2. c \in call[d].after
        BY <2>1, <3>1
    <3>3. call[d].profile.attempt >= call[c].at \/ Late(c)
        BY <2>1, <3>1, <3>2 DEF CacheInv, ReadNotOlder
    <3>4. call[d].profile.attempt \in Nat
        BY <1>0 DEF CallType, ProfileType
    <3>5. CASE call[d].profile.attempt >= call[c].at
        BY <1>0, <1>2, <2>1, <3>1, <3>4, <3>5
    <3>6. CASE Late(c)
      <4>1. PICK e \in Calls \ {c} : call[e].at # 0 /\ call[e].at <= call[c].at /\ Overlap(e, c)
          BY <3>6 DEF Late
      <4>2. e # d
          BY <2>4, <4>1
      <4> QED
          BY <2>2, <4>1, <4>2
    <3> QED
        BY <3>3, <3>5, <3>6
  <2> QED
      BY <2>3, <2>4
<1> QED
    BY <1>4, <1>5, <1>6

\* The row stays as it is, or is deleted: what it says of committed refreshes
\* stays true.
LEMMA RowKept ==
    ASSUME CacheInv, UNCHANGED now, call' \in [Calls -> CallType],
           \A c \in Calls : call'[c] = call[c] \/ Moves(c, call'[c]),
           \A c \in Calls : Served(c, call'[c]) => Served(c, call[c]),
           profile' = profile \/ ~profile'.there
    PROVE  RowNotOlder'
<1> SUFFICES ASSUME NEW c \in Calls, Served(c, call'[c]), profile'.there
             PROVE  profile'.attempt >= call'[c].at \/ Late(c)'
    BY DEF RowNotOlder, Served
<1>1. Served(c, call[c]) /\ profile' = profile
    OBVIOUS
<1>2. call[c].pc # "new" /\ profile.attempt \in Nat
    BY <1>1 DEF Served, CacheInv, CallTimed, StateTyped, ProfileType
<1>3. profile.attempt >= call[c].at \/ Late(c)
    BY <1>1 DEF CacheInv, RowNotOlder
<1>4. CASE call[c].at # 0
    BY <1>1, <1>2, <1>3, <1>4, TimesKept
<1>5. CASE call[c].at = 0
  <2>1. call[c].pc = "done"
      BY <1>1, <1>5 DEF Served, CacheInv, CallTimed
  <2>2. call'[c] = call[c]
      BY <2>1, TimesKept
  <2> QED
      BY <1>1, <1>2, <1>5, <2>2
<1> QED
    BY <1>4, <1>5

\* A call e that is still going on stores its time: a committed refresh with a
\* newer time sees it as a late call.
LEMMA RowWritten ==
    ASSUME CacheInv, UNCHANGED now, call' \in [Calls -> CallType],
           \A c \in Calls : call'[c] = call[c] \/ Moves(c, call'[c]),
           NEW e \in Calls, call[e].at # 0, call[e].pc # "done",
           profile'.attempt = call[e].at,
           \A c \in Calls \ {e} : Served(c, call'[c]) => Served(c, call[c])
    PROVE  RowNotOlder'
<1>0. \A c \in Calls : call[c].at \in Nat /\ call'[c].at \in Nat
    BY DEF CacheInv, StateTyped, CallType
<1> SUFFICES ASSUME NEW c \in Calls, Served(c, call'[c])
             PROVE  profile'.attempt >= call'[c].at \/ Late(c)'
    BY DEF RowNotOlder, Served
<1>1. call'[e].at = call[e].at /\ call'[e].after = call[e].after
    BY TimesKept
<1>2. CASE c = e
    BY <1>0, <1>1, <1>2
<1>3. CASE c # e
  <2>1. Served(c, call[c]) /\ call[c].pc # "new"
      BY <1>3 DEF Served, CacheInv, CallTimed
  <2>2. call[c].at # 0 \/ call[c].pc = "done"
      BY <2>1 DEF Served, CacheInv, CallTimed
  <2>3. call'[c].at = call[c].at /\ call'[c].after = call[c].after
      BY <2>1, <2>2, TimesKept
  <2>4. CASE call[e].at >= call[c].at
      BY <2>3, <2>4
  <2>5. CASE ~(call[e].at >= call[c].at)
    <3>1. call[e].at <= call[c].at
        BY <1>0, <2>5
    <3>2. c \notin call[e].after
        BY <1>0, <2>5 DEF CacheInv, AfterInOrder
    <3>3. e \notin call[c].after
        BY DEF CacheInv, AfterInOrder
    <3> QED
        BY <1>1, <1>3, <2>3, <3>1, <3>2, <3>3 DEF Late, Overlap
  <2> QED
      BY <2>4, <2>5
<1> QED
    BY <1>2, <1>3

\* Only the record of call c changes.
LEMMA CallStep ==
    ASSUME CacheInv, NEW c \in Calls, NEW r \in CallType,
           call' = [call EXCEPT ![c] = r],
           UNCHANGED <<made, now, profile, events, nextId, holder>>,
           CallShaped(c, r), CallTimed(c, r), Moves(c, r),
           Served(c, r) => Served(c, call[c])
    PROVE  CacheInv'
<1>1. call \in [Calls -> CallType]
    BY DEF CacheInv, StateTyped
<1>2. call' \in [Calls -> CallType] /\ call'[c] = r /\ \A d \in Calls \ {c} : call'[d] = call[d]
    BY <1>1
<1>3. \A d \in Calls : call'[d] = call[d] \/ Moves(d, call'[d])
    BY <1>2
<1>4. \A d \in Calls : Served(d, call'[d]) => Served(d, call[d])
    BY <1>2
<1>5. StateTyped' /\ RowCoherent'
    BY <1>2 DEF CacheInv, StateTyped, RowCoherent, Linked
<1>6. \A d \in Calls : (CallShaped(d, call[d]) /\ CallTimed(d, call[d]))'
  <2> TAKE d \in Calls
  <2>1. CASE d = c
      BY <1>2, <2>1 DEF CallShaped, CallTimed
  <2>2. CASE d # c
      BY <1>2, <2>2 DEF CacheInv, CallShaped, CallTimed
  <2> QED
      BY <2>1, <2>2
<1>7. (AfterInOrder /\ ReadNotOlder /\ AnsweredRefreshCoolsDown)'
    BY <1>2, <1>3, PairsKept
<1>8. RowNotOlder'
    BY <1>2, <1>3, <1>4, RowKept
<1> QED
    BY <1>5, <1>6, <1>7, <1>8 DEF CacheInv

\* The record of an answered call.
LEMMA AnsweredRecord ==
    ASSUME CacheInv, NEW c \in Calls, NEW reply \in Replies, call[c].pc # "done"
    PROVE  /\ Answered(c, reply) \in CallType
           /\ Answered(c, reply).pc = "done" /\ Answered(c, reply).reply = reply
           /\ Moves(c, Answered(c, reply)) /\ CallTimed(c, Answered(c, reply))
<1>1. call[c] \in CallType /\ CallTimed(c, call[c])
    BY DEF CacheInv, StateTyped
<1>2. call[c].at \in Nat /\ call[c].after \in SUBSET Calls
    BY <1>1 DEF CallType
<1>3. NewCall \in CallType
    BY DEF NewCall, NoProfile, CallType, ProfileType, Pcs, Replies, Events
<1>4. /\ Answered(c, reply) \in CallType
      /\ Answered(c, reply).pc = "done" /\ Answered(c, reply).reply = reply
      /\ Answered(c, reply).at = call[c].at /\ Answered(c, reply).after = call[c].after
    BY <1>2, <1>3 DEF Answered, CallType, Pcs
<1> QED
    BY <1>1, <1>4 DEF Moves, CallTimed, Saving

\* A call that holds nothing is answered; a refresh gets 200 only after its
\* Save.
LEMMA AnswerStep ==
    ASSUME CacheInv, NEW c \in Calls, NEW reply \in Replies,
           call[c].pc \notin {"done", "saved"}, Answer(c, reply),
           UNCHANGED <<made, now, profile, events, nextId, holder>>,
           reply = "200" /\ Kind(c) = "refresh" => Served(c, call[c])
    PROVE  CacheInv'
<1> DEFINE r == Answered(c, reply)
<1>1. /\ r \in CallType /\ r.pc = "done" /\ r.reply = reply
      /\ Moves(c, r) /\ CallTimed(c, r)
    BY AnsweredRecord
<1>2. call' = [call EXCEPT ![c] = r]
    BY DEF Answer
<1> HIDE DEF r
<1>3. CallShaped(c, r)
    BY <1>1 DEF CacheInv, CallShaped, Saving
<1>4. Served(c, r) => Served(c, call[c])
    BY <1>1 DEF Served
<1> QED
    BY <1>1, <1>2, <1>3, <1>4, CallStep

\* What a call answers after its Save, or instead of one.
LEMMA ReadBackReply ==
    ASSUME NEW c \in Calls, NEW reply \in {"404", "500"}
    PROVE  /\ ReadBackAnswer(c, reply) \in Replies
           /\ Kind(c) = "refresh" => ReadBackAnswer(c, reply) # "200"
    BY DEF ReadBackAnswer, Replies

\* The call starts.
LEMMA StartStep ==
    ASSUME CacheInv, NEW c \in Calls, Start(c)
    PROVE  CacheInv'
<1> DEFINE pc == CASE Kind(c) = "link"   -> "fetching"
                   [] Kind(c) = "delete" -> "deleting"
                   [] OTHER              -> "reading"
           player == IF Kind(c) = "link" THEN Target(c) ELSE NoCall
           after == {d \in Calls : call[d].pc = "done"}
           r == [call[c] EXCEPT !.pc = pc, !.player = player, !.after = after]
<1>1. call[c] \in CallType /\ call \in [Calls -> CallType] /\ now \in Nat
    BY DEF CacheInv, StateTyped
<1>2. call[c].pc = "new" /\ CallShaped(c, call[c]) /\ CallTimed(c, call[c])
    BY DEF CacheInv, Start
<1>3. /\ pc \in {"fetching", "deleting", "reading"} /\ (pc = "fetching" => Kind(c) = "link")
      /\ pc = "reading" => Kind(c) \in {"current", "refresh"}
    BY ProfileAssumption
<1>4. player \in Players \cup {NoCall} /\ (Kind(c) = "link" => player = Target(c) /\ player \in Players)
    BY ProfileAssumption
<1>5. call' = [call EXCEPT ![c] = r]
    BY <1>1 DEF Start
<1>6. UNCHANGED <<made, now, profile, events, nextId, holder>>
    BY DEF Start
<1> HIDE DEF pc, player
<1>7. r \in CallType
    BY <1>1, <1>3, <1>4 DEF CallType, Pcs
<1>8. r.pc = pc /\ r.player = player /\ r.after = after /\ r.at = call[c].at /\ r.reply = call[c].reply
    BY <1>1 DEF CallType
<1> HIDE DEF r
<1>9. CallShaped(c, r)
    BY <1>2, <1>3, <1>4, <1>8 DEF CallShaped, Saving
<1>10. CallTimed(c, r)
    BY <1>2, <1>3, <1>8 DEF CallTimed, Saving
<1>11. Moves(c, r)
    BY <1>2, <1>3, <1>8 DEF Moves
<1>12. Served(c, r) => Served(c, call[c])
    BY <1>3, <1>8 DEF Served
<1> QED
    BY <1>5, <1>6, <1>7, <1>9, <1>10, <1>11, <1>12, CallStep

\* The two statements of Get.
LEMMA ReadStep ==
    ASSUME CacheInv, NEW c \in Calls, ReadProfile(c) \/ ReadEvents(c)
    PROVE  CacheInv'
<1>1. /\ call[c] \in CallType /\ call \in [Calls -> CallType]
      /\ profile \in ProfileType /\ events \in Events
    BY DEF CacheInv, StateTyped
<1>2. /\ CallShaped(c, call[c]) /\ CallTimed(c, call[c])
      /\ profile.there => Linked(profile)
    BY DEF CacheInv, RowCoherent
<1>3. UNCHANGED <<made, now, profile, events, nextId, holder>>
    BY DEF ReadProfile, ReadEvents
<1>4. CASE /\ call[c].pc \in {"reading", "readback"}
           /\ profile.there
           /\ call' = [call EXCEPT ![c].pc = IF @ = "reading" THEN "readingEvents" ELSE "readbackEvents",
                                   ![c].profile = profile]
  <2> DEFINE pc == IF call[c].pc = "reading" THEN "readingEvents" ELSE "readbackEvents"
             r == [call[c] EXCEPT !.pc = pc, !.profile = profile]
  <2>1. pc \in {"readingEvents", "readbackEvents"} /\ (pc = "readbackEvents" <=> call[c].pc = "readback")
      BY <1>4
  <2>2. call' = [call EXCEPT ![c] = r]
      BY <1>1, <1>4
  <2> HIDE DEF pc
  <2>3. r \in CallType
      BY <1>1, <2>1 DEF CallType, Pcs
  <2>4. /\ r.pc = pc /\ r.profile = profile /\ r.after = call[c].after
        /\ r.at = call[c].at /\ r.reply = call[c].reply
      BY <1>1 DEF CallType
  <2> HIDE DEF r
  <2>5. CallShaped(c, r)
      BY <1>2, <1>4, <2>1, <2>4 DEF CallShaped, Saving
  <2>6. CallTimed(c, r)
      BY <1>2, <1>4, <2>1, <2>4 DEF CallTimed, Saving
  <2>7. Moves(c, r)
      BY <1>4, <2>1, <2>4 DEF Moves
  <2>8. Served(c, r) => Served(c, call[c])
      BY <2>1, <2>4 DEF Served
  <2> QED
      BY <1>3, <2>2, <2>3, <2>5, <2>6, <2>7, <2>8, CallStep
<1>5. CASE call[c].pc = "reading" /\ Answer(c, "404")
    BY <1>3, <1>5, AnswerStep DEF Replies
<1>6. CASE call[c].pc = "readback" /\ Answer(c, ReadBackAnswer(c, "404"))
  <2>1. ReadBackAnswer(c, "404") \in Replies
      BY ReadBackReply
  <2>2. Kind(c) = "refresh" => Served(c, call[c])
      BY <1>6 DEF Served
  <2> QED
      BY <1>3, <1>6, <2>1, <2>2, AnswerStep
<1>7. CASE /\ call[c].pc = "readingEvents"
           /\ \E rows \in Events : call' = [call EXCEPT ![c].pc = "read", ![c].events = rows]
  <2>1. PICK rows \in Events : call' = [call EXCEPT ![c].pc = "read", ![c].events = rows]
      BY <1>7
  <2> DEFINE r == [call[c] EXCEPT !.pc = "read", !.events = rows]
  <2>2. call' = [call EXCEPT ![c] = r]
      BY <1>1, <2>1
  <2>3. r \in CallType
      BY <1>1 DEF CallType, Pcs
  <2>4. /\ r.pc = "read" /\ r.profile = call[c].profile /\ r.after = call[c].after
        /\ r.at = call[c].at /\ r.reply = call[c].reply
      BY <1>1 DEF CallType
  <2> HIDE DEF r
  <2>5. CallShaped(c, r) /\ CallTimed(c, r)
      BY <1>2, <1>7, <2>4 DEF CallShaped, CallTimed, Saving
  <2>6. Moves(c, r)
      BY <1>7, <2>4 DEF Moves
  <2>7. Served(c, r) => Served(c, call[c])
      BY <2>4 DEF Served
  <2> QED
      BY <1>3, <2>2, <2>3, <2>5, <2>6, <2>7, CallStep
<1>8. CASE call[c].pc = "readbackEvents" /\ Answer(c, "200")
  <2>1. Kind(c) = "refresh" => Served(c, call[c])
      BY <1>8 DEF Served
  <2> QED
      BY <1>3, <1>8, <2>1, AnswerStep DEF Replies
<1>9. CASE ReadProfile(c)
    BY <1>4, <1>5, <1>6, <1>9 DEF ReadProfile
<1>10. CASE ReadEvents(c)
  <2> DEFINE rows == IF profile.there /\ profile.id = call[c].profile.id THEN events ELSE {}
  <2>1. rows \in Events
      BY <1>1 DEF Events
  <2>2. \/ call[c].pc = "readingEvents" /\ call' = [call EXCEPT ![c].pc = "read", ![c].events = rows]
        \/ call[c].pc = "readbackEvents" /\ Answer(c, "200")
      BY <1>10 DEF ReadEvents
  <2> HIDE DEF rows
  <2> QED
      BY <1>7, <1>8, <2>1, <2>2
<1> QED
    BY <1>9, <1>10

\* A failed statement.
LEMMA StatementErrorStep ==
    ASSUME CacheInv, NEW c \in Calls, StatementError(c)
    PROVE  CacheInv'
<1>1. UNCHANGED <<made, now, profile, events, nextId, holder>>
    BY DEF StatementError
<1>2. CASE call[c].pc \in {"reading", "readingEvents", "deleting"} /\ Answer(c, "500")
    BY <1>1, <1>2, AnswerStep DEF Replies
<1>3. CASE call[c].pc \in {"readback", "readbackEvents"} /\ Answer(c, ReadBackAnswer(c, "500"))
  <2>1. ReadBackAnswer(c, "500") \in Replies
      BY ReadBackReply
  <2>2. Kind(c) = "refresh" => Served(c, call[c])
      BY <1>3 DEF Served
  <2> QED
      BY <1>1, <1>3, <2>1, <2>2, AnswerStep
<1> QED
    BY <1>2, <1>3 DEF StatementError

\* The cooldown is decided with what was read.
LEMMA DecideStep ==
    ASSUME CacheInv, NEW c \in Calls, Decide(c)
    PROVE  CacheInv'
<1> DEFINE at == IF Kind(c) = "refresh" THEN now ELSE 0
           r == [NewCall EXCEPT !.pc = "fetching", !.player = call[c].profile.player,
                                !.at = at, !.after = call[c].after]
<1>1. /\ call[c] \in CallType /\ call \in [Calls -> CallType]
      /\ now \in Nat /\ now # 0
    BY DEF CacheInv, StateTyped
<1>2. CallShaped(c, call[c]) /\ CallTimed(c, call[c]) /\ call[c].pc = "read"
    BY DEF CacheInv, Decide
<1>3. UNCHANGED <<made, now, profile, events, nextId, holder>>
    BY DEF Decide
<1>4. ASSUME NEW reply \in {"200", "429"}, Answer(c, reply), reply = "200" => Kind(c) = "current"
      PROVE  CacheInv'
    BY <1>2, <1>3, <1>4, AnswerStep DEF Replies
<1>5. CASE WindowElapsed(call[c].profile) /\ call' = [call EXCEPT ![c] = r] /\ Kind(c) # "delete"
                /\ Kind(c) # "link"
  <2>1. at \in Nat /\ at <= now /\ (at # 0 <=> Kind(c) = "refresh") /\ (at = 0 \/ at = now)
      BY <1>1
  <2>2. call[c].profile.player \in Players /\ call[c].after \in SUBSET Calls /\ call[c].at = 0
      BY <1>1, <1>2 DEF CallShaped, CallTimed, Linked, CallType
  <2>3. NewCall \in CallType
      BY DEF NewCall, NoProfile, CallType, ProfileType, Pcs, Replies, Events
  <2>4. now >= call[c].profile.attempt + Cooldown
      BY <1>2, <1>5 DEF WindowElapsed, CallShaped, Linked
  <2> HIDE DEF at
  <2>5. r \in CallType
      BY <2>1, <2>2, <2>3 DEF CallType, Pcs
  <2>6. /\ r.pc = "fetching" /\ r.player = call[c].profile.player /\ r.at = at
        /\ r.after = call[c].after /\ r.reply = "none"
      BY DEF NewCall
  <2> HIDE DEF r
  <2>7. CallShaped(c, r)
      BY <1>2, <1>5, <2>2, <2>6 DEF CallShaped, Saving
  <2>8. CallTimed(c, r)
      BY <2>1, <2>6 DEF CallTimed, Saving
  <2>9. Moves(c, r)
      BY <1>2, <2>1, <2>2, <2>4, <2>6 DEF Moves
  <2>10. ~Served(c, r)
      BY <2>6 DEF Served
  <2> QED
      BY <1>3, <1>5, <2>5, <2>7, <2>8, <2>9, <2>10, CallStep
<1>6. Kind(c) # "delete" /\ Kind(c) # "link"
    BY <1>2 DEF CallShaped
<1>7. CASE /\ WindowElapsed(call[c].profile)
           /\ call' = [call EXCEPT ![c] = r]
    BY <1>5, <1>6, <1>7
<1>8. CASE Answer(c, IF Kind(c) = "current" THEN "200" ELSE "429")
    BY <1>4, <1>8
<1> QED
    BY <1>7, <1>8 DEF Decide

\* The provider answers: the fetched events are those of the id asked for.
LEMMA FetchStep ==
    ASSUME CacheInv, NEW c \in Calls, Fetch(c)
    PROVE  CacheInv'
<1>1. /\ call[c] \in CallType /\ call \in [Calls -> CallType]
      /\ now \in Nat /\ now # 0 /\ made \in Scenarios
    BY DEF CacheInv, StateTyped
<1>2. CallShaped(c, call[c]) /\ CallTimed(c, call[c]) /\ call[c].pc = "fetching"
    BY DEF CacheInv, Fetch
<1>3. UNCHANGED <<made, now, profile, events, nextId, holder>>
    BY DEF Fetch
<1>4. PICK p \in Resolves(call[c].player), fights \in Activity :
        IF Accepted(c, p)
        THEN call' = [call EXCEPT ![c].pc = "saving", ![c].player = p,
                                  ![c].fetched = EventsOf(call[c].player, fights),
                                  ![c].at = IF Kind(c) = "refresh" THEN @ ELSE now]
        ELSE Answer(c, "400")
    BY DEF Fetch
<1>5. CASE ~Accepted(c, p)
    BY <1>2, <1>3, <1>4, <1>5, AnswerStep DEF Replies
<1>6. CASE Accepted(c, p)
  <2> DEFINE at == IF Kind(c) = "refresh" THEN call[c].at ELSE now
             fetched == EventsOf(call[c].player, fights)
             r == [call[c] EXCEPT !.pc = "saving", !.player = p, !.fetched = fetched, !.at = at]
  <2>1. call[c].player \in Players /\ Kind(c) # "delete" /\ (Kind(c) = "link" => call[c].player = Target(c))
      BY <1>2 DEF CallShaped
  <2>2. p \in Players /\ (~made.foreign => p = call[c].player)
      BY <2>1 DEF Resolves
  <2>3. fetched \in Events /\ \A e \in fetched : e.of = call[c].player
    <3>1. fights \subseteq Fights
        BY DEF Fights
    <3> QED
        BY <2>1, <3>1 DEF EventsOf, Events
  <2>4. at \in Nat /\ at # 0 /\ at <= now /\ (at = call[c].at \/ (call[c].at = 0 /\ at = now /\ Kind(c) # "refresh"))
      BY <1>1, <1>2 DEF CallTimed, CallType
  <2>5. call' = [call EXCEPT ![c] = r]
      BY <1>1, <1>4, <1>6
  <2> HIDE DEF at, fetched
  <2>6. r \in CallType
      BY <1>1, <2>2, <2>3, <2>4 DEF CallType, Pcs
  <2>7. /\ r.pc = "saving" /\ r.player = p /\ r.at = at /\ r.fetched = fetched
        /\ r.after = call[c].after /\ r.reply = call[c].reply
      BY <1>1 DEF CallType
  <2> HIDE DEF r
  <2>8. CallShaped(c, r)
      BY <1>2, <1>6, <2>1, <2>2, <2>3, <2>7 DEF CallShaped, Saving, Accepted
  <2>9. CallTimed(c, r)
      BY <1>2, <2>4, <2>7 DEF CallTimed, Saving
  <2>10. Moves(c, r)
      BY <1>2, <2>4, <2>7 DEF Moves
  <2>11. Served(c, r) => Served(c, call[c])
      BY <2>7 DEF Served
  <2> QED
      BY <1>3, <2>5, <2>6, <2>8, <2>9, <2>10, <2>11, CallStep
<1> QED
    BY <1>5, <1>6

\* The provider fails.
LEMMA FetchErrorStep ==
    ASSUME CacheInv, NEW c \in Calls, FetchError(c)
    PROVE  CacheInv'
<1>1. call[c] \in CallType /\ call \in [Calls -> CallType]
    BY DEF CacheInv, StateTyped
<1>2. CallShaped(c, call[c]) /\ CallTimed(c, call[c]) /\ call[c].pc = "fetching"
    BY DEF CacheInv, FetchError
<1>3. UNCHANGED <<made, now, profile, events, nextId, holder>>
    BY DEF FetchError
<1>4. Kind(c) \in {"current", "link", "refresh"}
    BY <1>2, ProfileAssumption DEF CallShaped
<1>5. CASE Kind(c) = "current"
  <2>1. Answer(c, "200")
      BY <1>5 DEF FetchError
  <2> QED
      BY <1>2, <1>3, <1>5, <2>1, AnswerStep DEF Replies
<1>6. CASE Kind(c) = "link"
  <2>1. Answer(c, "500")
      BY <1>6 DEF FetchError
  <2> QED
      BY <1>2, <1>3, <1>6, <2>1, AnswerStep DEF Replies
<1>7. CASE Kind(c) = "refresh"
  <2> DEFINE r == [call[c] EXCEPT !.pc = "marking"]
  <2>1. call' = [call EXCEPT ![c].pc = "marking"]
      BY <1>7 DEF FetchError
  <2>2. call' = [call EXCEPT ![c] = r]
      BY <1>1, <2>1
  <2>3. r \in CallType
      BY <1>1 DEF CallType, Pcs
  <2>4. /\ r.pc = "marking" /\ r.player = call[c].player /\ r.at = call[c].at
        /\ r.after = call[c].after /\ r.reply = call[c].reply
      BY <1>1 DEF CallType
  <2> HIDE DEF r
  <2>5. CallShaped(c, r)
      BY <1>2, <1>7, <2>4 DEF CallShaped, Saving
  <2>6. CallTimed(c, r)
      BY <1>2, <1>7, <2>4 DEF CallTimed, Saving
  <2>7. Moves(c, r)
      BY <1>2, <2>4 DEF Moves
  <2>8. Served(c, r) => Served(c, call[c])
      BY <2>4 DEF Served
  <2> QED
      BY <1>3, <2>2, <2>3, <2>5, <2>6, <2>7, <2>8, CallStep
<1> QED
    BY <1>4, <1>5, <1>6, <1>7

\* The failed refresh is noted in whatever row is there.
LEMMA MarkStep ==
    ASSUME CacheInv, NEW c \in Calls, MarkRefreshFailure(c)
    PROVE  CacheInv'
<1> DEFINE r == Answered(c, "500")
<1>1. /\ call[c] \in CallType /\ call \in [Calls -> CallType]
      /\ profile \in ProfileType
    BY DEF CacheInv, StateTyped
<1>2. CallShaped(c, call[c]) /\ CallTimed(c, call[c]) /\ call[c].pc = "marking"
    BY DEF CacheInv, MarkRefreshFailure
<1>3. call[c].at \in Nat \ {0} /\ Kind(c) = "refresh"
    BY <1>1, <1>2 DEF CallTimed, CallShaped, CallType
<1>4. UNCHANGED <<made, now, events, nextId, holder>> /\ Answer(c, "500")
    BY DEF MarkRefreshFailure
<1>5. CASE UNCHANGED profile
    BY <1>2, <1>4, <1>5, AnswerStep DEF Replies
<1>6. CASE profile.there /\ profile' = [profile EXCEPT !.attempt = call[c].at, !.status = "error"]
  <2>1. /\ r \in CallType /\ r.pc = "done" /\ r.reply = "500"
        /\ Moves(c, r) /\ CallTimed(c, r)
      BY <1>2, AnsweredRecord DEF Replies
  <2>2. call' = [call EXCEPT ![c] = r]
      BY <1>4 DEF Answer
  <2> HIDE DEF r
  <2>3. call' \in [Calls -> CallType] /\ call'[c] = r /\ \A d \in Calls \ {c} : call'[d] = call[d]
      BY <1>1, <2>1, <2>2
  <2>4. \A d \in Calls : call'[d] = call[d] \/ Moves(d, call'[d])
      BY <2>1, <2>3
  <2>5. /\ profile' \in ProfileType /\ profile'.there /\ profile'.player = profile.player
        /\ profile'.id = profile.id /\ profile'.attempt = call[c].at
      BY <1>1, <1>3, <1>6 DEF ProfileType
  <2>6. StateTyped' /\ RowCoherent'
      BY <1>3, <1>4, <1>6, <2>3, <2>5 DEF CacheInv, StateTyped, RowCoherent, Linked
  <2>7. \A d \in Calls : (CallShaped(d, call[d]) /\ CallTimed(d, call[d]))'
    <3> TAKE d \in Calls
    <3>1. CASE d = c
        BY <1>2, <1>4, <2>1, <2>3, <3>1 DEF CallShaped, CallTimed, Saving
    <3>2. CASE d # c
        BY <1>4, <2>3, <3>2 DEF CacheInv, CallShaped, CallTimed
    <3> QED
        BY <3>1, <3>2
  <2>8. (AfterInOrder /\ ReadNotOlder /\ AnsweredRefreshCoolsDown)'
      BY <1>4, <2>3, <2>4, PairsKept
  <2>9. \A d \in Calls \ {c} : Served(d, call'[d]) => Served(d, call[d])
      BY <2>3
  <2>10. RowNotOlder'
      BY <1>2, <1>3, <1>4, <2>3, <2>4, <2>5, <2>9, RowWritten
  <2> QED
      BY <2>6, <2>7, <2>8, <2>10 DEF CacheInv
<1> QED
    BY <1>5, <1>6 DEF MarkRefreshFailure

\* Save writes the row, or waits for the call that has written it.
LEMMA UpsertStep ==
    ASSUME CacheInv, NEW c \in Calls, SaveUpsert(c)
    PROVE  CacheInv'
<1>1. call[c] \in CallType /\ call \in [Calls -> CallType]
    BY DEF CacheInv, StateTyped
<1>2. CallShaped(c, call[c]) /\ CallTimed(c, call[c]) /\ call[c].pc = "saving"
    BY DEF CacheInv, SaveUpsert
<1>3. UNCHANGED <<made, now, profile, events, nextId>>
    BY DEF SaveUpsert
<1>4. ASSUME NEW pc \in {"saved", "waiting"}
      PROVE  LET r == [call[c] EXCEPT !.pc = pc] IN
             /\ r \in CallType /\ Moves(c, r) /\ CallTimed(c, r)
             /\ r.pc = pc /\ r.player = call[c].player /\ r.fetched = call[c].fetched
             /\ Served(c, r) => Served(c, call[c])
  <2> DEFINE r == [call[c] EXCEPT !.pc = pc]
  <2>1. r \in CallType
      BY <1>1 DEF CallType, Pcs
  <2>2. /\ r.pc = pc /\ r.player = call[c].player /\ r.fetched = call[c].fetched
        /\ r.at = call[c].at /\ r.after = call[c].after /\ r.reply = call[c].reply
      BY <1>1 DEF CallType
  <2> HIDE DEF r
  <2>3. Moves(c, r)
      BY <1>2, <2>2 DEF Moves
  <2>4. CallTimed(c, r)
      BY <1>2, <2>2 DEF CallTimed, Saving
  <2>5. Served(c, r) => Served(c, call[c])
      BY <2>2 DEF Served
  <2> QED
      BY <2>1, <2>2, <2>3, <2>4, <2>5 DEF r
<1>5. CASE holder = NoCall /\ holder' = c /\ call' = [call EXCEPT ![c].pc = "saved"]
  <2> DEFINE r == [call[c] EXCEPT !.pc = "saved"]
  <2>1. call' = [call EXCEPT ![c] = r]
      BY <1>1, <1>5
  <2>2. /\ r \in CallType /\ Moves(c, r) /\ CallTimed(c, r) /\ r.pc = "saved"
        /\ r.player = call[c].player /\ r.fetched = call[c].fetched
        /\ Served(c, r) => Served(c, call[c])
      BY <1>4
  <2> HIDE DEF r
  <2>3. call' \in [Calls -> CallType] /\ call'[c] = r /\ \A d \in Calls \ {c} : call'[d] = call[d]
      BY <1>1, <2>1, <2>2
  <2>4. \A d \in Calls : call'[d] = call[d] \/ Moves(d, call'[d])
      BY <2>2, <2>3
  <2>5. \A d \in Calls : Served(d, call'[d]) => Served(d, call[d])
      BY <2>2, <2>3
  <2>6. StateTyped' /\ RowCoherent'
      BY <1>3, <2>3 DEF CacheInv, StateTyped, RowCoherent, Linked
  <2>7. \A d \in Calls : (CallShaped(d, call[d]) /\ CallTimed(d, call[d]))'
    <3> TAKE d \in Calls
    <3>1. CASE d = c
        BY <1>2, <1>3, <1>5, <2>2, <2>3, <3>1 DEF CallShaped, CallTimed, Saving
    <3>2. CASE d # c
        BY <1>3, <1>5, <2>3, <3>2, ProfileAssumption DEF CacheInv, CallShaped, CallTimed
    <3> QED
        BY <3>1, <3>2
  <2>8. (AfterInOrder /\ ReadNotOlder /\ AnsweredRefreshCoolsDown)'
      BY <1>3, <2>3, <2>4, PairsKept
  <2>9. RowNotOlder'
      BY <1>3, <2>3, <2>4, <2>5, RowKept
  <2> QED
      BY <2>6, <2>7, <2>8, <2>9 DEF CacheInv
<1>6. CASE holder # NoCall /\ holder' = holder /\ call' = [call EXCEPT ![c].pc = "waiting"]
  <2> DEFINE r == [call[c] EXCEPT !.pc = "waiting"]
  <2>1. call' = [call EXCEPT ![c] = r]
      BY <1>1, <1>6
  <2>2. /\ r \in CallType /\ Moves(c, r) /\ CallTimed(c, r) /\ r.pc = "waiting"
        /\ r.player = call[c].player /\ r.fetched = call[c].fetched
        /\ Served(c, r) => Served(c, call[c])
      BY <1>4
  <2> HIDE DEF r
  <2>3. CallShaped(c, r)
      BY <1>2, <1>6, <2>2 DEF CallShaped, Saving
  <2> QED
      BY <1>3, <1>6, <2>1, <2>2, <2>3, CallStep
<1> QED
    BY <1>5, <1>6 DEF SaveUpsert

\* The calls when the Save of c ends: those that waited fail or go on.
LEMMA AfterSaveCalls ==
    ASSUME CacheInv, NEW c \in Calls, holder = c, NEW committed \in BOOLEAN,
           NEW next \in CallType, next.pc \in {"readback", "done"},
           Moves(c, next), CallTimed(c, next),
           UNCHANGED <<made, now>>, holder' = NoCall,
           call' = AfterSave(c, next, committed)
    PROVE  /\ call' \in [Calls -> CallType]
           /\ call'[c] = next
           /\ \A d \in Calls : call'[d] = call[d] \/ Moves(d, call'[d])
           /\ \A d \in Calls : (CallShaped(d, call[d]) /\ CallTimed(d, call[d]))'
           /\ \A d \in Calls \ {c} : Served(d, call'[d]) => Served(d, call[d])
<1>0. call \in [Calls -> CallType]
    BY DEF CacheInv, StateTyped
<1>1. call'[c] = next
    BY DEF AfterSave
<1>2. ASSUME NEW d \in Calls \ {c}, call[d].pc # "waiting"
      PROVE  call'[d] = call[d]
    BY <1>2 DEF AfterSave
<1>3. ASSUME NEW d \in Calls \ {c}, call[d].pc = "waiting"
      PROVE  /\ call'[d] \in CallType /\ Moves(d, call'[d]) /\ CallTimed(d, call'[d])
             /\ call'[d].pc = "done" \/ (/\ call'[d].pc = "saving"
                                         /\ call'[d].player = call[d].player
                                         /\ call'[d].fetched = call[d].fetched)
             /\ ~Served(d, call'[d])
  <2>0. call[d] \in CallType /\ CallTimed(d, call[d]) /\ CallShaped(d, call[d])
      BY <1>0 DEF CacheInv
  <2>1. CASE committed
    <3>1. call'[d] = Answered(d, ReadBackAnswer(d, "500"))
        BY <1>3, <2>1 DEF AfterSave
    <3>2. /\ ReadBackAnswer(d, "500") \in Replies
          /\ Kind(d) = "refresh" => ReadBackAnswer(d, "500") # "200"
        BY ReadBackReply
    <3>3. /\ call'[d] \in CallType /\ Moves(d, call'[d]) /\ CallTimed(d, call'[d])
          /\ call'[d].pc = "done" /\ call'[d].reply = ReadBackAnswer(d, "500")
        BY <1>3, <3>1, <3>2, AnsweredRecord
    <3> QED
        BY <3>2, <3>3 DEF Served
  <2>2. CASE ~committed
    <3> DEFINE r == [call[d] EXCEPT !.pc = "saving"]
    <3>1. call'[d] = r
        BY <1>3, <2>2 DEF AfterSave
    <3>2. r \in CallType
        BY <2>0 DEF CallType, Pcs
    <3>3. /\ r.pc = "saving" /\ r.player = call[d].player /\ r.fetched = call[d].fetched
          /\ r.at = call[d].at /\ r.after = call[d].after /\ r.reply = call[d].reply
        BY <2>0 DEF CallType
    <3> HIDE DEF r
    <3>4. Moves(d, r) /\ CallTimed(d, r) /\ ~Served(d, r)
        BY <1>3, <2>0, <3>3 DEF Moves, CallTimed, Saving, Served
    <3> QED
        BY <3>1, <3>2, <3>3, <3>4
  <2> QED
      BY <2>1, <2>2
<1>4. \A d \in Calls : call'[d] \in CallType
    BY <1>0, <1>1, <1>2, <1>3
<1>5. call' \in [Calls -> CallType]
  <2>1. call' = [d \in Calls |-> call'[d]]
      BY DEF AfterSave
  <2> QED
      BY <1>4, <2>1
<1>6. \A d \in Calls : call'[d] = call[d] \/ Moves(d, call'[d])
    BY <1>1, <1>2, <1>3
<1>7. \A d \in Calls : (CallShaped(d, call[d]) /\ CallTimed(d, call[d]))'
  <2> SUFFICES ASSUME NEW d \in Calls
               PROVE  CallShaped(d, call[d])' /\ CallTimed(d, call[d])'
      OBVIOUS
  <2>0. holder' # d
      BY ProfileAssumption
  <2>1. CASE d = c
      BY <1>1, <2>0, <2>1 DEF CallShaped, CallTimed, Saving
  <2>2. CASE d # c /\ call[d].pc # "waiting"
    <3>1. call'[d] = call[d] /\ CallShaped(d, call[d]) /\ CallTimed(d, call[d])
        BY <1>2, <2>2 DEF CacheInv
    <3>2. call[d].pc # "saved"
        BY <2>2, <3>1 DEF CallShaped
    <3> QED
        BY <2>0, <2>2, <3>1, <3>2 DEF CallShaped, CallTimed
  <2>3. CASE d # c /\ call[d].pc = "waiting"
    <3>1. CallShaped(d, call[d])
        BY DEF CacheInv
    <3> QED
        BY <1>3, <2>0, <2>3, <3>1 DEF CallShaped, CallTimed, Saving
  <2> QED
      BY <2>1, <2>2, <2>3
<1>8. \A d \in Calls \ {c} : Served(d, call'[d]) => Served(d, call[d])
    BY <1>2, <1>3
<1> QED
    BY <1>1, <1>5, <1>6, <1>7, <1>8

\* The Save commits: the row and its events are those of one player.
LEMMA CommitStep ==
    ASSUME CacheInv, NEW c \in Calls, SaveCommit(c)
    PROVE  CacheInv'
<1>1. /\ call[c] \in CallType /\ call \in [Calls -> CallType]
      /\ profile \in ProfileType /\ nextId \in Nat
    BY DEF CacheInv, StateTyped
<1>2. /\ CallShaped(c, call[c]) /\ CallTimed(c, call[c]) /\ call[c].pc = "saved"
      /\ holder = c
    BY DEF CacheInv, SaveCommit, CallShaped
<1>3. /\ UNCHANGED <<made, now>> /\ holder' = NoCall
      /\ profile' = SavedProfile(c) /\ events' = call[c].fetched
      /\ nextId' = IF profile.there THEN nextId ELSE nextId + 1
    BY DEF SaveCommit, SavedEvents
<1>4. call[c].at \in Nat \ {0} /\ call[c].player \in Players /\ call[c].fetched \in Events
    BY <1>1, <1>2 DEF CallTimed, CallShaped, CallType, Saving
<1>5. PICK next \in {[call[c] EXCEPT !.pc = "readback"], Answered(c, ReadBackAnswer(c, "500"))} :
         call' = AfterSave(c, next, TRUE)
    BY DEF SaveCommit
<1>6. next \in CallType /\ next.pc \in {"readback", "done"} /\ Moves(c, next) /\ CallTimed(c, next)
  <2>1. CASE next = [call[c] EXCEPT !.pc = "readback"]
    <3>1. next \in CallType
        BY <1>1, <2>1 DEF CallType, Pcs
    <3>2. /\ next.pc = "readback" /\ next.at = call[c].at
          /\ next.after = call[c].after /\ next.reply = call[c].reply
        BY <1>1, <2>1 DEF CallType
    <3> QED
        BY <1>2, <3>1, <3>2 DEF Moves, CallTimed, Saving
  <2>2. CASE next = Answered(c, ReadBackAnswer(c, "500"))
    <3>1. ReadBackAnswer(c, "500") \in Replies
        BY ReadBackReply
    <3> QED
        BY <1>2, <2>2, <3>1, AnsweredRecord
  <2> QED
      BY <2>1, <2>2
<1>7. /\ call' \in [Calls -> CallType]
      /\ \A d \in Calls : call'[d] = call[d] \/ Moves(d, call'[d])
      /\ \A d \in Calls : (CallShaped(d, call[d]) /\ CallTimed(d, call[d]))'
      /\ \A d \in Calls \ {c} : Served(d, call'[d]) => Served(d, call[d])
    BY <1>2, <1>3, <1>5, <1>6, AfterSaveCalls
<1>8. /\ profile' \in ProfileType /\ profile'.there /\ profile'.player = call[c].player
      /\ profile'.id = (IF profile.there THEN profile.id ELSE nextId)
      /\ profile'.attempt = call[c].at
    BY <1>1, <1>3, <1>4 DEF SavedProfile, ProfileType
<1>9. StateTyped'
    BY <1>1, <1>3, <1>4, <1>7, <1>8 DEF CacheInv, StateTyped
<1>10. profile'.id < nextId'
    BY <1>1, <1>3, <1>8 DEF CacheInv, RowCoherent, ProfileType
<1>11. RowCoherent'
    BY <1>2, <1>3, <1>4, <1>8, <1>10 DEF RowCoherent, Linked, CallShaped, Saving
<1>12. (AfterInOrder /\ ReadNotOlder /\ AnsweredRefreshCoolsDown)'
    BY <1>3, <1>7, PairsKept
<1>13. RowNotOlder'
    BY <1>2, <1>3, <1>4, <1>7, <1>8, RowWritten
<1> QED
    BY <1>7, <1>9, <1>11, <1>12, <1>13 DEF CacheInv

\* A failed Save releases the row and leaves it as it was.
LEMMA SaveErrorStep ==
    ASSUME CacheInv, NEW c \in Calls, SaveError(c)
    PROVE  CacheInv'
<1> DEFINE reply == ReadBackAnswer(c, "500")
<1>1. CallShaped(c, call[c]) /\ call[c].pc \in {"saving", "waiting", "saved"}
    BY DEF CacheInv, SaveError
<1>2. UNCHANGED <<made, now, profile, events, nextId>>
    BY DEF SaveError
<1>3. reply \in Replies /\ (Kind(c) = "refresh" => reply # "200")
    BY ReadBackReply
<1>4. CASE holder # c
    BY <1>1, <1>2, <1>3, <1>4, AnswerStep DEF SaveError, CallShaped, Answer
<1>5. CASE holder = c
  <2> DEFINE next == Answered(c, reply)
  <2>1. /\ next \in CallType /\ next.pc = "done" /\ next.reply = reply
        /\ Moves(c, next) /\ CallTimed(c, next)
      BY <1>1, <1>3, AnsweredRecord
  <2>2. holder' = NoCall /\ call' = AfterSave(c, next, FALSE)
      BY <1>5 DEF SaveError
  <2> HIDE DEF next
  <2>3. /\ call' \in [Calls -> CallType]
        /\ call'[c] = next
        /\ \A d \in Calls : call'[d] = call[d] \/ Moves(d, call'[d])
        /\ \A d \in Calls : (CallShaped(d, call[d]) /\ CallTimed(d, call[d]))'
        /\ \A d \in Calls \ {c} : Served(d, call'[d]) => Served(d, call[d])
      BY <1>2, <1>5, <2>1, <2>2, AfterSaveCalls
  <2>4. ~Served(c, call'[c])
      BY <1>3, <2>1, <2>3 DEF Served
  <2>5. \A d \in Calls : Served(d, call'[d]) => Served(d, call[d])
      BY <2>3, <2>4
  <2>6. StateTyped' /\ RowCoherent'
      BY <1>2, <2>3 DEF CacheInv, StateTyped, RowCoherent, Linked
  <2>7. (AfterInOrder /\ ReadNotOlder /\ AnsweredRefreshCoolsDown)'
      BY <1>2, <2>3, PairsKept
  <2>8. RowNotOlder'
      BY <1>2, <2>3, <2>5, RowKept
  <2> QED
      BY <2>3, <2>6, <2>7, <2>8 DEF CacheInv
<1> QED
    BY <1>4, <1>5

\* Unlink removes the row with its events.
LEMMA DeleteStep ==
    ASSUME CacheInv, NEW c \in Calls, Delete(c)
    PROVE  CacheInv'
<1> DEFINE reply == IF profile.there THEN "204" ELSE "404"
           r == Answered(c, reply)
<1>1. call \in [Calls -> CallType] /\ call[c].pc = "deleting" /\ CallShaped(c, call[c])
    BY DEF CacheInv, StateTyped, Delete
<1>2. /\ UNCHANGED <<made, now, nextId, holder>> /\ profile' = NoProfile /\ events' = {}
      /\ call' = [call EXCEPT ![c] = r]
    BY DEF Delete, Answer
<1>3. reply \in Replies /\ reply # "200"
    BY DEF Replies
<1>4. /\ r \in CallType /\ r.pc = "done" /\ r.reply = reply
      /\ Moves(c, r) /\ CallTimed(c, r)
    BY <1>1, <1>3, AnsweredRecord
<1> HIDE DEF r, reply
<1>5. call' \in [Calls -> CallType] /\ call'[c] = r /\ \A d \in Calls \ {c} : call'[d] = call[d]
    BY <1>1, <1>2, <1>4
<1>6. \A d \in Calls : call'[d] = call[d] \/ Moves(d, call'[d])
    BY <1>4, <1>5
<1>7. \A d \in Calls : Served(d, call'[d]) => Served(d, call[d])
    BY <1>3, <1>4, <1>5 DEF Served
<1>8. NoProfile \in ProfileType /\ ~NoProfile.there
    BY DEF NoProfile, ProfileType
<1>9. StateTyped' /\ RowCoherent'
    BY <1>2, <1>5, <1>8 DEF CacheInv, StateTyped, RowCoherent, Events
<1>10. \A d \in Calls : (CallShaped(d, call[d]) /\ CallTimed(d, call[d]))'
  <2> TAKE d \in Calls
  <2>1. CASE d = c
      BY <1>1, <1>2, <1>4, <1>5, <2>1 DEF CallShaped, CallTimed, Saving
  <2>2. CASE d # c
      BY <1>2, <1>5, <2>2 DEF CacheInv, CallShaped, CallTimed
  <2> QED
      BY <2>1, <2>2
<1>11. (AfterInOrder /\ ReadNotOlder /\ AnsweredRefreshCoolsDown)'
    BY <1>2, <1>5, <1>6, PairsKept
<1>12. RowNotOlder'
    BY <1>2, <1>5, <1>6, <1>7, <1>8, RowKept
<1> QED
    BY <1>9, <1>10, <1>11, <1>12 DEF CacheInv

\* Nothing was read, saved or answered at the start; an old row is coherent.
LEMMA InitCache == Init => CacheInv
<1> SUFFICES ASSUME Init PROVE CacheInv
    OBVIOUS
<1> USE DEF Init
<1>1. NewCall \in CallType
    BY DEF NewCall, NoProfile, CallType, ProfileType, Pcs, Replies, Events
<1>2. call \in [Calls -> CallType] /\ \A c \in Calls : call[c] = NewCall
    BY <1>1
<1>3. now \in 1..MaxTime /\ nextId \in Nat /\ made \in Scenarios
    BY ProfileAssumption
<1>4. profile \in ProfileType /\ events \in Events /\ RowCoherent
  <2>1. CASE profile = NoProfile /\ events = {}
      BY <2>1 DEF NoProfile, ProfileType, Events, RowCoherent
  <2>2. ASSUME NEW p \in Players, NEW fights \in made.cached,
               profile = [there |-> TRUE, id |-> 1, player |-> p, refreshed |-> 1,
                          attempt |-> 1, status |-> "ok"],
               events = EventsOf(p, fights)
        PROVE  profile \in ProfileType /\ events \in Events /\ RowCoherent
    <3>1. profile \in ProfileType /\ Linked(profile) /\ profile.player = p /\ profile.id < nextId
        BY <2>2 DEF ProfileType, Linked
    <3>2. fights \subseteq Fights
      <4>1. fights \subseteq UNION made.cached
          OBVIOUS
      <4>2. UNION made.cached \in {UNION s.cached : s \in Scenarios}
          BY <1>3, Zenon
      <4>3. UNION made.cached \subseteq UNION {UNION s.cached : s \in Scenarios}
          BY <4>2, Zenon
      <4> QED
          BY <4>1, <4>3, Zenon DEF Fights
    <3>3. \A f \in fights : /\ [of |-> p, fight |-> f] \in [of : Players, fight : Fights]
                            /\ [of |-> p, fight |-> f].of = p
        BY <3>2
    <3>4. events \in Events /\ \A e \in events : e.of = p
        BY <2>2, <3>3, Zenon DEF EventsOf, Events
    <3> QED
        BY <3>1, <3>4 DEF RowCoherent, Linked
  <2> QED
      BY <2>1, <2>2
<1>5. \A c \in Calls : CallShaped(c, call[c]) /\ CallTimed(c, call[c])
    BY <1>2, <1>3, ProfileAssumption DEF NewCall, CallShaped, CallTimed, Saving
<1>6. \A c \in Calls : call[c].after = {} /\ call[c].reply = "none" /\ call[c].pc = "new" /\ call[c].at = 0
    BY <1>2 DEF NewCall
<1>7. AfterInOrder /\ RowNotOlder /\ ReadNotOlder /\ AnsweredRefreshCoolsDown
    BY <1>6 DEF AfterInOrder, RowNotOlder, ReadNotOlder, AnsweredRefreshCoolsDown, Served, Refreshing
<1> QED
    BY <1>2, <1>3, <1>4, <1>5, <1>7 DEF CacheInv, StateTyped

\* Every step of the calls and of the clock keeps the invariant.
LEMMA NextCache == CacheInv /\ [Next]_vars => CacheInv'
<1> SUFFICES ASSUME CacheInv, [Next]_vars PROVE CacheInv'
    OBVIOUS
<1>1. CASE UNCHANGED vars
    BY <1>1 DEF vars, CacheInv, StateTyped, RowCoherent, Linked, CallShaped, CallTimed,
       AfterInOrder, RowNotOlder, ReadNotOlder, AnsweredRefreshCoolsDown, Served, Late,
       Overlap, Refreshing
<1>2. CASE Tick
  <2>1. UNCHANGED <<made, profile, events, nextId, holder, call>> /\ now' = now + 1
      BY <1>2 DEF Tick
  <2>2. StateTyped'
      BY <1>2, <2>1, ProfileAssumption DEF Tick, CacheInv, StateTyped
  <2>3. \A c \in Calls : (CallShaped(c, call[c]) /\ CallTimed(c, call[c]))'
    <3>1. \A c \in Calls : call[c].at \in Nat /\ now \in Nat
        BY DEF CacheInv, StateTyped, CallType
    <3>2. \A c \in Calls : CallShaped(c, call[c]) /\ CallTimed(c, call[c])
        BY DEF CacheInv
    <3> QED
        BY <2>1, <3>1, <3>2 DEF CallShaped, CallTimed
  <2>4. RowCoherent' /\ AfterInOrder' /\ RowNotOlder' /\ ReadNotOlder' /\ AnsweredRefreshCoolsDown'
      BY <2>1 DEF CacheInv, RowCoherent, Linked,
         AfterInOrder, RowNotOlder, ReadNotOlder, AnsweredRefreshCoolsDown, Served, Late,
         Overlap, Refreshing
  <2> QED
      BY <2>2, <2>3, <2>4 DEF CacheInv
<1>3. ASSUME NEW c \in Calls,
             Start(c) \/ Step(c) \/ StatementError(c) \/ FetchError(c) \/ SaveError(c)
      PROVE  CacheInv'
    BY <1>3, StartStep, ReadStep, DecideStep, FetchStep, MarkStep, UpsertStep, CommitStep,
       DeleteStep, StatementErrorStep, FetchErrorStep, SaveErrorStep DEF Step
<1> QED
    BY <1>1, <1>2, <1>3 DEF Next

\* CacheInv holds in every reachable state.
THEOREM CacheInvariant == Spec => []CacheInv
<1> QED
    BY InitCache, NextCache, PTL DEF Spec

\* Whatever reads, links, refreshes and unlinks overlap (service.go,
\* repository_write.go), the cached events are those of the linked player, and
\* a Save holds the row exactly while it has written it.
THEOREM CacheCoherence == Spec => []CacheCoherent
<1>1. CacheInv => CacheCoherent
  <2> SUFFICES ASSUME CacheInv PROVE CacheCoherent
      OBVIOUS
  <2>1. profile.there \in BOOLEAN /\ (profile.there => profile.player \in Players /\ profile.id < nextId)
      BY DEF CacheInv, StateTyped, ProfileType, RowCoherent, Linked
  <2>2. \A c \in Calls :
          /\ call[c].pc \in Pcs /\ call[c].reply \in Replies
          /\ holder = c <=> call[c].pc = "saved"
          /\ call[c].pc = "waiting" => holder # NoCall
      BY DEF CacheInv, StateTyped, CallType, CallShaped
  <2> QED
      BY <2>1, <2>2 DEF CacheInv, StateTyped, RowCoherent, CacheCoherent, TypeOK, Pcs, Replies
<1> QED
    BY <1>1, CacheInvariant, PTL

\* A refresh that follows an answered one waits for the cooldown (the check in
\* Service.Refresh), unless a call that overlapped the first stored an older
\* time.
THEOREM RefreshCoolsDown == Spec => []AnsweredRefreshCoolsDown
<1>1. CacheInv => AnsweredRefreshCoolsDown
    BY DEF CacheInv
<1> QED
    BY <1>1, CacheInvariant, PTL

\* A link saves the player it was asked for (Service.Link compares the id the
\* provider returned).
THEOREM LinkSaves == Spec => LinkSavesRequested
<1>1. CacheInv /\ [Next]_vars =>
          [\A c \in Calls : Kind(c) = "link" /\ SaveCommit(c) => profile'.player = Target(c)]_vars
  <2> SUFFICES ASSUME CacheInv, NEW c \in Calls, Kind(c) = "link", SaveCommit(c)
               PROVE  profile'.player = Target(c)
      OBVIOUS
  <2>1. call[c].pc = "saved" /\ profile'.player = call[c].player
      BY DEF SaveCommit, SavedProfile
  <2> QED
      BY <2>1 DEF CacheInv, CallShaped, Saving
<1> QED
    BY <1>1, CacheInvariant, PTL DEF Spec, LinkSavesRequested
=============================================================================
