------------------------------ MODULE ChatTurn ------------------------------
(***************************************************************************)
(* service/chat and service/session: the turns of one chat session.        *)
(*                                                                         *)
(* Requests are HTTP handlers, each with a goroutine of its own.  A        *)
(* request finds or creates the session's AIHelper, runs a turn under the  *)
(* helper's turn lock, and after the lock is released takes away the       *)
(* clarifying question and the tool warnings the turn left on the helper.  *)
(* The janitor drops helpers nobody has used for idleTTL (30 minutes); a   *)
(* later request builds a new one from the database.                       *)
(*                                                                         *)
(* A helper is named by the request that created it, Old if that was       *)
(* before the behaviours of this model begin.  Messages are known by their *)
(* turn and their author.  saveFunc hands a message to PublishOrPersist    *)
(* and only logs an error: what of the messages handed over the table      *)
(* holds when it is read is left open here, and what becomes of them is    *)
(* module MessagePersistence.                                              *)
(***************************************************************************)
EXTENDS Integers, Sequences, SequencesExt

CONSTANTS Requests,       \* HTTP requests of the session's user
          Old,            \* the turn, and the request, that stand for all earlier ones
          None,
          ForceClarify,   \* the debug switch [agent] forceClarifyQuestion
          CompressAfter,  \* Compressor: histories this short are left alone (4)
          KeepAtLeast,    \* ... and a compressed one keeps this many (2)
          KeepAtMost      \* ... up to this many messages (6)

ASSUME ChatTurnAssumption ==
  /\ Old \notin Requests /\ None \notin Requests \cup {Old}
  /\ ForceClarify \in BOOLEAN
  /\ {CompressAfter, KeepAtLeast, KeepAtMost} \subseteq Nat
  /\ 0 < KeepAtLeast /\ KeepAtLeast <= CompressAfter /\ KeepAtLeast <= KeepAtMost

VARIABLES current,    \* AIHelperManager.helpers[user][session]
          stale,      \* [helper -> lastUsed is more than idleTTL ago]
          messages,   \* AIHelper.messages
          summary,    \* AIHelper.summary, as the messages it sums up
          turn,       \* AIHelper.turn: the request that holds it
          clarify,    \* AIHelper.clarify, as the turn that raised it
          warnings,   \* AIHelper.warnings, as the turn that raised them
          saved,      \* the messages handed to saveFunc, in order
          at, kind,   \* [request -> where it stands, which handler it is]
          helper,     \* [request -> the helper it has found or created]
          snapshot,   \* [request -> length of the history compressIfNeeded copied]
          outcome,    \* [request -> how its turn ended]
          broken,     \* [request -> has a chunk failed to reach the client?]
          got         \* [request -> the question it has taken away, and its reply]

helperVars == <<stale, messages, summary, turn, clarify, warnings>>
vars == <<current, helperVars, saved, at, kind, helper, snapshot, outcome, broken, got>>

Turns == Requests \cup {Old}
Helpers == Requests \cup {Old}
Message == [turn : Turns, user : BOOLEAN]
Question(r) == [turn |-> r, user |-> TRUE]
Answer(r) == [turn |-> r, user |-> FALSE]
InTurn == {"asked", "compressing", "prepared", "generating", "concluding"}

TypeOK ==
  /\ current \in Helpers \cup {None}
  /\ stale \in [Helpers -> BOOLEAN]
  /\ messages \in [Helpers -> Seq(Message)] /\ summary \in [Helpers -> Seq(Message)]
  /\ turn \in [Helpers -> Requests \cup {None}]
  /\ clarify \in [Helpers -> Requests \cup {None}]
  /\ warnings \in [Helpers -> Requests \cup {None}]
  /\ saved \in Seq(Message)
  /\ at \in [Requests -> {"start", "found", "creating", "seeded", "ready", "returned",
                          "took", "done"} \cup InTurn]
  /\ kind \in [Requests -> {"sync", "stream", "history"}]
  /\ helper \in [Requests -> Helpers \cup {None}]
  /\ snapshot \in [Requests -> Nat]
  /\ outcome \in [Requests -> {"none", "answer", "error", "asks", "rejected"}]
  /\ broken \in [Requests -> BOOLEAN]
  /\ got \in [Requests -> [clarify : Requests \cup {None},
                           reply : {"none", "answer", "clarify", "error", "gone", "history"}]]
  /\ \A r \in Requests : at[r] \in InTurn <=> helper[r] # None /\ turn[helper[r]] = r

Init == /\ saved \in {<<>>, <<Question(Old), Answer(Old)>>}
        /\ current \in {None, Old}
        /\ stale = [h \in Helpers |-> FALSE]
        /\ messages = [h \in Helpers |-> IF h = current THEN saved ELSE <<>>]
        /\ summary = [h \in Helpers |-> <<>>]
        /\ turn = [h \in Helpers |-> None]
        /\ clarify = [h \in Helpers |-> None]
        /\ warnings = [h \in Helpers |-> None]
        /\ at = [r \in Requests |-> "start"]
        /\ kind \in [Requests -> {"sync", "stream", "history"}]
        /\ helper = [r \in Requests |-> None]
        /\ snapshot = [r \in Requests |-> 0]
        /\ outcome = [r \in Requests |-> "none"]
        /\ broken = [r \in Requests |-> FALSE]
        /\ got = [r \in Requests |-> [clarify |-> None, reply |-> "none"]]

Goto(r, place) == at' = [at EXCEPT ![r] = place]
-----------------------------------------------------------------------------
(* The messages table *)

\* The elements of s that are in S, in their order: SelectSeq for a set.
Only(s, S) ==
  LET f[n \in 0 .. Len(s)] == IF n = 0 THEN <<>>
                              ELSE IF s[n] \in S THEN Append(f[n - 1], s[n]) ELSE f[n - 1]
  IN f[Len(s)]

SaidBefore == {m \in Message : m.turn = Old}

\* What the messages table may show: all that was said before, and of what the
\* turns have handed over whatever is neither under way nor lost.
Tables == {Only(saved, SaidBefore \cup S) : S \in SUBSET Message}
-----------------------------------------------------------------------------
(* Finding the helper *)

requestVars == <<snapshot, outcome, broken>>

\* The read-locked fast path of GetOrCreateAIHelper, or a miss.  touch comes
\* after the lock is released.
Lookup(r) ==
  /\ at[r] = "start" /\ kind[r] # "history"
  /\ IF current # None THEN helper' = [helper EXCEPT ![r] = current] /\ Goto(r, "found")
     ELSE Goto(r, "creating") /\ UNCHANGED helper
  /\ UNCHANGED <<current, helperVars, saved, kind, requestVars, got>>

Touch(r) == /\ at[r] = "found"
            /\ stale' = [stale EXCEPT ![helper[r]] = FALSE]
            /\ Goto(r, "ready")
            /\ UNCHANGED <<current, messages, summary, turn, clarify, warnings, saved,
                           kind, helper, requestVars, got>>

\* GetChatHistory: the live helper's messages, else the table; a session
\* that has none there gets a helper.
ReadHistory(r, table) ==
  /\ at[r] = "start" /\ kind[r] = "history"
  /\ IF current = None /\ table = <<>>
     THEN Goto(r, "creating") /\ UNCHANGED <<stale, got>>
     ELSE /\ Goto(r, "done")
          /\ got' = [got EXCEPT ![r].reply = "history"]
          /\ stale' = [h \in Helpers |-> stale[h] /\ h # current]
  /\ UNCHANGED <<current, messages, summary, turn, clarify, warnings, saved, kind, helper,
                 requestVars>>

HistoryFails(r) == /\ at[r] = "start" /\ kind[r] = "history" /\ current = None
                   /\ Goto(r, "done")
                   /\ got' = [got EXCEPT ![r].reply = "error"]
                   /\ UNCHANGED <<current, helperVars, saved, kind, helper, requestVars>>

\* The slow path, outside the lock: seedHistory.  A database error is logged
\* and the helper starts empty.
Seed(r, table) ==
  /\ at[r] = "creating"
  /\ messages' = [messages EXCEPT ![r] = table]
  /\ Goto(r, "seeded")
  /\ UNCHANGED <<current, stale, summary, turn, clarify, warnings, saved, kind, helper,
                 requestVars, got>>

CreateFails(r) == /\ at[r] = "creating"
                  /\ Goto(r, "done")
                  /\ got' = [got EXCEPT ![r].reply = "error"]
                  /\ UNCHANGED <<current, helperVars, saved, kind, helper, requestVars>>

AfterInsert(r) == IF kind[r] = "history" THEN "done" ELSE "ready"

\* Mutant: no second look under the write lock.
InsertBlindly(r) == /\ at[r] = "seeded"
                    /\ helper' = [helper EXCEPT ![r] = r]
                    /\ current' = r
                    /\ Goto(r, AfterInsert(r))
                    /\ UNCHANGED <<helperVars, saved, kind, requestVars, got>>

\* Under the write lock: somebody else's helper wins, and is not touched.
Insert(r) == /\ at[r] = "seeded"
             /\ LET winner == IF current = None THEN r ELSE current
                IN  /\ helper' = [helper EXCEPT ![r] = winner]
                    /\ current' = winner
                    /\ messages' = IF winner = r THEN messages ELSE [messages EXCEPT ![r] = <<>>]
             /\ Goto(r, AfterInsert(r))
             /\ UNCHANGED <<stale, summary, turn, clarify, warnings, saved, kind, requestVars, got>>

\* idleTTL passes.  A request takes far less than the 30 minutes of the
\* TTL, so nobody is using the helper all that time.
GoesIdle(h) == /\ ~stale[h] /\ current = h
               /\ \A r \in Requests : helper[r] = h => at[r] = "done"
               /\ stale' = [stale EXCEPT ![h] = TRUE]
               /\ UNCHANGED <<current, messages, summary, turn, clarify, warnings, saved,
                              at, kind, helper, requestVars, got>>

EvictIdle == /\ current # None /\ stale[current]
             /\ current' = None
             /\ UNCHANGED <<helperVars, saved, at, kind, helper, requestVars, got>>
-----------------------------------------------------------------------------
(* The turn *)

Add(h, m) == /\ messages' = [messages EXCEPT ![h] = Append(@, m)]
             /\ saved' = Append(saved, m)

\* turn.Lock, touch and the user's message.
Lock(r) == LET h == helper[r]
           IN  /\ at[r] = "ready" /\ turn[h] = None
               /\ turn' = [turn EXCEPT ![h] = r]
               /\ stale' = [stale EXCEPT ![h] = FALSE]
               /\ Add(h, Question(r))
               /\ Goto(r, "asked")
               /\ UNCHANGED <<current, summary, clarify, warnings, kind, helper, requestVars, got>>

\* compressIfNeeded copies the history; a short one is left alone.
Snapshot(r) ==
  LET n == Len(messages[helper[r]])
  IN  /\ at[r] = "asked" /\ n > CompressAfter
      /\ snapshot' = [snapshot EXCEPT ![r] = n]
      /\ Goto(r, "compressing")
      /\ UNCHANGED <<current, helperVars, saved, kind, helper, outcome, broken, got>>

\* Within the token budget, or the summary cannot be had.
NotCompressed(r) == /\ at[r] \in {"asked", "compressing"}
                    /\ snapshot' = [snapshot EXCEPT ![r] = 0]
                    /\ Goto(r, "prepared")
                    /\ UNCHANGED <<current, helperVars, saved, kind, helper, outcome, broken, got>>

\* Mutant: the new summary replaces the old one.
CompressOverwrites(r, keep) ==
  LET h == helper[r] cut == snapshot[r] - keep
  IN  /\ at[r] = "compressing" /\ keep < snapshot[r]
      /\ messages' = [messages EXCEPT ![h] = SubSeq(@, cut + 1, snapshot[r])]
      /\ summary' = [summary EXCEPT ![h] = SubSeq(messages[h], 1, cut)]
      /\ snapshot' = [snapshot EXCEPT ![r] = 0]
      /\ Goto(r, "prepared")
      /\ UNCHANGED <<current, stale, turn, clarify, warnings, saved, kind, helper, outcome, broken, got>>

\* The model has summed up all but the last keep messages of the copy.  The
\* helper's history becomes those of the copy, whatever it is by now.
Compress(r, keep) ==
  LET h == helper[r] cut == snapshot[r] - keep
  IN  /\ at[r] = "compressing" /\ keep < snapshot[r]
      /\ messages' = [messages EXCEPT ![h] = SubSeq(@, cut + 1, snapshot[r])]
      /\ summary' = [summary EXCEPT ![h] = @ \o SubSeq(messages[h], 1, cut)]
      /\ snapshot' = [snapshot EXCEPT ![r] = 0]
      /\ Goto(r, "prepared")
      /\ UNCHANGED <<current, stale, turn, clarify, warnings, saved, kind, helper, outcome, broken, got>>

Unlock(r) == turn' = [turn EXCEPT ![helper[r]] = None] /\ Goto(r, "returned")

\* Mutant: the early return forgets the lock.
RejectKeepsLock(r) == /\ at[r] = "prepared"
                      /\ outcome' = [outcome EXCEPT ![r] = "rejected"]
                      /\ Goto(r, "returned")
                      /\ UNCHANGED <<current, helperVars, saved, kind, helper, snapshot, broken, got>>

\* CheckQuota says no: the question stays without an answer.
Reject(r) == /\ at[r] = "prepared"
             /\ outcome' = [outcome EXCEPT ![r] = "rejected"]
             /\ Unlock(r)
             /\ UNCHANGED <<current, stale, messages, summary, clarify, warnings, saved, kind,
                            helper, snapshot, broken, got>>

FirstTurn(r) == Len(messages[helper[r]]) <= 1

\* A first question streamed from the cache: no warnings, no clarification.
StreamCached(r, fails) ==
  /\ at[r] = "prepared" /\ kind[r] = "stream" /\ FirstTurn(r)
  /\ outcome' = [outcome EXCEPT ![r] = "answer"]
  /\ broken' = [broken EXCEPT ![r] = fails]
  /\ Add(helper[r], Answer(r))
  /\ Unlock(r)
  /\ UNCHANGED <<current, stale, summary, clarify, warnings, kind, helper, snapshot, got>>

\* Coordinator.Do, or the model itself, returns.  A stream can break only
\* once text flows, and ask_user interrupts the agent before any does.
Generate(r, how, fails) ==
  /\ at[r] = "prepared"
  /\ how \in {"answer", "error", "asks"}
  /\ fails => kind[r] = "stream" /\ how # "asks"
  /\ outcome' = [outcome EXCEPT ![r] = how]
  /\ broken' = [broken EXCEPT ![r] = fails]
  /\ Goto(r, "generating")
  /\ UNCHANGED <<current, helperVars, saved, kind, helper, snapshot, got>>

\* setWarnings; without any it leaves the field alone.
SetWarnings(r, some) ==
  /\ at[r] = "generating"
  /\ warnings' = IF some THEN [warnings EXCEPT ![helper[r]] = r] ELSE warnings
  /\ Goto(r, "concluding")
  /\ UNCHANGED <<current, stale, messages, summary, turn, clarify, saved, kind, helper,
                 requestVars, got>>

Asks(r) == outcome[r] = "asks" \/ (ForceClarify /\ FirstTurn(r))

\* finishClarify: the question comes before any error, and is a message.
Clarify(r) ==
  /\ at[r] = "concluding" /\ Asks(r)
  /\ clarify' = [clarify EXCEPT ![helper[r]] = r]
  /\ outcome' = [outcome EXCEPT ![r] = "asks"]
  /\ Add(helper[r], Answer(r))
  /\ Unlock(r)
  /\ UNCHANGED <<current, stale, summary, warnings, kind, helper, snapshot, broken, got>>

Fail(r) == /\ at[r] = "concluding" /\ ~Asks(r) /\ outcome[r] = "error"
           /\ Unlock(r)
           /\ UNCHANGED <<current, stale, messages, summary, clarify, warnings, saved, kind,
                          helper, requestVars, got>>

Reply(r) == /\ at[r] = "concluding" /\ ~Asks(r) /\ outcome[r] = "answer"
            /\ Add(helper[r], Answer(r))
            /\ Unlock(r)
            /\ UNCHANGED <<current, stale, summary, clarify, warnings, kind, helper, requestVars, got>>
-----------------------------------------------------------------------------
(* After the turn: ChatSend, StreamMessageToExistingSession *)

\* What the handler returns, given the question it has taken.
Response(r, question) ==
  IF broken[r] THEN "gone"
  ELSE IF question # None THEN "clarify"
  ELSE IF outcome[r] \in {"error", "rejected"} THEN "error" ELSE "answer"

Finish(r, question) ==
  got' = [got EXCEPT ![r] = [clarify |-> question, reply |-> Response(r, question)]]

\* Mutant: the question is read and left where it is.
ReadClarify(r) ==
  /\ kind[r] = "sync" /\ at[r] = "returned"
  /\ got' = [got EXCEPT ![r].clarify = clarify[helper[r]]]
  /\ Goto(r, "took")
  /\ UNCHANGED <<current, helperVars, saved, kind, helper, requestVars>>

\* ChatSend takes the question first, then the warnings.
TakeClarify(r) ==
  /\ kind[r] = "sync" /\ at[r] = "returned"
  /\ got' = [got EXCEPT ![r].clarify = clarify[helper[r]]]
  /\ clarify' = [clarify EXCEPT ![helper[r]] = None]
  /\ Goto(r, "took")
  /\ UNCHANGED <<current, stale, messages, summary, turn, warnings, saved, kind, helper, requestVars>>

TakeWarnings(r) ==
  /\ kind[r] = "sync" /\ at[r] = "took"
  /\ Finish(r, got[r].clarify)
  /\ warnings' = [warnings EXCEPT ![helper[r]] = None]
  /\ Goto(r, "done")
  /\ UNCHANGED <<current, stale, messages, summary, turn, clarify, saved, kind, helper, requestVars>>

\* A stream takes the warnings first.
StreamTakesWarnings(r) ==
  /\ kind[r] = "stream" /\ at[r] = "returned"
  /\ warnings' = [warnings EXCEPT ![helper[r]] = None]
  /\ Goto(r, "took")
  /\ UNCHANGED <<current, stale, messages, summary, turn, clarify, saved, kind, helper, requestVars, got>>

\* When the client has gone it returns there and then, without the question.
StreamGone(r) ==
  /\ kind[r] = "stream" /\ at[r] = "took" /\ broken[r]
  /\ Finish(r, None)
  /\ Goto(r, "done")
  /\ UNCHANGED <<current, helperVars, saved, kind, helper, requestVars>>

StreamTakesClarify(r) ==
  /\ kind[r] = "stream" /\ at[r] = "took" /\ ~broken[r]
  /\ Finish(r, clarify[helper[r]])
  /\ clarify' = [clarify EXCEPT ![helper[r]] = None]
  /\ Goto(r, "done")
  /\ UNCHANGED <<current, stale, messages, summary, turn, warnings, saved, kind, helper, requestVars>>
-----------------------------------------------------------------------------
Request(r) ==
  \/ Lookup(r) \/ Touch(r) \/ CreateFails(r) \/ Insert(r)
  \/ HistoryFails(r) \/ (at[r] = "start" /\ \E table \in Tables : ReadHistory(r, table))
  \/ (at[r] = "creating" /\ \E table \in Tables \cup {<<>>} : Seed(r, table))
  \/ Lock(r) \/ Snapshot(r) \/ NotCompressed(r)
  \/ \E keep \in KeepAtLeast .. KeepAtMost : Compress(r, keep)
  \/ Reject(r)
  \/ \E fails \in BOOLEAN : StreamCached(r, fails)
  \/ \E how \in {"answer", "error", "asks"}, fails \in BOOLEAN : Generate(r, how, fails)
  \/ \E some \in BOOLEAN : SetWarnings(r, some)
  \/ Clarify(r) \/ Fail(r) \/ Reply(r)
  \/ TakeClarify(r) \/ TakeWarnings(r)
  \/ StreamTakesWarnings(r) \/ StreamGone(r) \/ StreamTakesClarify(r)

\* All requests have been answered.  No other state is without a next step:
\* a turn that kept its lock would leave the requests behind it in a deadlock.
Over == (\A r \in Requests : at[r] = "done") /\ UNCHANGED vars

Next == EvictIdle \/ (\E r \in Requests : Request(r)) \/ (\E h \in Helpers : GoesIdle(h)) \/ Over

Spec == Init /\ [][Next]_vars
-----------------------------------------------------------------------------
\* What a helper knows, summed up or not, and what its turns have said.
Known(h) == summary[h] \o messages[h]
Said(h) == {m \in Message : m.turn # Old /\ helper[m.turn] = h}

\* A helper's history is made of whole turns, in turn: the question, then at
\* most one answer, with no other turn in between; and only a turn that is
\* running or has failed lacks its answer (the turn mutex, generation.go).
TurnsInOrder ==
  \A h \in Helpers :
    LET own == Only(Known(h), Said(h))
    IN  \A i \in 1 .. Len(own) :
          LET r == own[i].turn
          IN  IF own[i].user
              THEN /\ \A j \in 1 .. i - 1 : own[j].turn # r
                   /\ (at[r] \notin InTurn /\ outcome[r] \in {"answer", "asks"}) =>
                        (i < Len(own) /\ own[i + 1] = Answer(r))
                   /\ at[r] \in InTurn => i = Len(own)
              ELSE i > 1 => own[i - 1] = Question(r)

\* Compression forgets nothing: the summary and the messages that are left,
\* put together, are all that the turns on this helper have said, in order,
\* after the whole of the older history if that could be loaded
\* (compressIfNeeded copies the history, calls the model without any lock on
\* it and then overwrites the history).  The summary's own length limit,
\* beyond which its oldest part goes, is not reached in the model.
NothingForgotten ==
  \A h \in Helpers :
    LET older == Only(Known(h), SaidBefore)
    IN  /\ Only(Known(h), Said(h)) = Only(saved, Said(h))
        /\ older # <<>> => older = Only(saved, SaidBefore)

\* A helper's history is whole turns in order, of which compression has
\* forgotten nothing (generation.go, helper.go).
HistoryWhole == TurnsInOrder /\ NothingForgotten

\* A question or warning lies on a helper only while the request whose turn
\* left it is still on its way to take it; a finished request leaves nothing
\* there for a later turn, which would mistake its answer for a question
\* (assistant.go, message.go).  Only the debug switch, on a stream that broke,
\* does.  A request that overlaps it may come first and take what is not its
\* own, because the turn lock has been released by then.
NothingCarriedOver ==
  \A h \in Helpers :
    /\ warnings[h] # None => LET q == warnings[h] IN
         helper[q] = h /\ (at[q] \in InTurn \cup {"returned"} \/ (kind[q] = "sync" /\ at[q] = "took"))
    /\ clarify[h] # None => LET q == clarify[h] IN
         helper[q] = h /\ \/ at[q] = "returned" \/ (kind[q] = "stream" /\ at[q] = "took")
                          \/ ForceClarify /\ broken[q]

\* A question is asked once, by a turn of the same helper that did end in it:
\* no two requests take it, and nobody who comes later finds it again.
AskedOnce ==
  \A r \in Requests : got[r].clarify # None =>
    LET q == got[r].clarify
    IN  /\ helper[q] = helper[r] /\ clarify[helper[q]] # q
        /\ outcome[q] = "asks" /\ at[q] \in {"returned", "took", "done"}
        /\ \A s \in Requests : got[s].clarify = q => s = r

\* What a client is told, the answer of its own turn or a question, was
\* handed over to be saved, and the helper the next turn runs on knows it,
\* summed up or not.
ToldIsKept ==
  \A r \in Requests :
    LET kept(q) == Contains(saved, Answer(q)) /\ Contains(Known(helper[r]), Answer(q))
    IN  /\ got[r].reply = "answer" => kept(r)
        /\ got[r].reply = "clarify" => kept(got[r].clarify)

\* Nothing a turn leaves on the helper outlives its request or is taken twice,
\* and nothing a client is told is missing from what its helper goes on with
\* (generation.go, session service).
NothingMistaken == NothingCarriedOver /\ AskedOnce /\ ToldIsKept

\* A live helper is never replaced by another one: two requests that miss at
\* the same time end up on the same helper, and only the janitor removes it,
\* when it has been idle (the second look in GetOrCreateAIHelper).
LiveHelperStays ==
  [][current # None /\ current' # current => current' = None /\ stale[current]]_vars
=============================================================================
