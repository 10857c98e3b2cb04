---------------------------- MODULE TurnCollectors ----------------------------
(***************************************************************************)
(* What the tools of one turn leave for the user: the question of ask_user *)
(* (internal/agent/askuser) and the warnings of failed or repeated calls   *)
(* (internal/agent/tool/warn.go, loopguard.go).  The calls of one answer   *)
(* run side by side; the service takes the warnings and then the question  *)
(* when the turn is over, though a call may still be running then.         *)
(*                                                                         *)
(* Labels are what the cleaning tells apart: an option is a record of what *)
(* stands under "label", under the other names a label may have ("" is     *)
(* blank), and its id: i stands for "opt_i", 0 is blank.                   *)
(***************************************************************************)
EXTENDS Places, Sequences

CONSTANTS Calls,             \* tool calls of the turn
          Labels,            \* what may stand under a name
          Args,              \* what the model may give ask_user
          Failures,          \* [tool, message] a call may end with
          MaxOptions, MaxWarnings,
          None

Options == [label : Labels, other : Labels, id : Nat]
Questions == [question : BOOLEAN, options : Seq(Options)]

CollectorsAssumption ==
  /\ "" \in Labels
  /\ Args \subseteq [question : BOOLEAN, form : {"objects", "strings", "none"}, options : Seq(Options)]
  /\ MaxOptions \in Nat /\ MaxOptions >= 2 /\ MaxWarnings \in Nat \ {0}
  /\ None \notin Questions

VARIABLES req,               \* Collector.req
          warns,             \* WarnCollector.list
          call,              \* [call -> where it stands, what it is going to set]
          taken,             \* the question the service has taken
          shown,             \* the warnings it has taken
          service,           \* how far it is with that
          first, raised      \* history: the question set first, the failures of the turn

collectorsVars == <<req, warns, call, taken, shown, service, first, raised>>

Idle == [at |-> "idle", ask |-> None]

Init == /\ req = None /\ warns = <<>>
        /\ call = [c \in Calls |-> Idle]
        /\ taken = None /\ shown = <<>> /\ service = "waiting"
        /\ first = None /\ raised = {}

Lower(label) == CASE label = "A" -> "a" [] label = "B" -> "b" [] OTHER -> label

LabelOf(o) == IF o.label # "" THEN o.label ELSE o.other
Plain(label) == [label |-> label, other |-> "", id |-> 0]

\* parseOptions: objects with a label, strings, or objects with any name for it.
ParseOptions(args) ==
  CASE args.form = "objects" /\ (\E i \in DOMAIN args.options : args.options[i].label # "") -> args.options
    [] args.form = "objects" ->
         LET named == InOrder({i \in DOMAIN args.options : LabelOf(args.options[i]) # ""})
         IN [n \in DOMAIN named |-> Plain(LabelOf(args.options[named[n]]))]
    [] args.form = "strings" -> [i \in DOMAIN args.options |-> Plain(args.options[i].label)]
    [] OTHER -> <<>>

\* The places whose label is there and has not come before.
Distinct(options) == {i \in DOMAIN options :
  /\ options[i].label # ""
  /\ \A j \in 1 .. i - 1 : Lower(options[j].label) # Lower(options[i].label)}

\* An option that came without an ID has its place for one.
Numbered(o, i) == [o EXCEPT !.id = IF @ = 0 THEN i ELSE @]

\* Normalize.
Normalize(r) ==
  LET kept == InOrder(Distinct(r.options))
      n == IF Len(kept) < MaxOptions THEN Len(kept) ELSE MaxOptions
  IN [r EXCEPT !.options = [k \in 1 .. n |-> Numbered(r.options[kept[k]], kept[k])]]

Valid(r) == r.question /\ Len(r.options) >= 2

CollectorsTypeOK ==
  /\ req \in Questions \cup {None} /\ taken \in Questions \cup {None} /\ first \in Questions \cup {None}
  /\ warns \in Seq(Failures) /\ Len(warns) <= MaxWarnings
  /\ shown \in Seq(Failures) /\ raised \subseteq Failures
  /\ call \in [Calls -> [at : {"idle", "asking", "interrupted", "observed", "failed"},
                         ask : Questions \cup {None}]]
  /\ service \in {"waiting", "warned", "done"}
-----------------------------------------------------------------------------
Asked(args) == [question |-> args.question, options |-> ParseOptions(args)]

\* Mutant: it is checked as the model gave it.
HandleRaw(c, args) ==
  /\ call[c].at = "idle" /\ service = "waiting"
  /\ LET r == Asked(args) IN
     call' = [call EXCEPT ![c] = IF args.form # "none" /\ Valid(r)
                                 THEN [at |-> "asking", ask |-> r] ELSE [Idle EXCEPT !.at = "observed"]]
  /\ UNCHANGED <<req, warns, taken, shown, service, first, raised>>

\* The handler, up to Set: arguments that cannot be read, or too few options
\* become an observation for the model.
Handle(c, args) ==
  /\ call[c].at = "idle" /\ service = "waiting"
  /\ LET r == Normalize(Asked(args)) IN
     call' = [call EXCEPT ![c] = IF args.form # "none" /\ Valid(r)
                                 THEN [at |-> "asking", ask |-> r] ELSE [Idle EXCEPT !.at = "observed"]]
  /\ UNCHANGED <<req, warns, taken, shown, service, first, raised>>

\* Collector.Set, which cleans and checks once more, and the error that
\* interrupts the turn.
Set(c) ==
  /\ call[c].at = "asking"
  /\ LET r == Normalize(call[c].ask) IN
     req' = IF req = None /\ Valid(r) THEN r ELSE req
  /\ first' = IF first = None THEN req' ELSE first
  /\ call' = [call EXCEPT ![c].at = "interrupted"]
  /\ UNCHANGED <<warns, taken, shown, service, raised>>

\* notify, notifyLoop and WarnCollector.Add.
Fail(c, warn) ==
  /\ call[c].at = "idle" /\ service = "waiting"
  /\ warns' = IF Len(warns) >= MaxWarnings \/ (\E i \in DOMAIN warns : warns[i] = warn)
              THEN warns ELSE Append(warns, warn)
  /\ raised' = raised \cup {warn}
  /\ call' = [call EXCEPT ![c].at = "failed"]
  /\ UNCHANGED <<req, taken, shown, service, first>>

\* The turn has ended: setWarnings, and after it finishClarify.
TakeWarnings == /\ service = "waiting" /\ service' = "warned"
                /\ shown' = warns
                /\ UNCHANGED <<req, warns, call, taken, first, raised>>

TakeQuestion == /\ service = "warned" /\ service' = "done"
                /\ taken' = req /\ req' = None
                /\ UNCHANGED <<warns, call, shown, first, raised>>
-----------------------------------------------------------------------------
Next == \/ TakeWarnings \/ TakeQuestion
        \/ \E c \in Calls : \/ Set(c)
                            \/ \E args \in Args : Handle(c, args)
                            \/ \E warn \in Failures : Fail(c, warn)
-----------------------------------------------------------------------------
(***************************************************************************)
(* A turn that is interrupted has a question, the one that came first, so  *)
(* no interruption is taken for a failed model because nothing was there   *)
(* to ask (tool.go, handler: Set cleans again what it has cleaned).  The   *)
(* question has two options at least, no two of them alike.  Every failure *)
(* has its warning, once, until the list is full.                          *)
(***************************************************************************)
TurnTold ==
  /\ service # "done" => req = first
  /\ service # "done" /\ (\E c \in Calls : call[c].at = "interrupted") => req # None
  /\ taken # None => taken = first
  /\ first # None =>
       /\ first.question /\ Len(first.options) \in 2 .. MaxOptions
       /\ \A i, j \in DOMAIN first.options : i # j =>
            Lower(first.options[i].label) # Lower(first.options[j].label)
  /\ \A i, j \in DOMAIN warns : i # j => warns[i] # warns[j]
  /\ {warns[i] : i \in DOMAIN warns} \subseteq raised
  /\ \A warn \in raised : Len(warns) = MaxWarnings \/ \E i \in DOMAIN warns : warns[i] = warn
  /\ shown = SubSeq(warns, 1, Len(shown))
=============================================================================
