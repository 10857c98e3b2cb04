---------------------------- MODULE MCAnswerCache ----------------------------
(* First turns that ask the same question, and uploads; both are              *)
(* interchangeable.                                                           *)
EXTENDS AnswerCache, TLC

Interchangeable == Permutations(Requests) \cup Permutations(Uploads)

\* States that go on alike are one.  Of an entry nothing reads more than
\* whether it overlapped an upload and, if not, whether it is of these uploads
\* and which document that is still there it has; a document that is gone does
\* not come back.  What a request has in hand matters while it generates.
StillThere(document) == IF document \in files \cup indexed \cup {None} THEN document ELSE "gone"
SeenEntry(e) == IF e = NoAnswer THEN <<>>
                ELSE IF e.late THEN <<e.refusal>>
                ELSE <<e.refusal, e.era = batch, StillThere(e.ver)>>
SeenQuery == IF query.late THEN <<>> ELSE <<StillThere(query.ver)>>
InHand(r) ==
  IF at[r] \in {"start", "waiting", "flown", "done"} THEN <<>>
  ELSE IF late[r] THEN <<using[r] = None, answer[r].refusal>>
  ELSE IF at[r] = "storing" \/ at[r] = "embeddingAnswer"
       THEN <<FALSE, answer[r].refusal, StillThere(answer[r].ver)>>
       ELSE <<FALSE, FALSE, StillThere(using[r])>>
Seen == <<files, indexed, upload, Cardinality(Active), renewed, SeenQuery, SeenEntry(exact),
          SeenEntry(negative), {SeenEntry(e) : e \in semantic}, flight, at, kind,
          [r \in Requests |-> InHand(r)]>>
=============================================================================
