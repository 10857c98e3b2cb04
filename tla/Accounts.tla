------------------------------- MODULE Accounts -------------------------------
(***************************************************************************)
(* service/user: SendCaptcha and Register for one address, over Redis      *)
(* (captcha and cooldown, each with its time to live), the user table and  *)
(* the mail server.  Each handler is a sequence of single calls, and any   *)
(* of them may fail; a mail may be delivered after the wait for it is      *)
(* over.  Codes are numbered in the order they are stored, and no two are  *)
(* alike; a tick of the clock is the cooldown.                             *)
(***************************************************************************)
EXTENDS Integers, FiniteSets, Sequences

CONSTANTS Sends, Registers,   \* requests to /captcha and /register
          Cooldown, Validity, \* of SendCaptcha and of a captcha
          MaxClock,           \* bound on the clock
          None

AccountsAssumption ==
  /\ IsFiniteSet(Sends)
  /\ {Cooldown, Validity, MaxClock} \subseteq Nat /\ Cooldown > 0
  /\ None \notin Nat

VARIABLES clock,
          cooldown,           \* the key of TryAcquire: when it was set, or None
          captcha,            \* the key of the captcha: code and when it was set, or None
          issued,             \* codes made so far
          mailed,             \* codes that have reached the address
          mails,              \* history: when SendCaptcha was let through
          users,              \* the rows of this address, by the request that made them
          sending, code,      \* [send -> where it stands, its code]
          joining, given,     \* [register -> where it stands, the code it gives]
          told,               \* [register -> what it has answered]
          shared              \* history: codes read twice before they were deleted

accountVars == <<clock, cooldown, captcha, issued, mailed, mails, users, sending, code,
                 joining, given, told, shared>>

Codes == 1 .. Cardinality(Sends)
Outcomes == {"nothing", "success", "exists", "invalid", "busy"}

AccountsTypeOK ==
  /\ clock \in 0 .. MaxClock /\ cooldown \in 0 .. MaxClock \cup {None}
  /\ captcha \in [code : Codes, at : 0 .. MaxClock] \cup {None}
  /\ issued \in 0 .. Cardinality(Sends) /\ mailed \subseteq 1 .. issued
  /\ mails \in Seq(0 .. MaxClock) /\ users \in Seq(Registers)
  /\ sending \in [Sends -> {"coming", "acquired", "stored", "mailing", "timedout", "done"}]
  /\ code \in [Sends -> Codes \cup {None}]
  /\ joining \in [Registers -> {"coming", "new", "matched", "verified", "inserted", "done"}]
  /\ given \in [Registers -> Codes \cup {None}]
  /\ told \in [Registers -> Outcomes]
  /\ shared \subseteq Codes

Init == /\ clock = 0 /\ cooldown = None /\ captcha = None /\ issued = 0 /\ mailed = {}
        /\ mails = <<>> /\ users = <<>>
        /\ sending = [s \in Sends |-> "coming"] /\ code = [s \in Sends |-> None]
        /\ joining = [r \in Registers |-> "coming"] /\ given = [r \in Registers |-> None]
        /\ told = [r \in Registers |-> "nothing"] /\ shared = {}

Tick == /\ clock < MaxClock /\ clock' = clock + 1
        /\ UNCHANGED <<cooldown, captcha, issued, mailed, mails, users, sending, code, joining,
                       given, told, shared>>
-----------------------------------------------------------------------------
(* SendCaptcha *)

sendRest == <<clock, users, joining, given, told, shared>>

Cooling == cooldown # None /\ clock - cooldown < Cooldown

\* Mutant: the cooldown is asked for here and set with the captcha.
AcquireLate(s) == /\ sending[s] = "coming"
                  /\ sending' = [sending EXCEPT ![s] = IF Cooling THEN "done" ELSE "acquired"]
                  /\ mails' = IF Cooling THEN mails ELSE Append(mails, clock)
                  /\ UNCHANGED <<sendRest, cooldown, captcha, issued, mailed, code>>

\* TryAcquire: SET NX EX.  An error ends the request before anything is sent.
Acquire(s) ==
  /\ sending[s] = "coming"
  /\ \/ /\ ~Cooling
        /\ cooldown' = clock /\ mails' = Append(mails, clock)
        /\ sending' = [sending EXCEPT ![s] = "acquired"]
     \/ sending' = [sending EXCEPT ![s] = "done"] /\ UNCHANGED <<cooldown, mails>>
  /\ UNCHANGED <<sendRest, captcha, issued, mailed, code>>

\* SetCaptchaForEmail, over whatever code was there.  If it fails the
\* cooldown stays.
Store(s, ok) ==
  /\ sending[s] = "acquired"
  /\ issued' = issued + 1 /\ code' = [code EXCEPT ![s] = issued']
  /\ captcha' = IF ok THEN [code |-> issued', at |-> clock] ELSE captcha
  /\ sending' = [sending EXCEPT ![s] = IF ok THEN "mailing" ELSE "done"]
  /\ UNCHANGED <<sendRest, cooldown, mailed, mails>>

\* DialAndSend on its own goroutine, and the handler that waits for it.
Deliver(s) ==
  /\ sending[s] \in {"mailing", "timedout"}
  /\ mailed' = mailed \cup {code[s]} /\ sending' = [sending EXCEPT ![s] = "done"]
  /\ UNCHANGED <<sendRest, cooldown, captcha, issued, mails, code>>

MailFails(s) == /\ sending[s] \in {"mailing", "timedout"}
                /\ sending' = [sending EXCEPT ![s] = "done"]
                /\ UNCHANGED <<sendRest, cooldown, captcha, issued, mailed, mails, code>>

MailTimesOut(s) == /\ sending[s] = "mailing"
                   /\ sending' = [sending EXCEPT ![s] = "timedout"]
                   /\ UNCHANGED <<sendRest, cooldown, captcha, issued, mailed, mails, code>>
-----------------------------------------------------------------------------
(* Register *)

joinRest == <<clock, cooldown, issued, mailed, mails, sending, code>>

Answer(r, outcome) == /\ told' = [told EXCEPT ![r] = outcome]
                      /\ joining' = [joining EXCEPT ![r] = "done"]

\* IsExistUserByEmail; an error of the database reads as a user that exists.
Check(r, fails) ==
  /\ joining[r] = "coming" /\ mailed # {}
  /\ \E c \in mailed : given' = [given EXCEPT ![r] = c]
  /\ IF users # <<>> \/ fails THEN Answer(r, "exists")
     ELSE joining' = [joining EXCEPT ![r] = "new"] /\ UNCHANGED told
  /\ UNCHANGED <<joinRest, captcha, users, shared>>

Stands == captcha # None /\ clock - captcha.at < Validity

\* CheckCaptchaForEmail: GET and compare.
Compare(r) ==
  /\ joining[r] = "new"
  /\ IF Stands /\ captcha.code = given[r]
     THEN /\ joining' = [joining EXCEPT ![r] = "matched"]
          /\ shared' = IF \E q \in Registers \ {r} : joining[q] = "matched" /\ given[q] = given[r]
                       THEN shared \cup {given[r]} ELSE shared
          /\ UNCHANGED told
     ELSE Answer(r, "invalid") /\ UNCHANGED shared
  /\ UNCHANGED <<joinRest, captcha, users, given>>

GetFails(r) == /\ joining[r] = "new"
               /\ Answer(r, "invalid")
               /\ UNCHANGED <<joinRest, captcha, users, given, shared>>

\* DEL of the key, whatever code it holds by now.
Spend(r) == /\ joining[r] = "matched"
            /\ captcha' = None
            /\ joining' = [joining EXCEPT ![r] = "verified"]
            /\ UNCHANGED <<joinRest, users, given, told, shared>>

\* Its error is swallowed, and the code can be used again.
DelFails(r) == /\ joining[r] = "matched"
               /\ joining' = [joining EXCEPT ![r] = "verified"]
               /\ shared' = shared \cup {given[r]}
               /\ UNCHANGED <<joinRest, captcha, users, given, told>>

\* The address has an index, but none that is unique; the random user name
\* has one.  A failed insert does not bring the code back.
Insert(r, ok) ==
  /\ joining[r] = "verified"
  /\ IF ok THEN users' = Append(users, r) /\ joining' = [joining EXCEPT ![r] = "inserted"] /\ UNCHANGED told
     ELSE Answer(r, "busy") /\ UNCHANGED users
  /\ UNCHANGED <<joinRest, captcha, given, shared>>

\* The mail with the user name, which may fail, and the token, which may too.
Finish(r, token) == /\ joining[r] = "inserted"
                    /\ Answer(r, IF token THEN "success" ELSE "busy")
                    /\ UNCHANGED <<joinRest, captcha, users, given, shared>>
-----------------------------------------------------------------------------
Send(s) == \/ Acquire(s) \/ Deliver(s) \/ MailFails(s) \/ MailTimesOut(s)
           \/ \E ok \in BOOLEAN : Store(s, ok)

Register(r) == \/ Compare(r) \/ GetFails(r) \/ Spend(r) \/ DelFails(r)
               \/ \E ok \in BOOLEAN : Check(r, ok) \/ Insert(r, ok) \/ Finish(r, ok)

Next == Tick \/ (\E s \in Sends : Send(s)) \/ \E r \in Registers : Register(r)
-----------------------------------------------------------------------------
(***************************************************************************)
(* A code makes one account: it makes a second one only if two requests    *)
(* compared it before either had deleted it, or if the delete failed       *)
(* (redis.go, CheckCaptchaForEmail: deleted once it has matched).  Whoever *)
(* is told a success has a row, and nobody gets one for a code that has    *)
(* not reached the address.  And mails leave a cooldown apart, however     *)
(* many requests come at once (user.go: or anybody could have mails sent). *)
(***************************************************************************)
AccountsSound ==
  /\ \A i, j \in DOMAIN users : i # j /\ given[users[i]] = given[users[j]] => given[users[i]] \in shared
  /\ \A r \in Registers : told[r] = "success" => \E i \in DOMAIN users : users[i] = r
  /\ \A i \in DOMAIN users : given[users[i]] \in mailed
  /\ \A i \in 2 .. Len(mails) : mails[i] - mails[i - 1] >= Cooldown
=============================================================================
