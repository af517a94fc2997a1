------------------------------- MODULE Accounts -------------------------------
(***************************************************************************)
(* Accounts, access requests and the audit trail: the handlers of auth.py  *)
(* that create accounts and set passwords, AuditLogger.log of security.py, *)
(* which commits the session of its caller, and the middleware that        *)
(* records every changing request in a session of its own.                 *)
(*                                                                         *)
(* Every password is told by the call that set it, a row of the audit log  *)
(* by its hash and the hash it was chained to.                             *)
(***************************************************************************)
EXTENDS Integers, Sequences

CONSTANTS Calls,      \* requests, one operation each
          Asked,      \* access requests
          Users,      \* usernames
          UserOf,     \* the username an access request asks for
          Nobody,     \* no user, no call, no access request
          MaxFailures \* bound: audit records that cannot be written

ASSUME AccountsAssumption == /\ UserOf \in [Asked -> Users] /\ MaxFailures \in Nat
                             /\ Nobody \notin Users \cup Asked \cup Calls \cup Calls \X {"call", "middleware"}

VARIABLES status,     \* AccessRequest.status, "none" before it is submitted
          accounts,   \* the accounts: the access request each came from and its password
          trail,      \* audit_log in id order
          auditor,    \* the session that holds the advisory lock, or Nobody
          call,       \* each request
          writer,     \* each session's audit record under way
          known,      \* the password the owner of a username has been told last
          contested,  \* history: usernames that two calls were about at the same time
          failures    \* audit records that failed

accountvars == <<status, accounts, trail, auditor, call, writer, known, contested, failures>>

Sessions == Calls \X {"call", "middleware"}
Operations == {"submit", "register", "accept", "reject", "resend", "reset", "setup"}
NoAccount == [from |-> Nobody, password |-> Nobody]
Exists(u) == accounts[u] # NoAccount
Genesis == 0

CommitsFirst(op) == op \in {"resend", "reset", "setup"}
Creates(op) == op \in {"register", "accept"}
Logs(op) == op \in {"register", "accept", "reset", "setup"}

Call == [pc : {"off", "checked", "flushed", "logged", "replied", "over", "refused"},
         op : Operations \cup {"none"}, who : Users \cup {Nobody}, req : Asked \cup {Nobody},
         dirty : BOOLEAN, lost : BOOLEAN, mail : BOOLEAN]
Writer == [pc : {"off", "due", "locked", "read", "over"}, prev : Nat]

\* ensure_default_admin: an administrator exists before the first request.  An access
\* request is new, pending, or its account exists, with the password it was made with.
AccountsInit ==
    /\ \E q \in Asked, stage \in {"none", "pending", "approved"} :
          /\ status = [x \in Asked |-> IF x = q THEN stage ELSE "none"]
          /\ accounts = [u \in Users |-> IF stage = "approved" /\ u = UserOf[q]
                                         THEN [from |-> q, password |-> Nobody] ELSE NoAccount]
    /\ known = [u \in Users |-> Nobody]
    /\ trail = <<>> /\ auditor = Nobody
    /\ call = [c \in Calls |-> [pc |-> "off", op |-> "none", who |-> Nobody, req |-> Nobody,
                                dirty |-> FALSE, lost |-> FALSE, mail |-> FALSE]]
    /\ writer = [x \in Sessions |-> [pc |-> "off", prev |-> 0]]
    /\ contested = {} /\ failures = 0

-----------------------------------------------------------------------------
(* The handlers *)

Busy(u) == {c \in Calls : call[c].who = u /\ (call[c].pc \notin {"over", "refused"} \/ call[c].mail)}

Begins(c, op, u, q) ==
    /\ call[c].pc = "off"
    /\ call' = [call EXCEPT ![c] = [@ EXCEPT !.pc = "checked", !.op = op, !.who = u, !.req = q]]
    /\ contested' = IF Busy(u) # {} THEN contested \cup {u} ELSE contested
    /\ UNCHANGED <<status, accounts, trail, auditor, writer, known, failures>>

\* request_access: unless one for this username is pending.
Submits(c) == \E q \in Asked :
    /\ status[q] = "none"
    /\ \A x \in Asked : UserOf[x] = UserOf[q] => status[x] # "pending"
    /\ Begins(c, "submit", UserOf[q], q)

Registers(c) == \E u \in Users : ~Exists(u) /\ Begins(c, "register", u, Nobody)

Accepts(c) == \E q \in Asked :
    status[q] = "pending" /\ ~Exists(UserOf[q]) /\ Begins(c, "accept", UserOf[q], q)

\* Mutant: a request is rejected whatever its status.
X_Rejects(c) == \E q \in Asked : status[q] # "none" /\ Begins(c, "reject", UserOf[q], q)

Rejects(c) == \E q \in Asked : status[q] = "pending" /\ Begins(c, "reject", UserOf[q], q)

Resends(c) == \E q \in Asked :
    status[q] = "approved" /\ Exists(UserOf[q]) /\ Begins(c, "resend", UserOf[q], q)

\* A reset by an administrator, and a change by an owner who gives the password
\* (setup_password) or the token of a mailed link (reset_password).
SetsPassword(c) == \E u \in Users, op \in {"reset", "setup"} :
    Exists(u) /\ Begins(c, op, u, Nobody)

\* flush(): the statements wait for a row another session has changed and not
\* committed; a username that exists by now is refused by its unique key.
Locked(c) == \E d \in Calls \ {c} :
    /\ call[d].dirty
    /\ \/ Creates(call[c].op) /\ Creates(call[d].op) /\ call[d].who = call[c].who
       \/ call[c].op \in {"accept", "reject"} /\ call[d].req = call[c].req

Flushes(c) ==
    /\ call[c].pc = "checked" /\ ~Locked(c)
    /\ IF Creates(call[c].op) /\ Exists(call[c].who)
       THEN call' = [call EXCEPT ![c].pc = "refused"] /\ UNCHANGED <<accounts, writer>>
       ELSE /\ call' = [call EXCEPT ![c].pc = "flushed", ![c].dirty = ~CommitsFirst(call[c].op)]
            /\ accounts' = IF CommitsFirst(call[c].op)
                           THEN [accounts EXCEPT ![call[c].who].password = c] ELSE accounts
            /\ writer' = IF Logs(call[c].op) THEN [writer EXCEPT ![<<c, "call">>].pc = "due"]
                         ELSE writer
    /\ UNCHANGED <<status, trail, auditor, known, contested, failures>>

\* COMMIT of what the session of a call has flushed.
Stores(c) ==
    IF ~call[c].dirty THEN UNCHANGED <<status, accounts>>
    ELSE /\ status' = IF call[c].req = Nobody THEN status
                      ELSE [status EXCEPT ![call[c].req] =
                              CASE call[c].op = "submit" -> "pending"
                                [] call[c].op = "accept" -> "approved"
                                [] call[c].op = "reject" -> "rejected"]
         /\ accounts' = IF Creates(call[c].op)
                        THEN [accounts EXCEPT ![call[c].who] =
                                [from |-> call[c].req, password |-> c]] ELSE accounts

\* The handler returns: the reply goes out, the mail with the password is queued,
\* and the middleware has a record to write.
Replies(c) ==
    /\ \/ call[c].pc = "logged"
       \/ call[c].pc = "flushed" /\ ~Logs(call[c].op)
    /\ call' = [call EXCEPT ![c].pc = "replied",
                            ![c].mail = call[c].op \in {"accept", "resend", "reset"}]
    /\ known' = IF call[c].op \in {"register", "setup"} THEN [known EXCEPT ![call[c].who] = c] ELSE known
    /\ writer' = [writer EXCEPT ![<<c, "middleware">>].pc = "due"]
    /\ UNCHANGED <<status, accounts, trail, auditor, contested, failures>>

\* get_db() commits after the reply.
Closes(c) ==
    /\ call[c].pc = "replied"
    /\ call' = [call EXCEPT ![c].pc = "over", ![c].dirty = FALSE]
    /\ Stores(c)
    /\ UNCHANGED <<trail, auditor, writer, known, contested, failures>>

MailArrives(c) ==
    /\ call[c].mail
    /\ call' = [call EXCEPT ![c].mail = FALSE]
    /\ known' = [known EXCEPT ![call[c].who] = c]
    /\ UNCHANGED <<status, accounts, trail, auditor, writer, contested, failures>>

-----------------------------------------------------------------------------
(* AuditLogger.log, in the session of a call and in that of the middleware *)

\* Mutant: the lock is not taken.
X_TakesLock(x) ==
    /\ writer[x].pc = "due"
    /\ writer' = [writer EXCEPT ![x].pc = "locked"]
    /\ UNCHANGED <<status, accounts, trail, auditor, call, known, contested, failures>>

\* pg_advisory_xact_lock, held until the transaction ends.
TakesLock(x) ==
    /\ writer[x].pc = "due" /\ auditor = Nobody
    /\ auditor' = x
    /\ writer' = [writer EXCEPT ![x].pc = "locked"]
    /\ UNCHANGED <<status, accounts, trail, call, known, contested, failures>>

ReadsLast(x) ==
    /\ writer[x].pc = "locked"
    /\ writer' = [writer EXCEPT ![x] = [pc |-> "read",
                     prev |-> IF trail = <<>> THEN Genesis ELSE trail[Len(trail)].hash]]
    /\ UNCHANGED <<status, accounts, trail, auditor, call, known, contested, failures>>

\* The row and everything else the session has flushed are committed.
Appends(x) ==
    /\ writer[x].pc = "read"
    /\ trail' = Append(trail, [hash |-> Len(trail) + 1, prev |-> writer[x].prev, by |-> x])
    /\ writer' = [writer EXCEPT ![x].pc = "over"] /\ auditor' = Nobody
    /\ IF x[2] = "call"
       THEN call' = [call EXCEPT ![x[1]].pc = "logged", ![x[1]].dirty = FALSE] /\ Stores(x[1])
       ELSE UNCHANGED <<call, status, accounts>>
    /\ UNCHANGED <<known, contested, failures>>

\* A statement fails: the transaction is aborted and with it what the caller had
\* flushed; log() swallows the exception and the handler goes on.
AuditFails(x) ==
    /\ writer[x].pc \in {"due", "locked", "read"} /\ failures < MaxFailures
    /\ failures' = failures + 1
    /\ auditor' = IF auditor = x THEN Nobody ELSE auditor
    /\ writer' = [writer EXCEPT ![x].pc = "over"]
    /\ call' = IF x[2] = "call"
               THEN [call EXCEPT ![x[1]].pc = "logged", ![x[1]].dirty = FALSE,
                                 ![x[1]].lost = call[x[1]].dirty]
               ELSE call
    /\ UNCHANGED <<status, accounts, trail, known, contested>>

CallStep(c) == \/ Submits(c) \/ Registers(c) \/ Accepts(c) \/ Rejects(c) \/ Resends(c)
               \/ SetsPassword(c) \/ Flushes(c) \/ Replies(c) \/ Closes(c) \/ MailArrives(c)
AuditStep(x) == TakesLock(x) \/ ReadsLast(x) \/ Appends(x) \/ AuditFails(x)
AccountsNext == (\E c \in Calls : CallStep(c)) \/ \E x \in Sessions : AuditStep(x)
AccountsSpec == AccountsInit /\ [][AccountsNext]_accountvars

-----------------------------------------------------------------------------
(* Properties *)

\* Every variable keeps its type.
AccountsTypeOK ==
    /\ status \in [Asked -> {"none", "pending", "approved", "rejected"}]
    /\ accounts \in [Users -> [from : Asked \cup {Nobody}, password : Calls \cup {Nobody}]]
    /\ trail \in Seq([hash : Nat, prev : Nat, by : Sessions])
    /\ auditor \in Sessions \cup {Nobody}
    /\ call \in [Calls -> Call] /\ writer \in [Sessions -> Writer]
    /\ known \in [Users -> Calls \cup {Nobody}] /\ contested \subseteq Users
    /\ failures \in 0..MaxFailures

\* Whatever sessions write records at the same time, fail or roll back, each row is
\* chained to the row before it, and none is written twice (AuditLogger.log and
\* verify_audit_chain, security.py).
ChainVerifies ==
    /\ \A i \in 1..Len(trail) : trail[i].prev = IF i = 1 THEN Genesis ELSE trail[i - 1].hash
    /\ \A i, j \in 1..Len(trail) : trail[i].by = trail[j].by => i = j

\* A request that is approved has made the account; an account that came from a
\* request shows it approved, and its owner knows the password once the mails are out,
\* unless two calls about the username overlapped or a call lost its change with its
\* audit record (accept, reject, resend and reset in auth.py).
ReviewsAgree ==
    /\ \A q \in Asked : status[q] = "approved" => accounts[UserOf[q]].from = q
    /\ \A u \in Users \ contested :
         /\ Exists(u) /\ accounts[u].from # Nobody => status[accounts[u].from] = "approved"
         /\ Busy(u) = {} /\ (\A c \in Calls : call[c].who = u => ~call[c].lost)
              => known[u] = accounts[u].password
=============================================================================
