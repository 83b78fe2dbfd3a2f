------------------------------ MODULE AdminLogin ------------------------------
(***************************************************************************)
(* The account of one administrator in auth/auth.service.ts: calls of      *)
(* login, the lockout after failed ones, and the setup of TOTP with its    *)
(* backup codes.                                                           *)
(*                                                                         *)
(* A TOTP code is named by the secret it is made from, and the ten backup  *)
(* codes of one enableTotp by that call: they are created and deleted      *)
(* together.                                                               *)
(***************************************************************************)
EXTENDS Naturals, FiniteSets

CONSTANTS
  Logins,      \* calls of login that may be in progress at once
  Enables,     \* calls of enableTotp
  Nobody,
  Attempts,    \* failed logins that lock the account: five
  MaxSecrets,  \* bound on calls of beginTotp
  Budgets      \* bounds on what a behaviour may have: wrong logins, setups and failing calls

ASSUME LoginAssumption ==
  /\ IsFiniteSet(Logins) /\ Nobody \notin Enables
  /\ Attempts \in Nat \ {0} /\ MaxSecrets \in Nat
  /\ Budgets \subseteq [{"guesses", "setups", "faults"} -> Nat]

VARIABLES
  account,   \* columns of Admin that login decides by: lockedUntil, totpEnabled, secret
  failed,    \* failedLoginCount
  codes,     \* AdminBackupCode: "absent", "unused" or "used"
  call,      \* calls of login: step, row (the columns read), password, totpCode
  enable,    \* calls of enableTotp: step and the rows its transaction has deleted
  rowLock,   \* the transaction that has updated the Admin row
  admitted,  \* sessions that a backup code has opened (history)
  guesses,   \* wrong logins that were looked at since the count was last cleared or a lock ended (history)
  faults,    \* logins that failed on the way (history)
  budget     \* what is left of one of the Budgets

vars == <<account, failed, codes, call, enable, rowLock, admitted, guesses, faults, budget>>
callVars == <<call, guesses, faults>>
setupVars == <<enable, rowLock>>

Secrets == 1..MaxSecrets
NoCode == <<"none", Nobody>>
Totp(s) == <<"totp", s>>
Backup(e) == <<"backup", e>>
Inputs == {NoCode} \cup {Totp(s) : s \in Secrets} \cup {Backup(e) : e \in Enables}

NewAccount == [lockedUntil |-> "null", totp |-> FALSE, secret |-> 0]
At(step) == [step |-> step, row |-> NewAccount, password |-> FALSE, input |-> NoCode]

Init ==
  /\ account = NewAccount /\ failed = 0
  /\ codes = [e \in Enables |-> "absent"]
  /\ call = [l \in Logins |-> At("idle")]
  /\ enable = [e \in Enables |-> [step |-> "new", deleted |-> {}]]
  /\ rowLock = Nobody
  /\ admitted = [e \in Enables |-> 0]
  /\ guesses = 0 /\ faults = 0
  /\ budget \in Budgets

Spend(kind) == budget[kind] > 0 /\ budget' = [budget EXCEPT ![kind] = @ - 1]

\* To the next step, with what was read or, once nothing depends on it, without.
Goto(l, step) == call' = [call EXCEPT ![l].step = step]
GoOn(l, step) == call' = [call EXCEPT ![l] = At(step)]
Return(l) == GoOn(l, "idle")

-----------------------------------------------------------------------------
(* login *)

\* Right credentials: the password, and with TOTP a code of the current secret
\* or an unused backup code.
Right(password, input) ==
  /\ password
  /\ \/ ~account.totp
     \/ input = Totp(account.secret)
     \/ \E e \in Enables : input = Backup(e) /\ codes[e] = "unused"

\* findUnique.
LoginRead(l, password, input) ==
  /\ call[l].step = "idle"
  /\ \/ Right(password, input) /\ UNCHANGED budget
     \/ ~Right(password, input) /\ Spend("guesses")
  /\ call' = [call EXCEPT ![l] = [step |-> "check", row |-> account, password |-> password, input |-> input]]
  /\ UNCHANGED <<account, failed, codes, setupVars, admitted, guesses, faults>>

\* lockedUntil of the row that was read, against the clock.  (Mutant: the
\* clock is not looked at.)
LockedAny(row) == row.lockedUntil # "null"
Locked(row) == row.lockedUntil = "future"

TotpOk(row, input) == ~row.totp \/ input = Totp(row.secret)

\* verifySecret has compared the password; backup codes are looked for when
\* only the TOTP code is wrong.
LoginCheck(l) ==
  LET c == call[l]
      fine == c.password /\ ~Locked(c.row) IN
  /\ c.step = "check"
  /\ \/ fine /\ TotpOk(c.row, c.input) /\ GoOn(l, "session") /\ UNCHANGED guesses
     \/ fine /\ ~TotpOk(c.row, c.input) /\ c.input # NoCode /\ Goto(l, "codes") /\ UNCHANGED guesses
     \/ /\ ~fine \/ (~TotpOk(c.row, c.input) /\ c.input = NoCode)
        /\ Goto(l, "count")
        /\ guesses' = IF Locked(c.row) THEN guesses ELSE guesses + 1
  /\ UNCHANGED <<account, failed, codes, setupVars, admitted, faults, budget>>

\* findMany of the unused codes, and the comparison with each.
FindCode(l) ==
  LET found == \E e \in Enables : call[l].input = Backup(e) /\ codes[e] = "unused" IN
  /\ call[l].step = "codes"
  /\ Goto(l, IF found THEN "consume" ELSE "count")
  /\ guesses' = IF found THEN guesses ELSE guesses + 1
  /\ UNCHANGED <<account, failed, codes, setupVars, admitted, faults, budget>>

CodeOf(l) == call[l].input[2]

\* A code that an open transaction has deleted is waited for.
CodeFree(e) == \A f \in Enables : e \notin enable[f].deleted

\* updateMany of the code if it is unused.  (Mutant: by its id.)
ConsumableAny(e) == codes[e] # "absent"
Consumable(e) == codes[e] = "unused"

ConsumeCode(l) ==
  /\ call[l].step = "consume" /\ CodeFree(CodeOf(l))
  /\ IF Consumable(CodeOf(l))
     THEN codes' = [codes EXCEPT ![CodeOf(l)] = "used"] /\ Goto(l, "session")
     ELSE UNCHANGED codes /\ Return(l)
  /\ UNCHANGED <<account, failed, setupVars, admitted, guesses, faults, budget>>

\* The session is set in Redis (AdminSessions has what follows from it).
SetSession(l) ==
  /\ call[l].step = "session"
  /\ GoOn(l, "reset")
  /\ admitted' = IF call[l].input # NoCode
                 THEN [admitted EXCEPT ![CodeOf(l)] = @ + 1] ELSE admitted
  /\ UNCHANGED <<account, failed, codes, setupVars, guesses, faults, budget>>

\* The count and the lock are cleared.
ResetCount(l) ==
  /\ call[l].step = "reset" /\ rowLock = Nobody
  /\ account' = [account EXCEPT !.lockedUntil = "null"]
  /\ failed' = 0 /\ guesses' = 0
  /\ GoOn(l, "audit")
  /\ UNCHANGED <<codes, setupVars, admitted, faults, budget>>

AtMost(n, limit) == IF n > limit THEN limit ELSE n

\* (Mutant: one too many.)
ReachedLate == failed + 1 > Attempts
Reached == failed + 1 >= Attempts

\* failedLoginCount is incremented where it is; more than Attempts is Attempts.
CountFailure(l) ==
  /\ call[l].step = "count" /\ rowLock = Nobody
  /\ failed' = AtMost(failed + 1, Attempts)
  /\ GoOn(l, IF Reached /\ ~Locked(call[l].row) THEN "lock" ELSE "audit")
  /\ UNCHANGED <<account, codes, setupVars, admitted, guesses, faults, budget>>

LockAccount(l) ==
  /\ call[l].step = "lock" /\ rowLock = Nobody
  /\ account' = [account EXCEPT !.lockedUntil = "future"]
  /\ GoOn(l, "audit")
  /\ UNCHANGED <<failed, codes, setupVars, admitted, guesses, faults, budget>>

\* audit.record (AuditLog), of AUTH_LOGIN or AUTH_LOGIN_FAILED.
LoginAudited(l) ==
  /\ call[l].step = "audit"
  /\ Return(l)
  /\ UNCHANGED <<account, failed, codes, setupVars, admitted, guesses, faults, budget>>

\* PostgreSQL or Redis fails a call.
LoginFails(l) ==
  /\ call[l].step # "idle" /\ Spend("faults")
  /\ faults' = faults + 1
  /\ Return(l)
  /\ UNCHANGED <<account, failed, codes, setupVars, admitted, guesses>>

Ended(until) == IF until = "future" THEN "past" ELSE until

\* Fifteen minutes have passed, also for a row that was read and not checked yet.
LockEnds ==
  /\ account.lockedUntil = "future"
  /\ account' = [account EXCEPT !.lockedUntil = Ended(@)]
  /\ call' = [l \in Logins |-> [call[l] EXCEPT !.row.lockedUntil = IF call[l].step = "check" THEN Ended(@) ELSE @]]
  /\ guesses' = 0
  /\ UNCHANGED <<failed, codes, setupVars, admitted, faults, budget>>

-----------------------------------------------------------------------------
(* TOTP setup, by an administrator who is logged in. *)

\* A new secret, and TOTP is off until it is confirmed.
BeginTotp ==
  /\ rowLock = Nobody /\ account.secret < MaxSecrets /\ Spend("setups")
  /\ account' = [account EXCEPT !.secret = @ + 1, !.totp = FALSE]
  /\ UNCHANGED <<failed, codes, callVars, setupVars, admitted>>

\* The row is read, the code of its secret verified and the codes are hashed.
EnableRead(e) ==
  /\ enable[e].step = "new" /\ account.secret # 0
  /\ enable' = [enable EXCEPT ![e].step = "update"]
  /\ UNCHANGED <<account, failed, codes, callVars, rowLock, admitted, budget>>

\* The first statement of the transaction locks the Admin row until the end.
\* (Mutant: it comes last.)
RowIsFreeAny == TRUE
RowIsFree == rowLock = Nobody

EnableUpdate(e) ==
  /\ enable[e].step = "update" /\ RowIsFree
  /\ rowLock' = e
  /\ enable' = [enable EXCEPT ![e].step = "delete"]
  /\ UNCHANGED <<account, failed, codes, callVars, admitted, budget>>

Present == {c \in Enables : codes[c] # "absent"}

EnableDelete(e) ==
  /\ enable[e].step = "delete" /\ \A c \in Present : CodeFree(c)
  /\ enable' = [enable EXCEPT ![e].step = "create", ![e].deleted = Present]
  /\ UNCHANGED <<account, failed, codes, callVars, rowLock, admitted, budget>>

\* createMany and the commit.
EnableCommit(e) ==
  /\ enable[e].step = "create"
  /\ account' = [account EXCEPT !.totp = TRUE]
  /\ codes' = [c \in Enables |-> CASE c = e -> "unused"
                                   [] c # e /\ c \in enable[e].deleted -> "absent"
                                   [] OTHER -> codes[c]]
  /\ enable' = [enable EXCEPT ![e] = [step |-> "done", deleted |-> {}]]
  /\ rowLock' = Nobody
  /\ UNCHANGED <<failed, callVars, admitted, budget>>

EnableFails(e) ==
  /\ enable[e].step \in {"update", "delete", "create"} /\ Spend("faults")
  /\ enable' = [enable EXCEPT ![e] = [step |-> "done", deleted |-> {}]]
  /\ rowLock' = IF rowLock = e THEN Nobody ELSE rowLock
  /\ UNCHANGED <<account, failed, codes, callVars, admitted>>

-----------------------------------------------------------------------------
LoginStep(l) ==
  \/ LoginCheck(l) \/ FindCode(l) \/ ConsumeCode(l) \/ SetSession(l) \/ ResetCount(l)
  \/ CountFailure(l) \/ LockAccount(l) \/ LoginAudited(l)

EnableStep(e) == EnableUpdate(e) \/ EnableDelete(e) \/ EnableCommit(e)

\* Somebody who knows the credentials of the moment tries.
RightLogin ==
  \E l \in Logins, input \in Inputs : Right(TRUE, input) /\ LoginRead(l, TRUE, input)

Next ==
  \/ \E l \in Logins : \/ LoginStep(l) \/ LoginFails(l)
                       \/ \E input \in Inputs : LoginRead(l, TRUE, input)
                       \/ LoginRead(l, FALSE, NoCode)
  \/ LockEnds \/ BeginTotp
  \/ \E e \in Enables : EnableRead(e) \/ EnableStep(e) \/ EnableFails(e)

Spec == Init /\ [][Next]_vars

\* Calls are answered, time passes, and the administrator keeps trying.
Fairness ==
  /\ \A l \in Logins : WF_vars(LoginStep(l))
  /\ \A e \in Enables : WF_vars(EnableStep(e))
  /\ WF_vars(LockEnds) /\ WF_vars(RightLogin)

FairSpec == Spec /\ Fairness

-----------------------------------------------------------------------------
(* Properties. *)

Account == [lockedUntil : {"null", "future", "past"}, totp : BOOLEAN, secret : 0..MaxSecrets]

TypeOK ==
  /\ account \in Account /\ failed \in 0..Attempts
  /\ codes \in [Enables -> {"absent", "unused", "used"}]
  /\ call \in [Logins -> [step : {"idle", "check", "codes", "consume", "session", "reset", "count", "lock", "audit"},
                          row : Account, password : BOOLEAN, input : Inputs]]
  /\ enable \in [Enables -> [step : {"new", "update", "delete", "create", "done"}, deleted : SUBSET Enables]]
  /\ rowLock \in Enables \cup {Nobody}
  /\ admitted \in [Enables -> Nat] /\ guesses \in Nat /\ faults \in Nat
  /\ budget \in [{"guesses", "setups", "faults"} -> Nat]

\* "single-use recovery codes": a backup code opens one session at most, also
\* when two logins present it at the same time or the codes are replaced
\* meanwhile.
CodeAdmitsOnce == \A e \in Enables : admitted[e] <= 1

\* The codes in the table are those of one enableTotp, however calls overlap:
\* codes that an administrator was given before no longer count.
CodesOfOneSetup == \A e, f \in Present : e = f

\* "five-attempt lockout": at most Attempts wrong logins are looked at before
\* the account is locked, and one more for each other call that was in progress
\* and for each that failed on the way.
GuessesBounded == guesses <= Attempts - 1 + Cardinality(Logins) + faults

\* A backup code opens one session at most, only the codes of the last setup
\* count, and the account is locked after Attempts wrong logins, but for the
\* calls that are in progress.
LoginsAreBounded == CodeAdmitsOnce /\ CodesOfOneSetup /\ GuessesBounded

\* A lock ends: whoever has the credentials of the moment gets in again and
\* again, after any wrong logins and through any change of the codes.
KeepsGettingIn == []<>(\E l \in Logins : call[l].step = "reset")
=============================================================================
