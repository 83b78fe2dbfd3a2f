--------------------------- MODULE Administration ---------------------------
(***************************************************************************)
(* How administrators get in and what is kept of their doings: the login   *)
(* to one account (AdminLogin), the sessions that logins open              *)
(* (AdminSessions) and the audit log (AuditLog).                           *)
(*                                                                         *)
(* The three share no variable, so what one can do does not depend on how  *)
(* far another has come: a behaviour moves one of them, its part, and      *)
(* reaches every state of it.                                              *)
(***************************************************************************)
EXTENDS AdminLogin

CONSTANTS Recorders, Events, Null, MaxSequence     \* see AuditLog
CONSTANTS Admins, Tabs, MaxLogins, MaxRequests     \* see AdminSessions

ASSUME AdministrationAssumption ==
  /\ Nobody \notin Recorders
  /\ MaxSequence \in Nat /\ MaxLogins \in Nat /\ MaxRequests \in Nat

VARIABLES
  part,
  rows, sequence, holder, tx,
  sessions, owner, active, cookie, tab, request, effects, sent

Audit == INSTANCE AuditLog
Panel == INSTANCE AdminSessions

auditVars == <<rows, sequence, holder, tx>>
panelVars == <<sessions, owner, active, cookie, tab, request, effects, sent>>
allVars == <<part, vars, auditVars, panelVars>>

AdministrationInit ==
  /\ part \in {"audit", "login", "panel"}
  /\ Audit!Init /\ Panel!Init
  /\ Init /\ (part = "login" \/ budget = CHOOSE b \in Budgets : TRUE)

InAudit(step) == part = "audit" /\ step /\ UNCHANGED <<part, vars, panelVars>>
InLogin(step) == part = "login" /\ step /\ UNCHANGED <<part, auditVars, panelVars>>
InPanel(step) == part = "panel" /\ step /\ UNCHANGED <<part, auditVars, vars>>

AdministrationNext == InAudit(Audit!Next) \/ InLogin(Next) \/ InPanel(Panel!Next)

\* AdminLogin has the reasons.
AdministrationSpec ==
  /\ AdministrationInit /\ [][AdministrationNext]_allVars
  /\ \A l \in Logins : WF_allVars(InLogin(LoginStep(l)))
  /\ \A e \in Enables : WF_allVars(InLogin(EnableStep(e)))
  /\ WF_allVars(InLogin(LockEnds)) /\ WF_allVars(InLogin(RightLogin))

-----------------------------------------------------------------------------
\* See AuditLog: verify accepts the log, and names the row that was changed.
LogVerifies == Audit!LogVerifies

\* See AuditLog: a record adds its row behind all that are there.
AppendOnly == [][Audit!Appends]_auditVars

\* See AdminLogin: a lock ends for whoever has the right credentials.
RightGetsIn == part = "login" => KeepsGettingIn

\* See AdminSessions: what a tab changes, it changes for the administrator it
\* shows, who is not disabled.
ActsAsShown == Panel!ActsAsShown

\* See AdminSessions: a session that has ended is brought back only by a request
\* that had found it.
EndedStaysEnded == [][Panel!KeepsOver]_panelVars
=============================================================================
