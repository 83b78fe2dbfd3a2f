------------------------ MODULE GatewaySessionProofs ------------------------
(***************************************************************************)
(* The life of a share, for any number of messages, logins and failures:   *)
(* what the journal calls accepted is what the pool decided, a share is    *)
(* resolved once, and a resolution is final.                               *)
(***************************************************************************)
EXTENDS GatewaySession, TLAPS

\* A message is in one place on its way to the handler, and a share that is
\* still on its way has no row.
OnePlace ==
  /\ down.at = "idle" => down.msg = None
  /\ down.at \in {"connect", "success", "send"} => down.msg \in Logins \cup Requests
  /\ unsent \cap inbox = {} /\ down.msg \notin unsent \cup inbox
  /\ \A s \in Shares : s \in unsent \cup inbox \/ s = down.msg => share[s] = "none"

Unresolved(s) == resolutions[s] = 0 /\ share[s] \in {"PENDING", "UNKNOWN", "PRUNED"}

\* What the gateway knows of a share agrees with the journal and with the
\* pool: who is in the map or whose answer is being handled is unresolved, and
\* in one of the two only.
Tracked ==
  /\ \A s \in Shares : share[s] = "none" => sent[s] = 0 /\ resolutions[s] = 0
  /\ \A s \in Shares : verdict[s] # "none" => sent[s] # 0
  /\ \A s \in answers : verdict[s] # "none"
  /\ \A s \in Shares : s \in pending => Unresolved(s)
  /\ \A a \in up : a.verdict = verdict[a.share] /\ Unresolved(a.share) /\ a.share \notin pending
  /\ \A s \in Shares :
       /\ resolutions[s] = 0 => share[s] \notin {"ACCEPTED", "REJECTED"} /\ told[s] = "none"
       /\ resolutions[s] <= 1

SessionInv == TypeOK /\ OnePlace /\ Tracked /\ NeverFabricated /\ ToldIsKept

-----------------------------------------------------------------------------
(* Types. *)

\* Calls of close() leave its progress, its snapshot and the timers well formed.
CloseTypes ==
  /\ closing \in {"no", "unknown", "clear", "teardown", "row", "lease", "done"}
  /\ snapshot \subseteq Shares /\ timers \in Nat

LEMMA StartCloseTypes == TypeOK /\ StartClose => CloseTypes'
  BY DEF TypeOK, StartClose, CloseTypes, PendingShares, closeVars

\* The steps of close(), the heartbeat and the pool's hang-up.
LEMMA CloseStepTypes ==
  ASSUME TypeOK,
         \/ Close \/ CloseStep \/ HeartbeatFails
         \/ \E u \in ups : UpstreamFailed(u)
         \/ \E l \in Logins : LeaseExpires(l) \/ LeaseLost(l)
  PROVE  TypeOK'
  <1>1. CASE Close
    <2>1. CloseTypes'  BY <1>1, StartCloseTypes, Zenon DEF Close
    <2> QED  BY <1>1, <2>1, Zenon DEF Close, TypeOK, CloseTypes, sessionVars, redisVars, shareVars, poolVars
  <1>2. CASE CloseUnknown
    BY <1>2 DEF CloseUnknown, Marked, Fault, TypeOK, ShareStatus, sessionVars, netVars, redisVars, poolVars
  <1>3. CASE CloseClear
    BY <1>3, Zenon DEF CloseClear, TypeOK, netVars, redisVars, shareVars, poolVars
  <1>4. CASE CloseTeardown
    BY <1>4, Zenon DEF CloseTeardown, LeaseOrDone, TypeOK, sessionVars, redisVars, shareVars, poolVars
  <1>5. CASE CloseRow
    BY <1>5 DEF CloseRow, LeaseOrDone, Fault, TypeOK, sessionVars, netVars, redisVars, shareVars, poolVars
  <1>6. CASE CloseLease
    BY <1>6 DEF CloseLease, Fault, TypeOK, sessionVars, netVars, shareVars, poolVars
  <1>7. CASE HeartbeatFails
    <2>1. CloseTypes'  BY <1>7, StartCloseTypes, Zenon DEF HeartbeatFails
    <2> QED  BY <1>7, <2>1, Zenon DEF HeartbeatFails, TypeOK, CloseTypes, sessionVars, netVars, redisVars, shareVars, poolVars
  <1>8. ASSUME NEW u \in ups, UpstreamFailed(u) PROVE TypeOK'
    <2>1. CloseTypes'  BY <1>8, StartCloseTypes, Zenon DEF UpstreamFailed
    <2> QED  BY <1>8, <2>1, Zenon DEF UpstreamFailed, TypeOK, CloseTypes, sessionVars, redisVars, shareVars, poolVars
  <1>9. ASSUME NEW l \in Logins, LeaseExpires(l) \/ LeaseLost(l) PROVE TypeOK'
    <2>1. /\ lease' = lease \ {l} /\ faults' \in Nat
          /\ UNCHANGED <<sessionVars, closeVars, netVars, row, shareVars, poolVars>>
      BY <1>9 DEF LeaseExpires, LeaseLost, Fault, TypeOK
    <2> QED  BY <2>1 DEF TypeOK, sessionVars, closeVars, netVars, shareVars, poolVars
  <1> QED  BY <1>1, <1>2, <1>3, <1>4, <1>5, <1>6, <1>7, <1>8, <1>9, Zenon DEF CloseStep

\* The handler of the miner's messages.
LEMMA DownStepTypes ==
  ASSUME TypeOK, OnePlace, DownStep \/ \E m \in Messages : MinerSends(m)
  PROVE  TypeOK'
  <1> USE MessagesAssumption
  <1>1. CASE Authenticated
    BY <1>1 DEF Authenticated, EnsureUpstream, AfterUpstream, TypeOK, netVars, shareVars, poolVars, Messages
  <1>2. CASE LoginRefused
    <2>1. CloseTypes'  BY <1>2, StartCloseTypes, Zenon DEF LoginRefused
    <2> QED  BY <1>2, <2>1, Zenon DEF LoginRefused, Idle, TypeOK, CloseTypes, netVars, redisVars, shareVars, poolVars
  <1>3. CASE Connected
    BY <1>3 DEF Connected, TypeOK, closeVars, redisVars, shareVars, poolVars
  <1>4. CASE Success
    <2>1. down' \in {AfterUpstream(down.msg), [down EXCEPT !.at = "connect"]} /\ faults' \in Nat
      BY <1>4 DEF Success, Fault, TypeOK
    <2>2. UNCHANGED <<inbox, up, pending, authorized, connectionId, upstream, closeVars, netVars, redisVars, row,
                      shareVars, poolVars>>
      BY <1>4, Zenon DEF Success
    <2> QED
      BY <2>1, <2>2
      DEF AfterUpstream, OnePlace, TypeOK, closeVars, netVars, redisVars, shareVars, poolVars, Messages
  <1>5. CASE RowCreated
    BY <1>5, Zenon DEF RowCreated, TypeOK, closeVars, netVars, redisVars, shareVars, poolVars
  <1>6. CASE Forwarded
    BY <1>6, Zenon
    DEF Forwarded, Forward, Idle, OnePlace, TypeOK, closeVars, netVars, redisVars, shareVars, poolVars, Messages
  <1>7. CASE LoginFails \/ ShareFails
    <2>1. CloseTypes'  BY <1>7, StartCloseTypes, Zenon DEF LoginFails, ShareFails, Throws
    <2>2. /\ down' = Idle /\ faults' \in Nat
          /\ UNCHANGED <<inbox, up, pending, authorized, connectionId, upstream, netVars, redisVars, row, shareVars,
                         poolVars>>
      BY <1>7 DEF LoginFails, ShareFails, Throws, Fault, TypeOK
    <2> QED  BY <2>1, <2>2, Zenon DEF Idle, TypeOK, CloseTypes, netVars, redisVars, shareVars, poolVars
  <1>8. CASE ShareForwarded
    <2>1. upstream \in Nat /\ down.msg \in Shares
      BY <1>8 DEF ShareForwarded, TypeOK
    <2> QED
      BY <1>8, <2>1, Zenon
      DEF ShareForwarded, Inserted, Forward, Idle, TypeOK, ShareStatus, closeVars, netVars, redisVars, Messages
  <1>9. ASSUME NEW l \in Logins, Login(l) PROVE TypeOK'
    BY <1>9, Zenon DEF Login, TypeOK, closeVars, netVars, redisVars, shareVars, poolVars, Messages
  <1>10. ASSUME NEW s \in Shares, Submit(s) PROVE TypeOK'
    BY <1>10, Zenon DEF Submit, Idle, TypeOK, closeVars, netVars, redisVars, shareVars, poolVars, Messages
  <1>11. ASSUME NEW m \in Requests, Request(m) PROVE TypeOK'
    <2>1. /\ down' \in {Idle, AfterUpstream(m), [at |-> "connect", msg |-> m]} /\ inbox' = inbox \ {m}
          /\ UNCHANGED <<up, pending, authorized, connectionId, upstream, closeVars, netVars, redisVars, row,
                         shareVars, poolVars, faults>>
      BY <1>11, Zenon DEF Request, EnsureUpstream
    <2> QED
      BY <2>1 DEF AfterUpstream, Idle, TypeOK, closeVars, netVars, redisVars, shareVars, poolVars, Messages
  <1>12. ASSUME NEW m \in Messages, MinerSends(m) PROVE TypeOK'
    BY <1>12 DEF MinerSends, TypeOK, closeVars, redisVars, shareVars, poolVars
  <1> QED
    BY <1>1, <1>2, <1>3, <1>4, <1>5, <1>6, <1>7, <1>8, <1>9, <1>10, <1>11, <1>12, Zenon DEF DownStep

\* The pool's answers and the jobs.
LEMMA AnswerTypes ==
  ASSUME TypeOK, Tracked,
         \/ \E s \in Shares :
              PoolDecides(s) \/ PoolRepeats(s) \/ ShareAnswered(s) \/ PruneRawShares(s) \/ Allocated(s)
         \/ Resolved \/ ResolveFails \/ ReconcilePending \/ Crash
         \/ \E m \in Logins \cup Requests : RequestAnswered(m)
  PROVE  TypeOK'
  <1>1. ASSUME NEW s \in Shares, PoolDecides(s) \/ PoolRepeats(s) PROVE TypeOK'
    <2>1. /\ verdict' \in [Shares -> Verdict] /\ answers' = answers \cup {s} /\ faults' \in Nat
          /\ UNCHANGED <<sessionVars, closeVars, netVars, redisVars, row, shareVars, sent, told>>
      BY <1>1 DEF PoolDecides, PoolRepeats, Fault, TypeOK, Verdict
    <2> QED  BY <2>1 DEF TypeOK, sessionVars, closeVars, netVars, redisVars, shareVars
  <1>2. ASSUME NEW s \in Shares, ShareAnswered(s) PROVE TypeOK'
    <2>1. [share |-> s, verdict |-> verdict[s]] \in [share: Shares, verdict: {"ACCEPTED", "REJECTED"}]
      BY <1>2 DEF ShareAnswered, Tracked, TypeOK, Verdict
    <2> QED  BY <1>2, <2>1 DEF ShareAnswered, Taken, TypeOK, closeVars, netVars, redisVars, shareVars
  <1>3. ASSUME NEW s \in Shares, PruneRawShares(s) PROVE TypeOK'
    BY <1>3
    DEF PruneRawShares, TypeOK, ShareStatus, sessionVars, closeVars, netVars, redisVars, poolVars
  <1>4. ASSUME NEW s \in Shares, Allocated(s) PROVE TypeOK'
    BY <1>4 DEF Allocated, TypeOK, sessionVars, closeVars, netVars, redisVars, poolVars
  <1>5. CASE Resolved
    <2>1. PICK a \in up : /\ Resolve(a)
                          /\ resolutions' = [resolutions EXCEPT ![a.share] = @ + 1]
                          /\ told' = [told EXCEPT ![a.share] = IF socket THEN a.verdict ELSE @]
                          /\ up' = up \ {a}
      BY <1>5, Zenon DEF Resolved
    <2>2. a.share \in Shares /\ a.verdict \in {"ACCEPTED", "REJECTED"}
      BY Zenon DEF TypeOK
    <2>3. share' \in [Shares -> ShareStatus] /\ resolutions' \in [Shares -> Nat] /\ told' \in [Shares -> Verdict]
      BY <2>1, <2>2 DEF Resolve, TypeOK, ShareStatus, Verdict
    <2> QED  BY <1>5, <2>1, <2>3 DEF Resolved, TypeOK, closeVars, netVars, redisVars
  <1>6. CASE ResolveFails
    <2>1. CloseTypes'  BY <1>6, StartCloseTypes, Zenon DEF ResolveFails
    <2>2. up' \subseteq up /\ faults' \in Nat
      BY <1>6 DEF ResolveFails, Fault, TypeOK
    <2> QED  BY <1>6, <2>1, <2>2, Zenon DEF ResolveFails, TypeOK, CloseTypes, netVars, redisVars, shareVars, poolVars
  <1>7. CASE ReconcilePending
    BY <1>7
    DEF ReconcilePending, Marked, TypeOK, ShareStatus, sessionVars, closeVars, netVars, redisVars, poolVars
  <1>8. CASE Crash
    <2>1. /\ down' \in [at: {"idle", "auth", "connect", "success", "row", "seen", "send", "share"},
                        msg: Messages \cup {None}]
          /\ down'.at = "idle"
          /\ socket' = FALSE /\ unsent' = {} /\ inbox' = {} /\ up' = {} /\ pending' = {}
          /\ authorized' = None /\ connectionId' = None /\ upstream' = 0
          /\ closing' = "done" /\ snapshot' = {} /\ timers' = 0 /\ ups' = {} /\ answers' = {}
          /\ faults' \in Nat
          /\ UNCHANGED <<connects, traffic, lease, row, share, resolutions, credited, sent, verdict, told>>
      BY <1>8 DEF Crash, Fault, Idle, TypeOK, redisVars, shareVars
    <2>2. upstream' \in 0..connects' /\ ups' \subseteq 1..connects' /\ connects' \in Nat
      BY <2>1 DEF TypeOK
    <2>3. /\ authorized' \in Logins \cup {None} /\ connectionId' \in Logins \cup {None}
          /\ socket' \in BOOLEAN /\ timers' \in Nat
      BY <2>1, Zenon
    <2>4. /\ inbox' \subseteq Messages /\ unsent' \subseteq Messages /\ pending' \subseteq Messages
          /\ up' \subseteq [share: Shares, verdict: {"ACCEPTED", "REJECTED"}]
          /\ snapshot' \subseteq Shares /\ answers' \subseteq Shares
      BY <2>1, Zenon
    <2> QED  BY <2>1, <2>2, <2>3, <2>4, Zenon DEF TypeOK
  <1>9. ASSUME NEW m \in Logins \cup Requests, RequestAnswered(m) PROVE TypeOK'
    <2>1. CloseTypes'
      BY <1>9, StartCloseTypes, Zenon DEF RequestAnswered, CloseTypes, TypeOK, closeVars
    <2> QED
      BY <1>9, <2>1, Zenon DEF RequestAnswered, TypeOK, CloseTypes, netVars, redisVars, shareVars, poolVars
  <1> QED  BY <1>1, <1>2, <1>3, <1>4, <1>5, <1>6, <1>7, <1>8, <1>9, Zenon

-----------------------------------------------------------------------------
(* The life of a share. *)

SharesInv == OnePlace /\ Tracked /\ NeverFabricated /\ ToldIsKept

\* Steps that move no message and no share.
LEMMA QuietStep ==
  ASSUME SessionInv, UNCHANGED <<unsent, inbox, down, up, pending, shareVars, poolVars>>
  PROVE  SharesInv'
  BY Zenon DEF SessionInv, SharesInv, OnePlace, Tracked, Unresolved, NeverFabricated, ToldIsKept, shareVars, poolVars

\* Steps that leave the journal and the pool alone and take no new share into
\* the map.
LEMMA SharesStay ==
  ASSUME SessionInv, UNCHANGED <<shareVars, poolVars, up>>, pending' \cap Shares \subseteq pending
  PROVE  Tracked' /\ NeverFabricated' /\ ToldIsKept'
  <1>1. TypeOK  BY Zenon DEF SessionInv
  <1>2. NeverFabricated' /\ ToldIsKept'
    BY Zenon DEF SessionInv, NeverFabricated, ToldIsKept, shareVars, poolVars
  <1>3. \A a \in up : a.share \in Shares
    BY <1>1, Zenon DEF TypeOK
  <1> QED  BY <1>2, <1>3, Zenon DEF SessionInv, Tracked, Unresolved, shareVars, poolVars

\* The miner's messages move on: from the miner to the gateway, to the
\* handler, to the pool.
LEMMA MessagesMove ==
  ASSUME SessionInv,
         \/ \E m \in Messages : MinerSends(m)
         \/ Authenticated \/ LoginRefused \/ Connected \/ Success \/ RowCreated \/ Forwarded
         \/ LoginFails \/ ShareFails
         \/ \E l \in Logins : Login(l)
         \/ \E s \in Shares : Submit(s)
         \/ \E m \in Requests : Request(m)
  PROVE  SharesInv'
  <1> USE MessagesAssumption
  <1>0. TypeOK /\ OnePlace  BY Zenon DEF SessionInv
  <1> DEFINE Same == UNCHANGED <<shareVars, poolVars, up>> /\ UNCHANGED share
  <1>1. ASSUME NEW m \in Messages, MinerSends(m) PROVE SharesInv'
    <2>1. Same /\ UNCHANGED pending
      BY <1>1, Zenon DEF MinerSends, shareVars
    <2>2. OnePlace'
      BY <1>0, <1>1, <2>1, Zenon DEF MinerSends, OnePlace, TypeOK
    <2> QED  BY <2>1, <2>2, SharesStay, Zenon DEF SharesInv
  <1>2. CASE Authenticated
    <2>1. Same /\ UNCHANGED <<pending, inbox, unsent>>
      BY <1>2, Zenon DEF Authenticated, shareVars, netVars
    <2>2. down.at = "auth" /\ down' = EnsureUpstream(down.msg)
      BY <1>2, Zenon DEF Authenticated
    <2>3. OnePlace'
      BY <1>0, <2>1, <2>2, Zenon DEF EnsureUpstream, AfterUpstream, OnePlace, TypeOK
    <2> QED  BY <2>1, <2>3, SharesStay, Zenon DEF SharesInv
  <1>3. CASE LoginRefused \/ LoginFails \/ ShareFails
    <2>1. Same /\ UNCHANGED <<pending, inbox, unsent>> /\ down' = Idle
      BY <1>3, Zenon DEF LoginRefused, LoginFails, ShareFails, Throws, shareVars, netVars
    <2>2. OnePlace'
      BY <1>0, <2>1, Zenon DEF Idle, OnePlace, TypeOK, Messages
    <2> QED  BY <2>1, <2>2, SharesStay, Zenon DEF SharesInv
  <1>4. CASE Connected
    <2>1. Same /\ UNCHANGED <<pending, inbox, unsent>>
      BY <1>4, Zenon DEF Connected, shareVars
    <2>2. OnePlace'
      BY <1>0, <1>4, <2>1, Zenon DEF Connected, OnePlace, TypeOK
    <2> QED  BY <2>1, <2>2, SharesStay, Zenon DEF SharesInv
  <1>5. CASE Success
    <2>1. Same /\ UNCHANGED <<pending, inbox, unsent>>
      BY <1>5, Zenon DEF Success, shareVars, netVars
    <2>2. down.at = "success" /\ down' \in {AfterUpstream(down.msg), [down EXCEPT !.at = "connect"]}
      BY <1>5, Zenon DEF Success
    <2>3. OnePlace'
      BY <1>0, <2>1, <2>2 DEF AfterUpstream, OnePlace, TypeOK
    <2> QED  BY <2>1, <2>3, SharesStay, Zenon DEF SharesInv
  <1>6. CASE RowCreated
    <2>1. Same /\ UNCHANGED <<pending, inbox, unsent>>
      BY <1>6, Zenon DEF RowCreated, shareVars, netVars
    <2>2. OnePlace'
      BY <1>0, <1>6, <2>1, Zenon DEF RowCreated, OnePlace, TypeOK
    <2> QED  BY <2>1, <2>2, SharesStay, Zenon DEF SharesInv
  <1>7. CASE Forwarded
    <2>1. Same /\ UNCHANGED <<inbox, unsent>> /\ down' = Idle
      BY <1>7, Zenon DEF Forwarded, shareVars, netVars
    <2>2. pending' \cap Shares \subseteq pending
      BY <1>0, <1>7 DEF Forwarded, Forward, OnePlace, TypeOK
    <2>3. OnePlace'
      BY <1>0, <2>1, Zenon DEF Idle, OnePlace, TypeOK, Messages
    <2> QED  BY <2>1, <2>2, <2>3, SharesStay, Zenon DEF SharesInv
  <1>8. ASSUME NEW l \in Logins, Login(l) PROVE SharesInv'
    <2>1. Same /\ UNCHANGED <<pending, unsent>>
      BY <1>8, Zenon DEF Login, shareVars, netVars
    <2>2. OnePlace'
      BY <1>0, <1>8, <2>1 DEF Login, OnePlace, TypeOK
    <2> QED  BY <2>1, <2>2, SharesStay, Zenon DEF SharesInv
  <1>9. ASSUME NEW s \in Shares, Submit(s) PROVE SharesInv'
    <2>1. Same /\ UNCHANGED <<pending, unsent>>
      BY <1>9, Zenon DEF Submit, shareVars, netVars
    <2>2. OnePlace'
      BY <1>0, <1>9, <2>1, Zenon DEF Submit, Idle, OnePlace, TypeOK, Messages
    <2> QED  BY <2>1, <2>2, SharesStay, Zenon DEF SharesInv
  <1>10. ASSUME NEW m \in Requests, Request(m) PROVE SharesInv'
    <2>1. Same /\ UNCHANGED <<pending, unsent>>
      BY <1>10, Zenon DEF Request, shareVars, netVars
    <2>2. /\ m \in inbox /\ inbox' = inbox \ {m}
          /\ down' \in {Idle, AfterUpstream(m), [at |-> "connect", msg |-> m]}
      BY <1>10, Zenon DEF Request, EnsureUpstream
    <2>3. OnePlace'
      BY <1>0, <2>1, <2>2 DEF AfterUpstream, Idle, OnePlace, TypeOK, Messages
    <2> QED  BY <2>1, <2>3, SharesStay, Zenon DEF SharesInv
  <1> QED  BY <1>1, <1>2, <1>3, <1>4, <1>5, <1>6, <1>7, <1>8, <1>9, <1>10, Zenon

\* A submit is journaled as PENDING, enters the map and is written.
LEMMA ShareForwardedStep == SessionInv /\ ShareForwarded => SharesInv'
  <1> SUFFICES ASSUME SessionInv, ShareForwarded PROVE SharesInv'
    BY Zenon
  <1> USE MessagesAssumption
  <1>0. TypeOK /\ OnePlace /\ Tracked /\ NeverFabricated /\ ToldIsKept  BY Zenon DEF SessionInv
  <1> DEFINE s == down.msg
  <1>1. /\ s \in Shares /\ share[s] = "none" /\ resolutions[s] = 0 /\ sent[s] = 0 /\ s \notin unsent \cup inbox
        /\ verdict[s] = "none" /\ told[s] = "none"
    BY <1>0, Zenon DEF ShareForwarded, TypeOK, OnePlace, Tracked
  <1>2. /\ share' = [share EXCEPT ![s] = "PENDING"] /\ pending' = pending \cup {s} /\ down' = Idle
        /\ sent' = [sent EXCEPT ![s] = IF upstream \in ups THEN upstream ELSE 0]
        /\ UNCHANGED <<inbox, unsent, up, resolutions, credited, verdict, answers, told>>
    BY <1>0, Zenon DEF ShareForwarded, Inserted, Forward, netVars, TypeOK
  <1>3. /\ share'[s] = "PENDING"
        /\ \A t \in Shares : t # s => share'[t] = share[t] /\ sent'[t] = sent[t]
    BY <1>0, <1>1, <1>2, Zenon DEF TypeOK
  <1>4. OnePlace'
    BY <1>0, <1>1, <1>2, <1>3 DEF Idle, OnePlace, TypeOK, Messages
  <1>5. \A a \in up : a.share \in Shares /\ a.share # s
    BY <1>0, <1>1 DEF Tracked, Unresolved, TypeOK
  <1>6. Tracked'
    BY <1>0, <1>1, <1>2, <1>3, <1>5 DEF Tracked, Unresolved, TypeOK
  <1>7. NeverFabricated' /\ ToldIsKept'
    BY <1>0, <1>1, <1>2, <1>3, Zenon DEF NeverFabricated, ToldIsKept
  <1> QED  BY <1>4, <1>6, <1>7, Zenon DEF SharesInv

\* The pool decides once, and repeats what it decided.
LEMMA PoolStep == SessionInv /\ (\E s \in Shares : PoolDecides(s) \/ PoolRepeats(s)) => SharesInv'
  <1> SUFFICES ASSUME SessionInv, NEW s \in Shares, PoolDecides(s) \/ PoolRepeats(s) PROVE SharesInv'
    BY Zenon
  <1>0. TypeOK /\ OnePlace /\ Tracked /\ NeverFabricated /\ ToldIsKept  BY Zenon DEF SessionInv
  <1>1. /\ sent[s] # 0 /\ answers' = answers \cup {s} /\ verdict'[s] # "none"
        /\ \A t \in Shares : verdict[t] # "none" => verdict'[t] = verdict[t]
        /\ \A t \in Shares : t # s => verdict'[t] = verdict[t]
        /\ UNCHANGED <<unsent, inbox, down, up, pending, share, resolutions, credited, sent, told>>
    BY <1>0 DEF PoolDecides, PoolRepeats, TypeOK, sessionVars, shareVars, netVars
  <1>2. OnePlace'
    BY <1>0, <1>1, Zenon DEF OnePlace
  <1>3. \A a \in up : a.share \in Shares /\ verdict[a.share] # "none"
    BY <1>0, Zenon DEF Tracked, TypeOK
  <1>4. Tracked'
    BY <1>0, <1>1, <1>3 DEF Tracked, Unresolved, TypeOK
  <1>5. NeverFabricated' /\ ToldIsKept'
    BY <1>0, <1>1, Zenon DEF NeverFabricated, ToldIsKept
  <1> QED  BY <1>2, <1>4, <1>5, Zenon DEF SharesInv

\* An answer takes its request from the map.
LEMMA ShareAnsweredStep == SessionInv /\ (\E s \in Shares : ShareAnswered(s)) => SharesInv'
  <1> SUFFICES ASSUME SessionInv, NEW s \in Shares, ShareAnswered(s) PROVE SharesInv'
    BY Zenon
  <1>0. TypeOK /\ OnePlace /\ Tracked /\ NeverFabricated /\ ToldIsKept  BY Zenon DEF SessionInv
  <1>1. /\ s \in answers /\ answers' = answers \ {s} /\ pending' = pending \ {s}
        /\ up' = IF s \in pending THEN up \cup {[share |-> s, verdict |-> verdict[s]]} ELSE up
        /\ UNCHANGED <<unsent, inbox, down, share, resolutions, credited, sent, verdict, told>>
    BY Zenon DEF ShareAnswered, Taken, shareVars, netVars
  <1>2. OnePlace' /\ NeverFabricated' /\ ToldIsKept'
    BY <1>0, <1>1, Zenon DEF OnePlace, NeverFabricated, ToldIsKept
  <1>3. ASSUME NEW a \in up'
        PROVE  a.verdict = verdict[a.share] /\ Unresolved(a.share) /\ a.share \notin pending'
    <2>1. CASE a \in up
      BY <1>0, <1>1, <2>1, Zenon DEF Tracked
    <2>2. CASE a = [share |-> s, verdict |-> verdict[s]] /\ s \in pending
      BY <1>0, <1>1, <2>2, Zenon DEF Tracked
    <2> QED  BY <1>1, <2>1, <2>2, Zenon
  <1>4. Tracked'
    BY <1>0, <1>1, <1>3, Zenon DEF Tracked, Unresolved
  <1> QED  BY <1>2, <1>4, Zenon DEF SharesInv

\* The journal takes the pool's verdict over.
LEMMA ResolvedStep == SessionInv /\ Resolved => SharesInv'
  <1> SUFFICES ASSUME SessionInv, Resolved PROVE SharesInv'
    BY Zenon
  <1>0. TypeOK /\ OnePlace /\ Tracked /\ NeverFabricated /\ ToldIsKept  BY Zenon DEF SessionInv
  <1>1. PICK a \in up : /\ share' = [share EXCEPT ![a.share] = a.verdict]
                        /\ resolutions' = [resolutions EXCEPT ![a.share] = @ + 1]
                        /\ told' = [told EXCEPT ![a.share] = IF socket THEN a.verdict ELSE @]
                        /\ up' = up \ {a}
    BY Zenon DEF Resolved, Resolve
  <1> DEFINE s == a.share
  <1>2. UNCHANGED <<unsent, inbox, down, pending, credited, sent, verdict, answers>>
    BY Zenon DEF Resolved, netVars
  <1>3. /\ s \in Shares /\ a.verdict \in {"ACCEPTED", "REJECTED"} /\ a.verdict = verdict[s] /\ Unresolved(s)
        /\ s \notin pending
    BY <1>0, Zenon DEF TypeOK, Tracked
  <1>4. /\ share'[s] = verdict[s] /\ resolutions'[s] = 1 /\ told'[s] \in {"none", verdict[s]}
        /\ \A t \in Shares : t # s => /\ share'[t] = share[t] /\ resolutions'[t] = resolutions[t]
                                      /\ told'[t] = told[t]
    BY <1>0, <1>1, <1>3 DEF TypeOK, Unresolved, Tracked
  <1>5. \A b \in up' : b.share \in Shares /\ b.share # s
    <2>1. SUFFICES ASSUME NEW b \in up, b # a PROVE b.share \in Shares /\ b.share # s
      BY <1>1, Zenon
    <2> QED  BY <1>0, <2>1 DEF TypeOK, Tracked
  <1>6. OnePlace'
    BY <1>0, <1>2, <1>3, <1>4, Zenon DEF OnePlace, Unresolved
  <1>7. Tracked'
    BY <1>0, <1>1, <1>2, <1>3, <1>4, <1>5 DEF Tracked, Unresolved
  <1>8. NeverFabricated' /\ ToldIsKept'
    BY <1>0, <1>2, <1>4, Zenon DEF NeverFabricated, ToldIsKept
  <1> QED  BY <1>6, <1>7, <1>8, Zenon DEF SharesInv

\* Rows that are PENDING become UNKNOWN, and no other row changes.
LEMMA MarkedStep ==
  ASSUME SessionInv, NEW S, share' = Marked(S),
         UNCHANGED <<unsent, inbox, down, up, pending, resolutions, credited, poolVars>>
  PROVE  SharesInv'
  <1>0. TypeOK /\ OnePlace /\ Tracked /\ NeverFabricated /\ ToldIsKept  BY Zenon DEF SessionInv
  <1>1. \A t \in Shares : share'[t] = share[t] \/ (share[t] = "PENDING" /\ share'[t] = "UNKNOWN")
    BY Zenon DEF Marked
  <1>2. UNCHANGED <<sent, verdict, answers, told>>
    BY Zenon DEF poolVars
  <1>3. OnePlace' /\ NeverFabricated' /\ ToldIsKept'
    BY <1>0, <1>1, <1>2, Zenon DEF OnePlace, NeverFabricated, ToldIsKept
  <1>4. \A a \in up : a.share \in Shares
    BY <1>0, Zenon DEF TypeOK
  <1>5. Tracked'
    BY <1>0, <1>1, <1>2, <1>4 DEF Tracked, Unresolved
  <1> QED  BY <1>3, <1>5, Zenon DEF SharesInv

\* Retention deletes rows of shares that are refused, unknown or paid for.
LEMMA PrunedStep == SessionInv /\ (\E s \in Shares : PruneRawShares(s)) => SharesInv'
  <1> SUFFICES ASSUME SessionInv, NEW s \in Shares, PruneRawShares(s) PROVE SharesInv'
    BY Zenon
  <1>0. TypeOK /\ OnePlace /\ Tracked /\ NeverFabricated /\ ToldIsKept  BY Zenon DEF SessionInv
  <1>1. /\ share[s] \in {"REJECTED", "UNKNOWN"} \/ (share[s] = "ACCEPTED" /\ s \in credited)
        /\ share'[s] = "PRUNED" /\ \A t \in Shares : t # s => share'[t] = share[t]
        /\ UNCHANGED <<unsent, inbox, down, up, pending, resolutions, credited, sent, verdict, answers, told>>
    BY <1>0, Zenon DEF PruneRawShares, Prunable, TypeOK, sessionVars, netVars, poolVars
  <1>2. OnePlace'
    BY <1>0, <1>1, Zenon DEF OnePlace
  <1>3. NeverFabricated'
    BY <1>0, <1>1, Zenon DEF NeverFabricated
  <1>4. ToldIsKept'
    BY <1>0, <1>1, Zenon DEF ToldIsKept
  <1>5. \A a \in up : a.share \in Shares
    BY <1>0, Zenon DEF TypeOK
  <1>6. Tracked'
    BY <1>0, <1>1, <1>5, Zenon DEF Tracked, Unresolved
  <1> QED  BY <1>2, <1>3, <1>4, <1>6, Zenon DEF SharesInv

\* After a crash nothing is on its way, and the journal is what it was.
LEMMA CrashStep == SessionInv /\ Crash => SharesInv'
  <1> SUFFICES ASSUME SessionInv, Crash PROVE SharesInv'
    BY Zenon
  <1> USE MessagesAssumption
  <1>0. TypeOK /\ OnePlace /\ Tracked /\ NeverFabricated /\ ToldIsKept  BY Zenon DEF SessionInv
  <1>1. /\ unsent' = {} /\ inbox' = {} /\ down' = Idle /\ up' = {} /\ pending' = {} /\ answers' = {}
        /\ UNCHANGED <<share, resolutions, credited, sent, verdict, told>>
    BY Zenon DEF Crash, shareVars
  <1>2. OnePlace'
    BY <1>1, Zenon DEF OnePlace, Idle
  <1>3. Tracked' /\ NeverFabricated' /\ ToldIsKept'
    BY <1>0, <1>1, Zenon DEF Tracked, NeverFabricated, ToldIsKept
  <1> QED  BY <1>2, <1>3, Zenon DEF SharesInv

-----------------------------------------------------------------------------
(* The invariant. *)

LEMMA SessionInit == Init => SessionInv
  <1> SUFFICES ASSUME Init PROVE SessionInv
    BY Zenon
  <1> USE MessagesAssumption DEF Init
  <1>1. unsent \subseteq Messages /\ traffic \in Traffic
    BY Zenon DEF Messages
  <1>2. TypeOK
    BY <1>1 DEF TypeOK, Idle, ShareStatus, Verdict, Messages
  <1>3. OnePlace
    BY <1>1, Zenon DEF OnePlace, Idle, Messages
  <1>4. Tracked /\ NeverFabricated /\ ToldIsKept
    BY DEF Tracked, NeverFabricated, ToldIsKept
  <1> QED  BY <1>2, <1>3, <1>4, Zenon DEF SessionInv

LEMMA SessionStep == SessionInv /\ [Next]_vars => SessionInv'
  <1> SUFFICES ASSUME SessionInv, [Next]_vars PROVE TypeOK' /\ SharesInv'
    BY Zenon DEF SessionInv, SharesInv
  <1>0. TypeOK /\ OnePlace /\ Tracked  BY Zenon DEF SessionInv
  <1>1. CASE \/ Close \/ CloseStep \/ HeartbeatFails
             \/ \E u \in ups : UpstreamFailed(u)
             \/ \E l \in Logins : LeaseExpires(l) \/ LeaseLost(l)
    <2>1. TypeOK'  BY <1>0, <1>1, CloseStepTypes, Zenon
    <2>2. CASE Close \/ CloseTeardown \/ CloseRow \/ CloseLease \/ HeartbeatFails
      BY <2>1, <2>2, QuietStep, Zenon
      DEF Close, CloseTeardown, CloseRow, CloseLease, HeartbeatFails, sessionVars, netVars
    <2>3. CASE CloseUnknown
      <3>1. /\ share' = Marked(snapshot) \/ share' = share
            /\ UNCHANGED <<unsent, inbox, down, up, pending, resolutions, credited, poolVars>>
        BY <2>3, Zenon DEF CloseUnknown, sessionVars, netVars
      <3>2. CASE share' = share  BY <2>1, <3>1, <3>2, QuietStep, Zenon DEF shareVars
      <3>3. CASE share' = Marked(snapshot)  BY <2>1, <3>1, <3>3, MarkedStep, Zenon
      <3> QED  BY <3>1, <3>2, <3>3, Zenon
    <2>4. CASE CloseClear
      <3>1. /\ UNCHANGED <<unsent, inbox, down, shareVars, poolVars, up>> /\ UNCHANGED share
            /\ pending' \cap Shares \subseteq pending
        BY <2>4, Zenon DEF CloseClear, netVars, shareVars
      <3>2. OnePlace'  BY <1>0, <3>1, Zenon DEF OnePlace
      <3> QED  BY <2>1, <3>1, <3>2, SharesStay, Zenon DEF SharesInv
    <2>5. ASSUME NEW u \in ups, UpstreamFailed(u) PROVE SharesInv'
      BY <2>5, QuietStep, Zenon DEF UpstreamFailed, sessionVars
    <2>6. ASSUME NEW l \in Logins, LeaseExpires(l) \/ LeaseLost(l) PROVE SharesInv'
      BY <2>6, QuietStep, Zenon DEF LeaseExpires, LeaseLost, sessionVars, netVars
    <2> QED  BY <1>1, <2>1, <2>2, <2>3, <2>4, <2>5, <2>6, Zenon DEF CloseStep
  <1>2. CASE DownStep \/ \E m \in Messages : MinerSends(m)
    <2>1. TypeOK'  BY <1>0, <1>2, DownStepTypes, Zenon
    <2>2. CASE ShareForwarded  BY <2>1, <2>2, ShareForwardedStep, Zenon
    <2>3. CASE ~ShareForwarded  BY <1>2, <2>1, <2>3, MessagesMove, Zenon DEF DownStep
    <2> QED  BY <2>2, <2>3, Zenon
  <1>3. CASE \/ \E s \in Shares :
                  PoolDecides(s) \/ PoolRepeats(s) \/ ShareAnswered(s) \/ PruneRawShares(s) \/ Allocated(s)
             \/ Resolved \/ ResolveFails \/ ReconcilePending \/ Crash
             \/ \E m \in Logins \cup Requests : RequestAnswered(m)
    <2>1. TypeOK'  BY <1>0, <1>3, AnswerTypes, Zenon
    <2>2. ASSUME NEW s \in Shares, PoolDecides(s) \/ PoolRepeats(s) \/ ShareAnswered(s) \/ PruneRawShares(s)
          PROVE  SharesInv'
      BY <2>2, PoolStep, ShareAnsweredStep, PrunedStep, Zenon
    <2>3. ASSUME NEW s \in Shares, Allocated(s) PROVE SharesInv'
      <3>1. /\ credited' = credited \cup {s}
            /\ UNCHANGED <<unsent, inbox, down, up, pending, share, resolutions, sent, verdict, answers, told>>
        BY <2>3, Zenon DEF Allocated, sessionVars, netVars, poolVars
      <3> QED
        BY <3>1, Zenon DEF SessionInv, SharesInv, OnePlace, Tracked, Unresolved, NeverFabricated, ToldIsKept
    <2>4. CASE Resolved \/ Crash  BY <2>1, <2>4, ResolvedStep, CrashStep, Zenon
    <2>5. CASE ResolveFails
      <3>1. /\ UNCHANGED <<unsent, inbox, down, pending, share, resolutions, credited, sent, verdict, answers, told>>
            /\ up' \subseteq up
        BY <2>5, Zenon DEF ResolveFails, netVars, shareVars, poolVars
      <3> QED
        BY <2>1, <3>1, Zenon DEF SessionInv, SharesInv, OnePlace, Tracked, Unresolved, NeverFabricated, ToldIsKept
    <2>6. CASE ReconcilePending
      <3>1. /\ \E S : share' = Marked(S)
            /\ UNCHANGED <<unsent, inbox, down, up, pending, resolutions, credited, poolVars>>
        BY <2>6, Zenon DEF ReconcilePending, sessionVars, netVars
      <3> QED  BY <2>1, <3>1, MarkedStep, Zenon
    <2>7. ASSUME NEW m \in Logins \cup Requests, RequestAnswered(m) PROVE SharesInv'
      <3>1. /\ UNCHANGED <<unsent, inbox, down, shareVars, poolVars, up>> /\ UNCHANGED share
            /\ pending' \cap Shares \subseteq pending
        BY <2>7, Zenon DEF RequestAnswered, netVars, shareVars
      <3>2. OnePlace'  BY <1>0, <3>1, Zenon DEF OnePlace
      <3> QED  BY <3>1, <3>2, SharesStay, Zenon DEF SharesInv
    <2> QED  BY <1>3, <2>1, <2>2, <2>3, <2>4, <2>5, <2>6, <2>7, Zenon
  <1>4. CASE UNCHANGED vars
    <2>1. TypeOK'
      BY <1>0, <1>4
      DEF vars, sessionVars, closeVars, netVars, redisVars, shareVars, poolVars, TypeOK
    <2>2. SharesInv'  BY <1>4, QuietStep, Zenon DEF vars, sessionVars, netVars
    <2> QED  BY <2>1, <2>2, Zenon
  <1> QED  BY <1>1, <1>2, <1>3, <1>4, Zenon DEF Next

LEMMA SessionCorrect == Spec => []SessionInv
  BY SessionInit, SessionStep, PTL DEF Spec

\* The gateway never fabricates a result: what the journal calls accepted or
\* rejected is what the pool decided (onUpstream, journal.resolve).
THEOREM PoolsWordOnly == Spec => []NeverFabricated
  <1>1. SessionInv => NeverFabricated
    BY Zenon DEF SessionInv
  <1> QED  BY <1>1, SessionCorrect, PTL

\* A share is journaled before it is forwarded, is resolved once, and work the
\* miner was told is accepted is kept until a deposit has paid for it.
THEOREM ShareLives == Spec => []ShareLifecycle
  <1>1. SessionInv => ShareLifecycle
    BY Zenon DEF SessionInv, ShareLifecycle, Tracked, JournaledBeforeForwarded, ResolvedOnce
  <1> QED  BY <1>1, SessionCorrect, PTL

\* A row changes by a submit that had none, by an answer to what is unresolved,
\* from PENDING to UNKNOWN, or by retention.
LEMMA RowChange ==
  ASSUME SessionInv, [Next]_vars, NEW s \in Shares
  PROVE  \/ share'[s] = share[s]
         \/ share[s] \notin {"ACCEPTED", "REJECTED"}
         \/ share'[s] = "PRUNED" /\ (share[s] = "ACCEPTED" => s \in credited)
  <1>0. TypeOK /\ OnePlace /\ Tracked  BY Zenon DEF SessionInv
  <1> DEFINE Goal == \/ share'[s] = share[s]
                     \/ share[s] \notin {"ACCEPTED", "REJECTED"}
                     \/ share'[s] = "PRUNED" /\ (share[s] = "ACCEPTED" => s \in credited)
  <1> SUFFICES Goal
    BY Zenon
  <1>1. CASE CloseUnknown \/ ReconcilePending
    BY <1>1, Zenon DEF CloseUnknown, ReconcilePending, Marked
  <1>2. CASE ShareForwarded
    BY <1>0, <1>2, Zenon DEF ShareForwarded, Inserted, TypeOK, OnePlace
  <1>3. CASE Resolved
    BY <1>0, <1>3 DEF Resolved, Resolve, TypeOK, Tracked, Unresolved
  <1>4. ASSUME NEW t \in Shares, PruneRawShares(t) PROVE Goal
    BY <1>0, <1>4, Zenon DEF PruneRawShares, Prunable, TypeOK
  <1>5. CASE UNCHANGED share
    BY <1>5, Zenon
  <1>6. ASSUME NEW t \in Shares, PoolDecides(t) \/ PoolRepeats(t) \/ ShareAnswered(t) \/ Allocated(t)
        PROVE  UNCHANGED share
    BY <1>6, Zenon DEF PoolDecides, PoolRepeats, ShareAnswered, Allocated, shareVars
  <1>7. ASSUME Close \/ CloseClear \/ CloseTeardown \/ CloseRow \/ CloseLease \/ HeartbeatFails \/ ResolveFails \/ Crash
        PROVE  UNCHANGED share
    BY <1>7, Zenon DEF Close, CloseClear, CloseTeardown, CloseRow, CloseLease, HeartbeatFails, ResolveFails, Crash, shareVars
  <1>8. ASSUME DownStep, ~ShareForwarded
        PROVE  UNCHANGED share
    BY <1>8, Zenon
    DEF DownStep, Authenticated, LoginRefused, Connected, Success, RowCreated, Forwarded, LoginFails, ShareFails,
        Login, Submit, Request, shareVars
  <1>9. ASSUME \/ \E m \in Messages : MinerSends(m)
               \/ \E u \in ups : UpstreamFailed(u)
               \/ \E m \in Logins \cup Requests : RequestAnswered(m)
               \/ \E l \in Logins : LeaseExpires(l) \/ LeaseLost(l)
        PROVE  UNCHANGED share
    BY <1>9, Zenon DEF MinerSends, UpstreamFailed, RequestAnswered, LeaseExpires, LeaseLost, shareVars
  <1>10. ASSUME UNCHANGED vars PROVE UNCHANGED share
    BY <1>10, Zenon DEF vars, shareVars
  <1> QED
    BY <1>1, <1>2, <1>3, <1>4, <1>5, <1>6, <1>7, <1>8, <1>9, <1>10, Zenon DEF Next, CloseStep

\* What is resolved stays so until it is pruned, and accepted work is pruned
\* only after a deposit has paid for it (journal.unknown, reconcilePending and
\* pruneRawShares against journal.resolve).
THEOREM ResolvedForGood == Spec => ResolutionIsFinal
  <1>1. SessionInv /\ [Next]_vars =>
          [\A s \in Shares :
             /\ share[s] = "REJECTED" => share'[s] \in {"REJECTED", "PRUNED"}
             /\ share[s] = "ACCEPTED" => \/ share'[s] = "ACCEPTED"
                                         \/ share'[s] = "PRUNED" /\ s \in credited]_vars
    BY RowChange, Zenon
  <1> QED  BY <1>1, SessionCorrect, PTL DEF Spec, ResolutionIsFinal
=============================================================================
