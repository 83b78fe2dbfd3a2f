------------------------------ MODULE RpcClient ------------------------------
(***************************************************************************)
(* JsonRpcClient, over which the wallet adapters talk to a wallet.         *)
(*                                                                         *)
(* The Bitcoin wallet takes the password with each request ("basic"), and  *)
(* calls run side by side.  The Monero wallet asks for a digest: it        *)
(* refuses a call's first request with a challenge, and performs the       *)
(* second one if that answers the challenge last given on the connection.  *)
(* So its calls go one at a time over one socket: a call waits for the     *)
(* promise that the call before it left in digestTail.                     *)
(*                                                                         *)
(* The wallet is outside the repository.  A challenge is named after the   *)
(* call that it was given to.  Bodies, ids and digests are left out.       *)
(***************************************************************************)
EXTENDS Naturals

CONSTANTS
  RpcCalls,     \* calls of the adapters: cron jobs and administrators overlap
  NoCall,       \* no call, no challenge
  RpcFaults     \* bound: time-outs and connections lost

VARIABLES
  wallet,       \* [auth, takes]: how it is spoken to; whether it takes our password
  digestTail,   \* the call that resolves digestTail
  rpc,          \* of a call: [step, previous]
  challenge,    \* the challenge last given on the open connection
  performed,    \* how often the wallet performed the call
  unread,       \* calls given up whose request may still reach the wallet
  lost,         \* calls whose challenge went with its connection
  lostCount     \* faults so far

vars == <<wallet, digestTail, rpc, challenge, performed, unread, lost, lostCount>>

Ended == {"done", "failed", "refused"}
At(c, step) == rpc[c].step = step
Digest == wallet.auth = "digest"

\* The wallet takes our password or has another one, gives a challenge that the
\* client has no answer to, or asks for no login.
Init ==
  /\ wallet \in [auth : {"basic", "digest"},
                takes : {"ok", "otherPassword", "otherScheme", "noLogin"}]
  /\ digestTail = NoCall
  /\ rpc = [c \in RpcCalls |-> [step |-> "idle", previous |-> NoCall]]
  /\ challenge = NoCall
  /\ performed = [c \in RpcCalls |-> 0]
  /\ unread = {} /\ lost = {} /\ lostCount = 0

Goto(c, step) == rpc' = [rpc EXCEPT ![c].step = step]

-----------------------------------------------------------------------------
(* The client.                                                              *)

\* call(): a basic call sends at once, a digest call lines up.
Call(c) ==
  /\ At(c, "idle")
  /\ IF Digest
     THEN /\ rpc' = [rpc EXCEPT ![c] = [step |-> "queued", previous |-> digestTail]]
          /\ digestTail' = c
     ELSE Goto(c, "authorized") /\ UNCHANGED digestTail
  /\ UNCHANGED <<wallet, challenge, performed, unread, lost, lostCount>>

\* The finally of call(): a call releases the next one however it ended.
\* (Mutant: only when it returns.)
ReleasedOnSuccess(c) == At(c, "done")
Released(c) == rpc[c].step \in Ended

\* await previous.
Turn(c) == \A d \in RpcCalls : d = rpc[c].previous => Released(d)

\* callOnce(): the first request of a digest call has no authorization.
Send(c) ==
  /\ At(c, "queued") /\ Turn(c)
  /\ Goto(c, "bare")
  /\ UNCHANGED <<wallet, digestTail, challenge, performed, unread, lost, lostCount>>

\* parseDigestChallenge() and digestAuthorization() find a realm, a nonce, an
\* algorithm and a qop that they know.
Answerable == wallet.takes # "otherScheme"

\* The 401 arrives.  Without an answer to it the call throws.
Challenged(c) ==
  /\ At(c, "bare") /\ wallet.takes # "noLogin"
  /\ challenge' = c
  /\ Goto(c, IF Answerable THEN "challenged" ELSE "refused")
  /\ UNCHANGED <<wallet, digestTail, performed, unread, lost, lostCount>>

\* The second request, when the body of the 401 has been read.
SendAuthorized(c) ==
  /\ At(c, "challenged")
  /\ Goto(c, "authorized")
  /\ UNCHANGED <<wallet, digestTail, challenge, performed, unread, lost, lostCount>>

Asking(c) == rpc[c].step \in {"bare", "authorized"}
InFlight(c) == Asking(c) \/ At(c, "performing")

\* The wallet performs a request that shows what it asks for.
Accepts(c) ==
  \/ wallet.takes = "noLogin"
  \/ wallet.takes = "ok" /\ At(c, "authorized") /\ (Digest => challenge = c)

\* The answer arrives: a result, or an error that is thrown, of HTTP or of the
\* wallet, which then has performed nothing.
Answered(c) ==
  /\ At(c, "performing")
  /\ Goto(c, "done")
  /\ UNCHANGED <<wallet, digestTail, challenge, performed, unread, lost, lostCount>>

Errored(c) ==
  /\ Asking(c)
  /\ Goto(c, "failed")
  /\ UNCHANGED <<wallet, digestTail, challenge, performed, unread, lost, lostCount>>

\* A request that has waited 30 seconds is destroyed, and so is its socket; one
\* whose connection breaks ends the same way.  The client cannot tell whether
\* the wallet has read it.  It is not sent again.
GiveUp(c) ==
  /\ InFlight(c) /\ lostCount < RpcFaults
  /\ Goto(c, "failed")
  /\ unread' = IF Asking(c) /\ Accepts(c) THEN unread \cup {c} ELSE unread
  /\ challenge' = NoCall
  /\ lostCount' = lostCount + 1
  /\ UNCHANGED <<wallet, digestTail, performed, lost>>

-----------------------------------------------------------------------------
(* The wallet.                                                              *)

Perform(c) ==
  /\ Asking(c) /\ Accepts(c)
  /\ Goto(c, "performing")
  /\ performed' = [performed EXCEPT ![c] = @ + 1]
  /\ UNCHANGED <<wallet, digestTail, challenge, unread, lost, lostCount>>

\* A 401 to an authorized request: the client throws.
Refuse(c) ==
  /\ At(c, "authorized") /\ ~Accepts(c)
  /\ Goto(c, "refused")
  /\ challenge' = NoCall
  /\ UNCHANGED <<wallet, digestTail, performed, unread, lost, lostCount>>

\* A request that the client gave up is performed, or was never read.
PerformLate(c) ==
  /\ c \in unread
  /\ unread' = unread \ {c}
  /\ performed' \in {performed, [performed EXCEPT ![c] = @ + 1]}
  /\ UNCHANGED <<wallet, digestTail, rpc, challenge, lost, lostCount>>

\* The wallet closes the connection between two requests; the agent opens another.
CloseIdle ==
  /\ Digest /\ challenge # NoCall /\ lostCount < RpcFaults
  /\ \A c \in RpcCalls : ~InFlight(c)
  /\ lost' = lost \cup {c \in RpcCalls : At(c, "challenged")}
  /\ challenge' = NoCall
  /\ lostCount' = lostCount + 1
  /\ UNCHANGED <<wallet, digestTail, rpc, performed, unread>>

-----------------------------------------------------------------------------
CallStep(c) ==
  \/ Send(c) \/ Challenged(c) \/ SendAuthorized(c) \/ Answered(c) \/ Errored(c)
  \/ GiveUp(c) \/ Perform(c) \/ Refuse(c)

Next ==
  \/ \E c \in RpcCalls : Call(c) \/ CallStep(c) \/ PerformLate(c)
  \/ CloseIdle

\* A promise is continued once it is settled, and a request ends: with an
\* answer, or when it has been silent for 30 seconds.
Spec == Init /\ [][Next]_vars /\ \A c \in RpcCalls : WF_vars(CallStep(c))

-----------------------------------------------------------------------------
\* How a call may end: with a result of a call performed once; given up,
\* performed once at most; or refused, not performed, and then because the
\* password is wrong or the connection was lost, never because another call
\* took the challenge.
EndedOnce(c) ==
  \/ At(c, "done") /\ performed[c] = 1
  \/ At(c, "failed") /\ performed[c] <= 1
  \/ At(c, "refused") /\ performed[c] = 0 /\ (wallet.takes = "ok" => c \in lost)

\* The calls that are made end, each in one of these ways, over the errors and
\* time-outs of the calls in the queue before them: a payout is not relayed
\* twice by the client, and a call that throws does not hold up the wallet.
CallsEndOnce == <>[](\A c \in RpcCalls : At(c, "idle") \/ EndedOnce(c))
==============================================================================
