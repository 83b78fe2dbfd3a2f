---------------------------- MODULE GatewayProofs ----------------------------
(***************************************************************************)
(* The two ends of the gateway: who gets in (GatewayAccess), for any       *)
(* number of sockets, names and addresses and every setting; and what it   *)
(* connects to (Upstreams), for any number of overlapping ticks, calls and *)
(* failures, any settings and any threshold.                               *)
(*                                                                         *)
(* Admission: a slot is taken and given back by the socket that counts for *)
(* it, and whoever mines for an identity has proved its password.          *)
(*                                                                         *)
(* The way out: the count that gives the direct path up is never ahead of  *)
(* the probes that have failed one after the other, and a save is made     *)
(* from a setting that was in order when it was read.                      *)
(*                                                                         *)
(* The wallets: calls that wait for each other's promise form a queue, of  *)
(* which those before one place have ended and those behind it have not    *)
(* begun.  So nobody else is given a challenge while a call answers its    *)
(* own.                                                                    *)
(***************************************************************************)
EXTENDS GatewayAccess, Upstreams, FiniteSetTheorems, TLAPS

-----------------------------------------------------------------------------
(* Admission (GatewayAdmission). *)

\* The 'authenticated' flag of a socket says that its login has ended well, and
\* a socket that accept has not let in has no login.
FlagOK ==
  \A s \in Sockets : /\ authenticated[s] <=> login[s] \in {"authorized", "late"}
                     /\ conn[s] = "none" => login[s] = "no"
                     /\ conn[s] = "open" => login[s] # "late"

Inv == TypeOK /\ FlagOK /\ OpenWithinLimits /\ NeverShutOut /\ LeasesWithinLimit

\* Cardinalities of sets of sockets, with and without one of them.
LEMMA SocketSets ==
  ASSUME NEW S \in SUBSET Sockets
  PROVE  /\ IsFiniteSet(S) /\ Cardinality(S) \in Nat
         /\ \A s \in Sockets \ S : Cardinality(S \cup {s}) = Cardinality(S) + 1
         /\ \A s \in S : Cardinality(S \ {s}) = Cardinality(S) - 1
         /\ \A T \in SUBSET S : Cardinality(T) \in Nat /\ Cardinality(T) <= Cardinality(S)
<1>1. IsFiniteSet(S)
  BY AdmissionAssumption, FS_Subset, Zenon
<1>2. Cardinality(S) \in Nat
  BY <1>1, FS_CardinalityType, Zenon
<1>3. ASSUME NEW s \in Sockets \ S PROVE Cardinality(S \cup {s}) = Cardinality(S) + 1
  BY <1>1, FS_AddElement, Zenon
<1>4. ASSUME NEW s \in S PROVE Cardinality(S \ {s}) = Cardinality(S) - 1
  BY <1>1, FS_RemoveElement, Zenon
<1>5. ASSUME NEW T \in SUBSET S PROVE Cardinality(T) \in Nat /\ Cardinality(T) <= Cardinality(S)
  BY <1>1, FS_Subset, FS_CardinalityType, Zenon
<1>6. QED
  BY <1>1, <1>2, <1>3, <1>4, <1>5, Zenon

\* The gateway starts without sockets and without leases.
LEMMA InitInv == Init => Inv
<1>1. SUFFICES ASSUME Init PROVE Inv
  BY Zenon
<1>2. TypeOK /\ FlagOK
  BY <1>1, Zenon DEF Init, TypeOK, FlagOK
<1>3. Open = {} /\ \A i \in Ips : OpenFrom(i) = {} /\ Unauthenticated(i) = {}
  BY <1>1, Zenon DEF Init, Open, OpenFrom, Unauthenticated
<1>4. Cardinality({}) = 0
  BY FS_EmptySet, Zenon
<1>5. OpenWithinLimits
  BY <1>1, <1>3, <1>4, AdmissionAssumption DEF Init, OpenWithinLimits
<1>6. NeverShutOut
  BY <1>1, <1>3, <1>4 DEF Init, NeverShutOut
<1>7. LeasesWithinLimit
  BY <1>1, <1>4, AdmissionAssumption DEF Init, LeasesWithinLimit
<1>8. QED
  BY <1>2, <1>5, <1>6, <1>7, Zenon DEF Inv

\* Types and flags need no arithmetic about sets.
LEMMA TypeStep == Inv /\ [Next]_vars => TypeOK' /\ FlagOK'
<1>1. SUFFICES ASSUME Inv, [Next]_vars PROVE TypeOK' /\ FlagOK'
  BY Zenon
<1>2. TypeOK /\ FlagOK
  BY <1>1, Zenon DEF Inv
<1>3. CASE UNCHANGED vars
  BY <1>2, <1>3, Zenon DEF TypeOK, FlagOK, vars, countVars
<1>4. CASE Next
  <2>1. PICK s \in Sockets :
          \/ Accept(s) \/ Refuse(s) \/ Login(s) \/ Reserve(s) \/ ReserveOther(s) \/ LoginAccepted(s) \/ LoginRefused(s)
          \/ SocketClosed(s) \/ ConnectionClosed(s) \/ RenewConnection(s) \/ Expire(s)
    BY <1>4, Zenon DEF Next
  <2>2. IpOf[s] \in Ips
    BY AdmissionAssumption, Zenon
  <2>3. CASE Accept(s)
    BY <1>2, <2>2, <2>3 DEF Accept, TypeOK, FlagOK
  <2>4. CASE Refuse(s)
    BY <1>2, <2>4, Zenon DEF Refuse, TypeOK, FlagOK, countVars
  <2>5. CASE Login(s)
    BY <1>2, <2>5, Zenon DEF Login, TypeOK, FlagOK, countVars
  <2>6. CASE LoginAccepted(s)
    BY <1>2, <2>2, <2>6 DEF LoginAccepted, Authorized, Decremented, TypeOK, FlagOK
  <2>13. CASE Reserve(s)
    BY <1>2, <2>13, Zenon DEF Reserve, TypeOK, FlagOK, countVars
  <2>14. CASE ReserveOther(s)
    BY <1>2, <2>14, Zenon DEF ReserveOther, TypeOK, FlagOK, countVars
  <2>7. CASE LoginRefused(s)
    BY <1>2, <2>7, Zenon DEF LoginRefused, TypeOK, FlagOK, countVars
  <2>8. CASE SocketClosed(s)
    BY <1>2, <2>2, <2>8 DEF SocketClosed, Decremented, TypeOK, FlagOK
  <2>9. CASE ConnectionClosed(s)
    BY <1>2, <2>9, Zenon DEF ConnectionClosed, TypeOK, FlagOK, countVars
  <2>10. CASE RenewConnection(s)
    BY <1>2, <2>10, Zenon DEF RenewConnection, TypeOK, FlagOK, countVars
  <2>11. CASE Expire(s)
    BY <1>2, <2>11, Zenon DEF Expire, TypeOK, FlagOK, countVars
  <2>12. QED
    BY <2>1, <2>3, <2>4, <2>5, <2>6, <2>7, <2>8, <2>9, <2>10, <2>11, <2>13, <2>14, Zenon
<1>5. QED
  BY <1>1, <1>3, <1>4, Zenon

\* Only Accept and the 'close' event change the set of open sockets.
LEMMA LimitsStep == Inv /\ [Next]_vars => OpenWithinLimits'
<1>1. SUFFICES ASSUME Inv, [Next]_vars PROVE OpenWithinLimits'
  BY Zenon
<1>2. TypeOK /\ OpenWithinLimits
  BY <1>1, Zenon DEF Inv
<1>3. Open \in SUBSET Sockets /\ \A i \in Ips : OpenFrom(i) \in SUBSET Sockets
  BY Zenon DEF Open, OpenFrom
<1>4. CASE \E s \in Sockets : Accept(s)
  <2>1. PICK s \in Sockets : Accept(s)
    BY <1>4, Zenon
  <2>2. s \notin Open /\ Open' = Open \cup {s}
    BY <1>2, <2>1, Zenon DEF Accept, Open, TypeOK
  <2>3. Cardinality(Open') = Cardinality(Open) + 1
    BY <1>3, <2>2, SocketSets, Zenon
  <2>4. ASSUME NEW i \in Ips
        PROVE  /\ socketsByIp'[i] = Cardinality(OpenFrom(i)')
               /\ Cardinality(OpenFrom(i)') <= MaxPerIp
    <3>1. CASE i = IpOf[s]
      <4>1. OpenFrom(i)' = OpenFrom(i) \cup {s} /\ s \notin OpenFrom(i)
        BY <2>2, <3>1, Zenon DEF OpenFrom
      <4>2. Cardinality(OpenFrom(i)') = Cardinality(OpenFrom(i)) + 1
        BY <1>3, <4>1, SocketSets, Zenon
      <4>3. socketsByIp'[i] = socketsByIp[i] + 1 /\ socketsByIp[i] < MaxPerIp
        BY <1>2, <2>1, <3>1, Zenon DEF Accept, Admitted, TypeOK
      <4>4. socketsByIp[i] = Cardinality(OpenFrom(i))
        BY <1>2, Zenon DEF OpenWithinLimits
      <4>5. QED
        BY <1>2, <4>2, <4>3, <4>4, AdmissionAssumption DEF TypeOK
    <3>2. CASE i # IpOf[s]
      <4>1. OpenFrom(i)' = OpenFrom(i)
        BY <2>2, <3>2, Zenon DEF OpenFrom
      <4>2. socketsByIp'[i] = socketsByIp[i]
        BY <1>2, <2>1, <3>2, Zenon DEF Accept, TypeOK
      <4>3. QED
        BY <1>2, <4>1, <4>2, Zenon DEF OpenWithinLimits
    <3>3. QED
      BY <3>1, <3>2, Zenon
  <2>5. activeSockets' = activeSockets + 1 /\ activeSockets < MaxConnections
    BY <2>1, Zenon DEF Accept, Admitted
  <2>6. activeSockets' = Cardinality(Open') /\ Cardinality(Open') <= MaxConnections
    BY <1>2, <2>3, <2>5, AdmissionAssumption DEF OpenWithinLimits, TypeOK
  <2>7. QED
    BY <2>4, <2>6, Zenon DEF OpenWithinLimits
<1>5. CASE \E s \in Sockets : SocketClosed(s)
  <2>1. PICK s \in Sockets : SocketClosed(s)
    BY <1>5, Zenon
  <2>2. s \in Open /\ Open' = Open \ {s}
    BY <1>2, <2>1, Zenon DEF SocketClosed, Open, TypeOK
  <2>3. Cardinality(Open) \in Nat /\ Cardinality(Open') \in Nat /\ Cardinality(Open') = Cardinality(Open) - 1
    <3>1. Cardinality(Open') = Cardinality(Open) - 1 /\ Cardinality(Open) \in Nat
      BY <1>3, <2>2, SocketSets, Zenon
    <3>2. Open' \in SUBSET Open
      BY <2>2, Zenon
    <3>3. Cardinality(Open') \in Nat
      BY <1>3, <3>2, SocketSets, Zenon
    <3>4. QED
      BY <3>1, <3>3, Zenon
  <2>4. ASSUME NEW i \in Ips
        PROVE  /\ socketsByIp'[i] = Cardinality(OpenFrom(i)')
               /\ Cardinality(OpenFrom(i)') <= MaxPerIp
    <3>1. CASE i = IpOf[s]
      <4>1. OpenFrom(i)' = OpenFrom(i) \ {s} /\ s \in OpenFrom(i)
        BY <2>2, <3>1, Zenon DEF OpenFrom
      <4>2. Cardinality(OpenFrom(i)') = Cardinality(OpenFrom(i)) - 1 /\ Cardinality(OpenFrom(i)) \in Nat
        BY <1>3, <4>1, SocketSets, Zenon
      <4>3. Cardinality(OpenFrom(i)') \in Nat
        <5>1. OpenFrom(i)' \in SUBSET OpenFrom(i)
          BY <4>1, Zenon
        <5>2. QED
          BY <1>3, <5>1, SocketSets, Zenon
      <4>4. socketsByIp'[i] = IF socketsByIp[i] > 0 THEN socketsByIp[i] - 1 ELSE 0
        BY <1>2, <2>1, <3>1, Zenon DEF SocketClosed, Decremented, TypeOK
      <4>5. socketsByIp[i] = Cardinality(OpenFrom(i)) /\ Cardinality(OpenFrom(i)) <= MaxPerIp
        BY <1>2, Zenon DEF OpenWithinLimits
      <4>6. QED
        BY <4>2, <4>3, <4>4, <4>5, AdmissionAssumption
    <3>2. CASE i # IpOf[s]
      <4>1. OpenFrom(i)' = OpenFrom(i)
        BY <2>2, <3>2, Zenon DEF OpenFrom
      <4>2. socketsByIp'[i] = socketsByIp[i]
        BY <1>2, <2>1, <3>2, Zenon DEF SocketClosed, Decremented, TypeOK
      <4>3. QED
        BY <1>2, <4>1, <4>2, Zenon DEF OpenWithinLimits
    <3>3. QED
      BY <3>1, <3>2, Zenon
  <2>5. activeSockets' = IF activeSockets > 0 THEN activeSockets - 1 ELSE 0
    BY <2>1, Zenon DEF SocketClosed
  <2>6. activeSockets' = Cardinality(Open') /\ Cardinality(Open') <= MaxConnections
    BY <1>2, <2>3, <2>5, AdmissionAssumption DEF OpenWithinLimits, TypeOK
  <2>7. QED
    BY <2>4, <2>6, Zenon DEF OpenWithinLimits
<1>6. CASE /\ Open' = Open /\ \A i \in Ips : OpenFrom(i)' = OpenFrom(i)
           /\ UNCHANGED <<activeSockets, socketsByIp>>
  BY <1>2, <1>6, Zenon DEF OpenWithinLimits
<1>7. ASSUME NEW s \in Sockets,
             \/ Refuse(s) \/ Login(s) \/ Reserve(s) \/ ReserveOther(s) \/ LoginAccepted(s) \/ LoginRefused(s)
             \/ ConnectionClosed(s) \/ RenewConnection(s) \/ Expire(s)
      PROVE  OpenWithinLimits'
  <2>1. UNCHANGED <<activeSockets, socketsByIp>>
    BY <1>7, Zenon DEF Refuse, Login, Reserve, ReserveOther, LoginAccepted, LoginRefused, ConnectionClosed, RenewConnection, Expire, countVars
  <2>2. \A t \in Sockets : conn'[t] = "open" <=> conn[t] = "open"
    BY <1>2, <1>7, Zenon DEF Refuse, Login, Reserve, ReserveOther, LoginAccepted, LoginRefused, ConnectionClosed, RenewConnection, Expire, TypeOK
  <2>3. Open' = Open
    BY <2>2, Zenon DEF Open
  <2>4. \A i \in Ips : OpenFrom(i)' = OpenFrom(i)
    BY <2>3, Zenon DEF OpenFrom
  <2>5. QED
    BY <1>6, <2>1, <2>3, <2>4, Zenon
<1>8. CASE UNCHANGED vars
  <2>1. Open' = Open
    BY <1>8, Zenon DEF Open, vars
  <2>2. \A i \in Ips : OpenFrom(i)' = OpenFrom(i)
    BY <2>1, Zenon DEF OpenFrom
  <2>3. QED
    BY <1>6, <1>8, <2>1, <2>2, Zenon DEF vars, countVars
<1>9. QED
  BY <1>1, <1>4, <1>5, <1>7, <1>8, Zenon DEF Next

\* finalize adds at most one lease, and only below the limit.
LEMMA LeaseStep == Inv /\ [Next]_vars => LeasesWithinLimit'
<1>1. SUFFICES ASSUME Inv, [Next]_vars PROVE LeasesWithinLimit'
  BY Zenon
<1>2. lease \in SUBSET Sockets /\ Cardinality(lease) <= MaxLeases /\ Cardinality(lease) \in Nat
  BY <1>1, SocketSets, Zenon DEF Inv, TypeOK, LeasesWithinLimit
<1>3. ASSUME lease' \subseteq lease PROVE LeasesWithinLimit'
  <2>1. Cardinality(lease') <= Cardinality(lease) /\ Cardinality(lease') \in Nat
    BY <1>2, <1>3, SocketSets, Zenon
  <2>2. QED
    BY <1>2, <2>1, AdmissionAssumption DEF LeasesWithinLimit
<1>4. CASE \E s \in Sockets : Reserve(s)
  <2>1. PICK s \in Sockets : Reserve(s)
    BY <1>4, Zenon
  <2> DEFINE L == lease \ expired
  <2>2. lease' = L \cup {s} /\ Cardinality(L) < MaxLeases
    BY <2>1, Zenon DEF Reserve, LeaseFree
  <2>3. L \in SUBSET Sockets
    BY <1>2, Zenon
  <2>4. Cardinality(L) \in Nat
    BY <2>3, SocketSets, Zenon
  <2>5. CASE s \in L
    <3>1. lease' = L
      BY <2>2, <2>5, Zenon
    <3>2. Cardinality(lease') = Cardinality(L)
      BY <3>1, Zenon
    <3>3. QED
      BY <2>2, <2>4, <3>2, AdmissionAssumption DEF LeasesWithinLimit
  <2>6. CASE s \notin L
    <3>1. Cardinality(L \cup {s}) = Cardinality(L) + 1
      BY <2>3, <2>6, SocketSets, Zenon
    <3>2. QED
      BY <2>2, <2>4, <3>1, AdmissionAssumption DEF LeasesWithinLimit
  <2>7. QED
    BY <2>5, <2>6, Zenon
<1>5. ASSUME NEW s \in Sockets,
             \/ Accept(s) \/ Refuse(s) \/ Login(s) \/ ReserveOther(s) \/ LoginAccepted(s) \/ LoginRefused(s)
             \/ SocketClosed(s) \/ ConnectionClosed(s) \/ RenewConnection(s) \/ Expire(s)
      PROVE  lease' \subseteq lease
  BY <1>5, Zenon DEF Accept, Refuse, Login, ReserveOther, LoginAccepted, LoginRefused, SocketClosed, ConnectionClosed, RenewConnection, Expire
<1>6. CASE UNCHANGED vars
  BY <1>3, <1>6, Zenon DEF vars
<1>7. QED
  BY <1>1, <1>3, <1>4, <1>5, <1>6, Zenon DEF Next

\* Whatever leaves the unauthenticated sockets of an address also lowers its count.
LEMMA ShutOutStep == Inv /\ [Next]_vars => NeverShutOut'
<1>1. SUFFICES ASSUME Inv, [Next]_vars, NEW i \in Ips
               PROVE  unauthenticatedByIp'[i] <= Cardinality(Unauthenticated(i)')
  BY Zenon DEF NeverShutOut
<1> DEFINE U == Unauthenticated(i)
           n == unauthenticatedByIp[i]
<1>2. TypeOK /\ FlagOK /\ n \in Nat
  BY <1>1, Zenon DEF Inv, TypeOK
<1>3. U \in SUBSET Sockets /\ n <= Cardinality(U)
  BY <1>1, Zenon DEF Inv, NeverShutOut, Unauthenticated, OpenFrom, Open
<1>4. Cardinality(U) \in Nat
  BY <1>3, SocketSets, Zenon
<1>5. U = {s \in Sockets : conn[s] = "open" /\ IpOf[s] = i /\ login[s] # "authorized"}
  BY Zenon DEF Unauthenticated, OpenFrom, Open
<1>6. U' = {s \in Sockets : conn'[s] = "open" /\ IpOf[s] = i /\ login'[s] # "authorized"}
  BY Zenon DEF Unauthenticated, OpenFrom, Open
<1>7. ASSUME U' = U, unauthenticatedByIp'[i] \in Nat, unauthenticatedByIp'[i] <= n
      PROVE  unauthenticatedByIp'[i] <= Cardinality(U')
  BY <1>2, <1>3, <1>4, <1>7
<1>8. ASSUME NEW s \in Sockets, Accept(s) PROVE unauthenticatedByIp'[i] <= Cardinality(U')
  <2>1. conn[s] = "none" /\ conn' = [conn EXCEPT ![s] = "open"] /\ login' = login
    BY <1>8, Zenon DEF Accept
  <2>2. login[s] # "authorized"
    BY <1>2, <2>1, Zenon DEF FlagOK
  <2>3. CASE IpOf[s] = i
    <3>1. s \notin U /\ U' = U \cup {s}
      BY <1>2, <1>5, <1>6, <2>1, <2>2, <2>3 DEF TypeOK
    <3>2. Cardinality(U') = Cardinality(U) + 1
      BY <1>3, <3>1, SocketSets, Zenon
    <3>3. unauthenticatedByIp'[i] = n + 1
      BY <1>2, <1>8, <2>3, Zenon DEF Accept, TypeOK
    <3>4. QED
      BY <1>2, <1>3, <1>4, <3>2, <3>3
  <2>4. CASE IpOf[s] # i
    <3>1. U' = U
      BY <1>2, <1>5, <1>6, <2>1, <2>4, Zenon DEF TypeOK
    <3>2. unauthenticatedByIp'[i] = n
      BY <1>2, <1>8, <2>4, Zenon DEF Accept, TypeOK
    <3>3. QED
      BY <1>2, <1>7, <3>1, <3>2
  <2>5. QED
    BY <2>3, <2>4, Zenon
\* What leaves the set of unauthenticated sockets also leaves the count.
<1>9. ASSUME NEW s \in U, U' = U \ {s}, unauthenticatedByIp'[i] = IF n > 0 THEN n - 1 ELSE 0
      PROVE  unauthenticatedByIp'[i] <= Cardinality(U')
  <2>1. Cardinality(U') = Cardinality(U) - 1
    BY <1>3, <1>9, SocketSets, Zenon
  <2>2. Cardinality(U') \in Nat
    <3>1. U' \in SUBSET U
      BY <1>9, Zenon
    <3>2. QED
      BY <1>3, <3>1, SocketSets, Zenon
  <2>3. QED
    BY <1>2, <1>3, <1>4, <1>9, <2>1, <2>2
<1>10. ASSUME NEW s \in Sockets, LoginAccepted(s) PROVE unauthenticatedByIp'[i] <= Cardinality(U')
  <2>1. unauthenticatedByIp'[i] = IF IpOf[s] = i THEN IF n > 0 THEN n - 1 ELSE 0 ELSE n
    BY <1>2, <1>10, Zenon DEF LoginAccepted, Authorized, Decremented, TypeOK
  <2>2. login[s] = "leased" /\ conn' = conn
    BY <1>10, Zenon DEF LoginAccepted
  <2>3. login' = [login EXCEPT ![s] = IF conn[s] = "open" THEN "authorized" ELSE "late"]
    BY <1>10, Zenon DEF LoginAccepted
  <2>4. CASE s \in U
    <3>1. IpOf[s] = i /\ conn[s] = "open"
      BY <1>5, <2>4, Zenon
    <3>2. U' = U \ {s}
      BY <1>2, <1>5, <1>6, <2>2, <2>3, <3>1, Zenon DEF TypeOK
    <3>3. QED
      BY <1>9, <2>1, <2>4, <3>1, <3>2, Zenon
  <2>5. CASE s \notin U
    <3>1. U' = U
      BY <1>2, <1>5, <1>6, <2>2, <2>3, <2>5 DEF TypeOK
    <3>2. unauthenticatedByIp'[i] \in Nat /\ unauthenticatedByIp'[i] <= n
      BY <1>2, <2>1
    <3>3. QED
      BY <1>7, <3>1, <3>2, Zenon
  <2>6. QED
    BY <2>4, <2>5, Zenon
<1>11. ASSUME NEW s \in Sockets, SocketClosed(s) PROVE unauthenticatedByIp'[i] <= Cardinality(U')
  <2>1. conn[s] = "open" /\ conn' = [conn EXCEPT ![s] = "closed"] /\ login' = login
    BY <1>11, Zenon DEF SocketClosed
  <2>2. CASE s \in U
    <3>1. IpOf[s] = i /\ ~authenticated[s]
      BY <1>2, <1>5, <2>1, <2>2, Zenon DEF FlagOK
    <3>2. unauthenticatedByIp'[i] = IF n > 0 THEN n - 1 ELSE 0
      BY <1>2, <1>11, <3>1, Zenon DEF SocketClosed, Decremented, TypeOK
    <3>3. U' = U \ {s}
      BY <1>2, <1>5, <1>6, <2>1, Zenon DEF TypeOK
    <3>4. QED
      BY <1>9, <2>2, <3>2, <3>3, Zenon
  <2>3. CASE s \notin U
    <3>1. U' = U
      BY <1>2, <1>5, <1>6, <2>1, <2>3 DEF TypeOK
    <3>2. IpOf[s] # i \/ authenticated[s]
      BY <1>2, <1>5, <2>1, <2>3, Zenon DEF FlagOK
    <3>3. unauthenticatedByIp'[i] = n
      BY <1>2, <1>11, <3>2, Zenon DEF SocketClosed, Decremented, TypeOK
    <3>4. QED
      BY <1>2, <1>7, <3>1, <3>3
  <2>4. QED
    BY <2>2, <2>3, Zenon
<1>12. ASSUME NEW s \in Sockets,
              \/ Refuse(s) \/ Login(s) \/ Reserve(s) \/ ReserveOther(s) \/ LoginRefused(s)
              \/ ConnectionClosed(s) \/ RenewConnection(s) \/ Expire(s)
       PROVE  unauthenticatedByIp'[i] <= Cardinality(U')
  <2>1. unauthenticatedByIp' = unauthenticatedByIp
    BY <1>12, Zenon DEF Refuse, Login, Reserve, ReserveOther, LoginRefused, ConnectionClosed, RenewConnection, Expire, countVars
  <2>2. \A t \in Sockets : /\ conn'[t] = "open" <=> conn[t] = "open"
                           /\ login'[t] # "authorized" <=> login[t] # "authorized"
    BY <1>2, <1>12, Zenon DEF Refuse, Login, Reserve, ReserveOther, LoginRefused, ConnectionClosed, RenewConnection, Expire, TypeOK
  <2>3. U' = U
    BY <1>5, <1>6, <2>2, Zenon
  <2>4. QED
    BY <1>2, <1>7, <2>1, <2>3
<1>13. CASE UNCHANGED vars
  <2>1. unauthenticatedByIp' = unauthenticatedByIp /\ conn' = conn /\ login' = login
    BY <1>13, Zenon DEF vars, countVars
  <2>2. U' = U
    BY <1>5, <1>6, <2>1, Zenon
  <2>3. QED
    BY <1>2, <1>7, <2>1, <2>2
<1>14. QED
  BY <1>1, <1>8, <1>10, <1>11, <1>12, <1>13, Zenon DEF Next

\* The limits of accept and of finalize hold for every number of sockets,
\* addresses and every configured limit.
THEOREM AdmissionSafe == Spec => [](TypeOK /\ OpenWithinLimits /\ NeverShutOut /\ LeasesWithinLimit)
<1>1. Inv /\ [Next]_vars => Inv'
  BY TypeStep, LimitsStep, LeaseStep, ShutOutStep, Zenon DEF Inv
<1>2. Inv => TypeOK /\ OpenWithinLimits /\ NeverShutOut /\ LeasesWithinLimit
  BY Zenon DEF Inv
<1>3. QED
  BY InitInv, <1>1, <1>2, PTL DEF Spec

-----------------------------------------------------------------------------
(* Access (GatewayAccess). *)

\* A login is checked once: its steps end before it is answered.
CheckedOnce ==
  \A s \in Sockets :
    /\ login[s] = "no" => step[s] = "idle" /\ result[s] = "none"
    /\ step[s] # "idle" => login[s] = "checking" /\ result[s] = "none"
    /\ login[s] \in {"leased", "authorized", "late"} => result[s] = "ok"

\* Who is let in has an identity, and the identity has the password.
LetInIsKnown ==
  \A s \in Sockets : /\ result[s] = "ok" <=> identity[s] # None
                     /\ identity[s] # None => worker[identity[s]] = Password[s]

LeasesAreOfWorker ==
  \A s \in lease : login[s] \in {"leased", "authorized", "late"} /\ identity[s] = Worker

AccessInv ==
  /\ TypeOK /\ Provisioning!TypeOK
  /\ CheckedOnce /\ LetInIsKnown /\ LeasesAreOfWorker

LEMMA AccessInitInv == AccessInit => AccessInv
  <1> SUFFICES ASSUME AccessInit PROVE AccessInv
    BY Zenon
  <1> USE DEF AccessInit
  <1>1. TypeOK
    BY Zenon DEF Init, TypeOK
  <1>2. Provisioning!TypeOK
    BY Zenon DEF Provisioning!Init, Provisioning!TypeOK
  <1>3. CheckedOnce /\ LetInIsKnown /\ LeasesAreOfWorker
    BY Zenon DEF Init, Provisioning!Init, CheckedOnce, LetInIsKnown, LeasesAreOfWorker
  <1> QED  BY <1>1, <1>2, <1>3, Zenon DEF AccessInv

\* Logins that are being checked end or go on; who has been let in stays so,
\* as no identity that exists is claimed again.
LEMMA ProvisioningStep == AccessInv /\ Provisioning!Next /\ UNCHANGED vars => AccessInv'
  <1> SUFFICES ASSUME AccessInv, Provisioning!Next, UNCHANGED vars PROVE AccessInv'
    BY Zenon
  <1> USE DEF AccessInv
  <1>0. UNCHANGED <<conn, login, authenticated, lease, expired>> /\ TypeOK'
    BY Zenon DEF vars, countVars, TypeOK
  <1>1. ASSUME NEW s \in Sockets, Provisioning!FindActiveWorker(s) PROVE AccessInv'
    <2>1. Provisioning!TypeOK'
      BY <1>1, AccessAssumption, Zenon
      DEF Provisioning!FindActiveWorker, Provisioning!Goto, Provisioning!Ends, Provisioning!TypeOK
    <2>2. CheckedOnce'
      BY <1>0, <1>1, Zenon
      DEF Provisioning!FindActiveWorker, Provisioning!Goto, Provisioning!Ends, Provisioning!TypeOK, CheckedOnce
    <2>3. LetInIsKnown' /\ LeasesAreOfWorker'
      BY <1>0, <1>1, AccessAssumption
      DEF Provisioning!FindActiveWorker, Provisioning!Goto, Provisioning!Ends, Provisioning!TypeOK, TypeOK,
          Provisioning!Verified, CheckedOnce, LetInIsKnown, LeasesAreOfWorker
    <2> QED  BY <1>0, <2>1, <2>2, <2>3, Zenon
  <1>2. ASSUME NEW s \in Sockets,
               Provisioning!Incr(s) \/ Provisioning!SetExpiry(s) \/ Provisioning!LoginFails(s)
        PROVE  AccessInv'
    <2>1. /\ UNCHANGED <<worker, disabled, identity>>
          /\ step[s] # "idle"
          /\ \/ Provisioning!Goto(s, "expire") \/ Provisioning!Goto(s, "create")
             \/ Provisioning!Ends(s, "refused")
      BY <1>2, Zenon DEF Provisioning!Incr, Provisioning!SetExpiry, Provisioning!LoginFails
    <2>2. attempts' \in [Ips -> Nat] /\ ttl' \in [Ips -> BOOLEAN]
      <3>1. CASE Provisioning!Incr(s)
        <4>1. attempts' = [attempts EXCEPT ![IpOf[s]] = @ + 1] /\ UNCHANGED ttl
          BY <3>1, Zenon DEF Provisioning!Incr
        <4> QED  BY <4>1, AdmissionAssumption DEF Provisioning!TypeOK
      <3>2. CASE Provisioning!SetExpiry(s)
        <4>1. (attempts[IpOf[s]] > 0) \in BOOLEAN
          OBVIOUS
        <4> QED  BY <3>2, <4>1, Zenon DEF Provisioning!SetExpiry, Provisioning!TypeOK
      <3>3. CASE Provisioning!LoginFails(s)
        BY <3>3, Zenon DEF Provisioning!LoginFails, Provisioning!TypeOK
      <3> QED  BY <1>2, <3>1, <3>2, <3>3, Zenon
    <2>3. Provisioning!TypeOK'
      BY <2>1, <2>2, Zenon DEF Provisioning!Goto, Provisioning!Ends, Provisioning!TypeOK
    <2>4. CheckedOnce' /\ LetInIsKnown' /\ LeasesAreOfWorker'
      BY <1>0, <2>1
      DEF Provisioning!Goto, Provisioning!Ends, Provisioning!TypeOK, CheckedOnce, LetInIsKnown, LeasesAreOfWorker
    <2> QED  BY <1>0, <2>3, <2>4, Zenon
  <1>3. ASSUME NEW s \in Sockets, NEW slug \in Names, Provisioning!Provision(s, slug) PROVE AccessInv'
    <2>1. step[s] # "idle"
      BY <1>3, Zenon DEF Provisioning!Provision
    <2>2. CASE Provisioning!Ends(s, "refused") /\ UNCHANGED <<worker, disabled, attempts, ttl, identity>>
      <3>1. Provisioning!TypeOK'
        BY <2>2, Zenon DEF Provisioning!Ends, Provisioning!TypeOK
      <3>2. CheckedOnce' /\ LetInIsKnown' /\ LeasesAreOfWorker'
        BY <1>0, <2>1, <2>2, Zenon
        DEF Provisioning!Ends, Provisioning!TypeOK, CheckedOnce, LetInIsKnown, LeasesAreOfWorker
      <3> QED  BY <1>0, <3>1, <3>2, Zenon
    <2>3. CASE /\ worker[slug] = None /\ worker' = [worker EXCEPT ![slug] = Password[s]]
               /\ \/ Provisioning!Ends(s, "ok") /\ identity' = [identity EXCEPT ![s] = slug]
                  \/ Provisioning!Ends(s, "refused") /\ UNCHANGED identity
               /\ UNCHANGED <<disabled, attempts, ttl>>
      <3>1. Provisioning!TypeOK'
        BY <2>3 DEF Provisioning!Ends, Provisioning!TypeOK
      <3>2. CheckedOnce'
        BY <1>0, <2>1, <2>3, Zenon DEF Provisioning!Ends, Provisioning!TypeOK, CheckedOnce
      <3>3. LetInIsKnown'
        BY <2>1, <2>3, AccessAssumption DEF Provisioning!Ends, Provisioning!TypeOK, CheckedOnce, LetInIsKnown
      <3>4. LeasesAreOfWorker'
        BY <1>0, <2>1, <2>3 DEF Provisioning!TypeOK, TypeOK, CheckedOnce, LeasesAreOfWorker
      <3> QED  BY <1>0, <3>1, <3>2, <3>3, <3>4, Zenon
    <2> QED
      BY <1>3, <2>2, <2>3, Zenon DEF Provisioning!Provision, Provisioning!Denied
  <1>4. ASSUME NEW x \in Disableable, Provisioning!SetStatus(x) PROVE AccessInv'
    <2>1. Provisioning!TypeOK'
      BY <1>4, Zenon DEF Provisioning!SetStatus, Provisioning!TypeOK
    <2> QED
      BY <1>0, <1>4, <2>1, Zenon DEF Provisioning!SetStatus, CheckedOnce, LetInIsKnown, LeasesAreOfWorker
  <1>5. ASSUME NEW i \in Ips, Provisioning!WindowEnds(i) PROVE AccessInv'
    <2>1. Provisioning!TypeOK'
      BY <1>5, Zenon DEF Provisioning!WindowEnds, Provisioning!TypeOK
    <2> QED
      BY <1>0, <1>5, <2>1, Zenon DEF Provisioning!WindowEnds, CheckedOnce, LetInIsKnown, LeasesAreOfWorker
  <1> QED  BY <1>1, <1>2, <1>3, <1>4, <1>5, Zenon DEF Provisioning!Next

\* Of the other steps only the start of a login is seen by its record.
LEMMA SocketStep ==
  ASSUME AccessInv, NEW s \in Sockets,
         \/ Finalize(s) \/ AccessRefused(s) \/ Accept(s) \/ Refuse(s) \/ LoginAccepted(s)
         \/ SocketClosed(s) \/ ConnectionClosed(s) \/ RenewConnection(s) \/ Expire(s),
         TypeOK', UNCHANGED provisionVars
  PROVE  AccessInv'
  <1> USE DEF AccessInv
  <1>1. UNCHANGED <<worker, disabled, attempts, ttl, step, result, identity>>
    BY Zenon DEF provisionVars
  <1>2. Provisioning!TypeOK' /\ LetInIsKnown'
    BY <1>1, Zenon DEF Provisioning!TypeOK, LetInIsKnown
  <1>3. CASE Finalize(s)
    <2>1. /\ login[s] = "checking" /\ result[s] = "ok" /\ login' = [login EXCEPT ![s] = "leased"]
          /\ lease' \subseteq lease \cup {s} /\ (s \in lease' \ lease => identity[s] = Worker)
      BY <1>3, Zenon DEF Finalize, Reserve, ReserveOther
    <2>2. CheckedOnce'
      BY <1>1, <2>1 DEF TypeOK, CheckedOnce
    <2>3. LeasesAreOfWorker'
      BY <1>1, <2>1 DEF TypeOK, LeasesAreOfWorker
    <2> QED  BY <1>2, <2>2, <2>3, Zenon
  <1>4. CASE AccessRefused(s)
    <2>1. /\ login[s] = "checking" /\ result[s] # "none" /\ login' = [login EXCEPT ![s] = "refused"]
          /\ lease' \subseteq lease
      BY <1>4, Zenon DEF AccessRefused, LoginRefused
    <2>2. CheckedOnce'
      BY <1>1, <2>1, Zenon DEF TypeOK, CheckedOnce
    <2>3. LeasesAreOfWorker'
      BY <1>1, <2>1, Zenon DEF TypeOK, LeasesAreOfWorker
    <2> QED  BY <1>2, <2>2, <2>3, Zenon
  <1>5. CASE LoginAccepted(s)
    BY <1>1, <1>2, <1>5 DEF LoginAccepted, TypeOK, CheckedOnce, LeasesAreOfWorker
  <1>6. CASE \/ Accept(s) \/ Refuse(s) \/ SocketClosed(s) \/ ConnectionClosed(s)
             \/ RenewConnection(s) \/ Expire(s)
    <2>1. login' = login /\ lease' \subseteq lease
      BY <1>6, Zenon DEF Accept, Refuse, SocketClosed, ConnectionClosed, RenewConnection, Expire
    <2> QED  BY <1>1, <1>2, <2>1, Zenon DEF CheckedOnce, LeasesAreOfWorker
  <1> QED  BY <1>3, <1>4, <1>5, <1>6, Zenon

\* authenticate begins for a login that has no record yet.
LEMMA LoginStep ==
  ASSUME AccessInv, NEW s \in Sockets, AccessLogin(s), TypeOK'
  PROVE  AccessInv'
  <1> USE DEF AccessInv, AccessLogin
  <1>1. Provisioning!TypeOK' /\ LetInIsKnown'
    BY Zenon DEF Provisioning!Authenticate, Provisioning!TypeOK, LetInIsKnown
  <1>2. CheckedOnce'
    BY DEF Login, Provisioning!Authenticate, Provisioning!TypeOK, TypeOK, CheckedOnce
  <1>3. LeasesAreOfWorker'
    BY Zenon DEF Login, Provisioning!Authenticate, TypeOK, LeasesAreOfWorker
  <1> QED  BY <1>1, <1>2, <1>3, Zenon

\* The gateway with its identities takes the steps of GatewayAdmission: the
\* limits of accept and of finalize hold of it too.
LEMMA AccessIsAdmission == AccessNext => [Next]_vars
  <1> SUFFICES ASSUME AccessNext PROVE [Next]_vars
    BY Zenon
  <1>1. ASSUME NEW s \in Sockets, AccessLogin(s) PROVE Next
    BY <1>1, Zenon DEF AccessLogin, Next
  <1>2. ASSUME NEW s \in Sockets, Finalize(s) PROVE Next
    BY <1>2, Zenon DEF Finalize, Next
  <1>3. ASSUME NEW s \in Sockets, AccessRefused(s) PROVE Next
    BY <1>3, Zenon DEF AccessRefused, Next
  <1>4. ASSUME NEW s \in Sockets,
               \/ Accept(s) \/ Refuse(s) \/ LoginAccepted(s)
               \/ SocketClosed(s) \/ ConnectionClosed(s) \/ RenewConnection(s) \/ Expire(s)
        PROVE  Next
    BY <1>4, Zenon DEF Next
  <1> QED  BY <1>1, <1>2, <1>3, <1>4, Zenon DEF AccessNext

\* Whatever the numbers of sockets, names, addresses and the limits, a socket
\* that authenticate has let in proved the password of its identity
\* (gateway-auth.service.ts), and accept and finalize keep to their limits.
THEOREM AccessSafe ==
  AccessSpec => [](OpenWithinLimits /\ NeverShutOut /\ LeasesWithinLimit /\ ProtectedByPassword)
  <1>1. AccessInit => Inv /\ AccessInv
    BY InitInv, AccessInitInv, Zenon DEF AccessInit
  <1>2. Inv /\ AccessInv /\ [AccessNext]_<<vars, provisionVars>> => Inv' /\ AccessInv'
    <2> SUFFICES ASSUME Inv, AccessInv, [AccessNext]_<<vars, provisionVars>> PROVE Inv' /\ AccessInv'
      BY Zenon
    <2>1. [Next]_vars
      BY AccessIsAdmission, Zenon
    <2>2. Inv'
      BY <2>1, TypeStep, LimitsStep, LeaseStep, ShutOutStep, Zenon DEF Inv
    <2>3. TypeOK'
      BY <2>2, Zenon DEF Inv
    <2>4. CASE UNCHANGED <<vars, provisionVars>>
      <3>1. AccessInv'
        BY <2>3, <2>4, Zenon
        DEF AccessInv, Provisioning!TypeOK, CheckedOnce, LetInIsKnown, LeasesAreOfWorker, vars, provisionVars
      <3> QED  BY <2>2, <3>1, Zenon
    <2>5. CASE AccessNext
      BY <2>2, <2>3, <2>5, ProvisioningStep, SocketStep, LoginStep, Zenon DEF AccessNext
    <2> QED  BY <2>4, <2>5, Zenon
  <1>3. Inv /\ AccessInv => OpenWithinLimits /\ NeverShutOut /\ LeasesWithinLimit /\ ProtectedByPassword
    <2> SUFFICES ASSUME Inv, AccessInv PROVE ProtectedByPassword
      BY Zenon DEF Inv
    <2> QED
      BY AccessAssumption, Zenon
      DEF AccessInv, TypeOK, CheckedOnce, LetInIsKnown, LeasesAreOfWorker, ProtectedByPassword,
          Provisioning!ProtectedByPassword
  <1> QED  BY <1>1, <1>2, <1>3, PTL DEF AccessSpec

\* Sockets and leases stay within their limits on the composed login path.
THEOREM AccessWithinLimits == AccessSpec => []WithinLimits
  BY AccessSafe, PTL DEF WithinLimits

\* No address is shut out by a count that the composed login path left too high.
THEOREM AccessNotShutOut == AccessSpec => []NeverShutOut
  BY AccessSafe, PTL


-----------------------------------------------------------------------------
(* The way out (EgressProxy). *)

\* The configuration of a setting is for its type, and there when it is needed.
Fits(s) == s.config \in {Unset, s.type} /\ (s.system => s.config # Unset)

\* The counts of the health check and of the probes.
Counts ==
  /\ directUp \in BOOLEAN /\ failures \in 0..Threshold /\ failedRun \in 0..Threshold
  /\ failures <= failedRun

EgressInv ==
  /\ Fits(setting)
  /\ update.step = "read" => update.dto \in Dtos /\ Fits(update.before)
  /\ Counts /\ FailoverIsEarned

LEMMA EgressInvInit == EgressInit => EgressInv
  <1> SUFFICES ASSUME EgressInit PROVE EgressInv
    BY Zenon
  <1>1. Fits(setting) /\ update.step = "idle"
    BY Zenon DEF EgressInit, Default, NoUpdate, Fits
  <1>2. Counts /\ FailoverIsEarned
    BY EgressAssumption DEF EgressInit, Counts, FailoverIsEarned
  <1> QED  BY <1>1, <1>2, Zenon DEF EgressInv

\* Whoever leaves the setting, the save and the counts alone leaves this.
LEMMA EgressKept ==
  ASSUME EgressInv, UNCHANGED <<setting, directUp, failures, failedRun>>,
         update' = update \/ update'.step # "read"
  PROVE  EgressInv'
  BY Zenon DEF EgressInv, Counts, FailoverIsEarned, Fits

\* What update stores fits: a configuration that is kept is one for the type.
LEMMA SavedFits ==
  ASSUME NEW dto \in Dtos, NEW before, Fits(before), Uploaded(dto, before)
  PROVE  Fits([dto EXCEPT !.config = NextConfig(dto, before)])
  <1>1. dto \in Setting /\ dto.config \in {Unset, dto.type}
    BY EgressAssumption, Zenon
  <1> DEFINE saved == [dto EXCEPT !.config = NextConfig(dto, before)]
  <1>2. /\ saved.config = NextConfig(dto, before)
        /\ saved.type = dto.type /\ saved.system = dto.system
    BY <1>1, Zenon DEF Setting
  <1> HIDE DEF saved
  <1>3. /\ NextConfig(dto, before) \in {Unset, dto.type}
        /\ dto.system => NextConfig(dto, before) # Unset
    BY <1>1, Zenon DEF NextConfig, Uploaded, Fits
  <1>4. Fits(saved)
    BY <1>2, <1>3, Zenon DEF Fits
  <1> QED  BY <1>4, Zenon DEF saved

LEMMA UpdateKeeps == EgressInv /\ (UpdateSaves \/ UpdateWrites \/ UpdateFails \/ \E dto \in Dtos : UpdateReads(dto)) => EgressInv'
  <1> SUFFICES ASSUME EgressInv,
                      UpdateSaves \/ UpdateWrites \/ UpdateFails \/ \E dto \in Dtos : UpdateReads(dto)
               PROVE  EgressInv'
    BY Zenon
  <1>1. ASSUME NEW dto \in Dtos, UpdateReads(dto) PROVE EgressInv'
    <2>1. update'.dto = dto /\ update'.before = setting
      BY <1>1, Zenon DEF UpdateReads
    <2>2. UNCHANGED <<setting, directUp, failures, failedRun>>
      BY <1>1, Zenon DEF UpdateReads
    <2>3. Fits(setting)' /\ Fits(update'.before)
      BY <2>1, <2>2, Zenon DEF EgressInv, Fits
    <2>4. Counts' /\ FailoverIsEarned'
      BY <2>2, Zenon DEF EgressInv, Counts, FailoverIsEarned
    <2>5. Fits(update.before)'
      BY <2>3, Zenon DEF Fits
    <2> QED  BY <2>1, <2>3, <2>4, <2>5, Zenon DEF EgressInv
  <1>2. CASE UpdateSaves
    <2>0. update.step = "read" /\ UNCHANGED <<directUp, failures, failedRun>>
      BY <1>2, Zenon DEF UpdateSaves
    <2>1. CASE Uploaded(update.dto, update.before)
      <3>1. setting' = [update.dto EXCEPT !.config = NextConfig(update.dto, update.before)] /\ update'.step = "saved"
        BY <1>2, <2>1 DEF UpdateSaves
      <3>2. Fits(setting')
        BY <2>0, <2>1, <3>1, SavedFits, Zenon DEF EgressInv
      <3>3. Fits(setting)'
        BY <3>2, Zenon DEF Fits
      <3>4. Counts' /\ FailoverIsEarned'
        BY <2>0, Zenon DEF EgressInv, Counts, FailoverIsEarned
      <3> QED  BY <3>1, <3>3, <3>4, Zenon DEF EgressInv
    <2>2. CASE ~Uploaded(update.dto, update.before)
      BY <1>2, <2>0, <2>2, EgressKept DEF UpdateSaves, NoUpdate
    <2> QED  BY <2>1, <2>2, Zenon
  <1>3. CASE UpdateWrites \/ UpdateFails
    BY <1>3, EgressKept DEF UpdateWrites, UpdateFails, NoUpdate
  <1> QED  BY <1>1, <1>2, <1>3, Zenon

LEMMA ProbeKeeps ==
  ASSUME EgressInv, NEW t \in Ticks, Probed(t)
  PROVE  EgressInv'
  <1> USE EgressAssumption
  <1>0. UNCHANGED <<setting, update>> /\ Counts /\ FailoverIsEarned
    BY Zenon DEF Probed, EgressInv
  <1>1. CASE Reachable
    <2>1. directUp' = TRUE /\ failures' = 0 /\ failedRun' = 0
      BY <1>1, Zenon DEF Probed
    <2> QED  BY <1>0, <2>1 DEF EgressInv, Counts, FailoverIsEarned, Fits
  <1>2. CASE ~Reachable
    <2>1. /\ failures' = IF failures < Threshold THEN failures + 1 ELSE failures
          /\ directUp' = (directUp /\ ~(failures + 1 >= Threshold))
          /\ failedRun' = IF failedRun < Threshold THEN failedRun + 1 ELSE failedRun
      BY <1>2, Zenon DEF Probed, GivesUp
    <2>2. failures' \in 0..Threshold /\ failedRun' \in 0..Threshold /\ failures' <= failedRun'
      BY <1>0, <2>1 DEF Counts
    <2>3. directUp' \in BOOLEAN
      BY <2>1, Zenon
    <2>4. ~directUp' => ~directUp \/ failures + 1 >= Threshold
      BY <2>1, Zenon
    <2>5. ~directUp' => failedRun' = Threshold
      BY <1>0, <2>1, <2>4 DEF Counts, FailoverIsEarned
    <2> QED  BY <1>0, <2>2, <2>3, <2>5, Zenon DEF EgressInv, Counts, FailoverIsEarned, Fits
  <1> QED  BY <1>1, <1>2, Zenon

LEMMA EgressStep == EgressInv /\ [EgressNext]_egressVars => EgressInv'
  <1> SUFFICES ASSUME EgressInv, [EgressNext]_egressVars PROVE EgressInv'
    BY Zenon
  <1>1. CASE UpdateStep \/ UpdateFails \/ \E dto \in Dtos : UpdateReads(dto)
    BY <1>1, UpdateKeeps, Zenon DEF UpdateStep
  <1>2. ASSUME NEW t \in Ticks, TickStep(t) PROVE EgressInv'
    <2>1. CASE TickDisabled(t)
      BY <2>1, EgressAssumption DEF TickDisabled, EgressInv, Counts, FailoverIsEarned, Fits
    <2>2. CASE TickReads(t) \/ TickAlwaysOn(t) \/ TickFailover(t)
      BY <2>2, EgressKept, Zenon DEF TickReads, TickAlwaysOn, TickFailover
    <2> QED  BY <1>2, <2>1, <2>2, ProbeKeeps, Zenon DEF TickStep
  <1>3. CASE DialStep \/ ProxyFails \/ IntervalPasses
    BY <1>3, EgressKept, Zenon DEF DialStep, Dial, ConnectDirect, DialTunnel, FinalizeSocket, ProxyFails, IntervalPasses
  <1>4. CASE AgentStep \/ AgentRestarts \/ RetryPasses \/ PathChanges
    BY <1>4, EgressKept, Zenon
    DEF AgentStep, ReadApply, ReadActive, EnsureUp, EnsureDown, AgentRestarts, RetryPasses, PathChanges, appVars
  <1>5. CASE Restart
    BY <1>5, EgressAssumption DEF Restart, NoUpdate, EgressInv, Counts, FailoverIsEarned, Fits
  <1>6. CASE UNCHANGED egressVars
    BY <1>6, EgressKept, Zenon DEF egressVars, appVars
  <1> QED  BY <1>1, <1>2, <1>3, <1>4, <1>5, <1>6, Zenon DEF EgressNext

\* The way out moves by its own steps only, whatever the other parts do.
LEMMA EgressPart == UpstreamsSpec => EgressSpec
  <1>1. UpstreamsInit => EgressInit
    BY Zenon DEF UpstreamsInit
  <1>2. [UpstreamsNext]_allVars => [EgressNext]_egressVars
    BY Zenon DEF UpstreamsNext, InEgress, InPools, InWallet, allVars
  <1> QED  BY <1>1, <1>2, PTL DEF UpstreamsSpec, EgressSpec

\* However saves, overlapping ticks, restarts and the agent interleave, update
\* never leaves the system without the tunnel's configuration, and the direct
\* path is given up only after Threshold probes have failed in a row.
THEOREM EgressStaysEarned == UpstreamsSpec => []EgressIsEarned
  <1>1. EgressInv => EgressIsEarned
    BY Zenon DEF EgressInv, EgressIsEarned, SystemHasConfig, Fits
  <1> QED  BY <1>1, EgressPart, EgressInvInit, EgressStep, PTL DEF EgressSpec

-----------------------------------------------------------------------------
(* The wallets (RpcClient). *)

Steps == {"idle", "queued", "bare", "challenged", "authorized", "performing", "done", "failed", "refused"}
Call == [step : Steps, previous : RpcCalls \cup {NoCall}]

WalletTypes ==
  /\ wallet \in [auth : {"basic", "digest"}, takes : {"ok", "otherPassword", "otherScheme", "noLogin"}]
  /\ digestTail \in RpcCalls \cup {NoCall} /\ challenge \in RpcCalls \cup {NoCall}
  /\ rpc \in [RpcCalls -> Call]
  /\ performed \in [RpcCalls -> Nat] /\ unread \subseteq RpcCalls /\ lost \subseteq RpcCalls

\* The calls q[1], ..., q[n] wait for each other in this order: those before
\* the k-th have ended and those behind it have not begun.
Lined(n, q, k) ==
  /\ \A i, j \in 1..n : q[i] = q[j] => i = j
  /\ \A c \in RpcCalls : rpc[c].step # "idle" => \E i \in 1..n : q[i] = c
  /\ \A i \in 1..n : rpc[q[i]].step # "idle"
  /\ digestTail = IF n = 0 THEN NoCall ELSE q[n]
  /\ \A i \in 1..n : i > 1 => rpc[q[i]].previous = q[i - 1]
  /\ \A i \in 1..n : /\ i < k => rpc[q[i]].step \in Wallet!Ended
                     /\ i > k => rpc[q[i]].step = "queued"

OneAtATime ==
  Wallet!Digest => \E n \in Nat : \E q \in [1..n -> RpcCalls], k \in 1..(n + 1) : Lined(n, q, k)

\* Without digest nobody waits or is challenged.
BasicSteps == ~Wallet!Digest => \A c \in RpcCalls : rpc[c].step \notin {"queued", "bare", "challenged"}

\* The wallet has performed what it says, and a request that is still on its
\* way has not been performed.
Performed ==
  \A c \in RpcCalls :
    /\ rpc[c].step \in {"performing", "done"} => performed[c] = 1
    /\ rpc[c].step \notin {"performing", "done", "failed"} => performed[c] = 0
    /\ performed[c] \in {0, 1}
    /\ c \in unread => rpc[c].step = "failed" /\ performed[c] = 0

\* A call that answers has the last challenge, or its connection was lost.
Answers ==
  wallet.takes = "ok" =>
    \A c \in RpcCalls :
      /\ Wallet!Digest /\ rpc[c].step \in {"challenged", "authorized"} => challenge = c \/ c \in lost
      /\ rpc[c].step = "refused" => c \in lost

WalletInv == WalletTypes /\ OneAtATime /\ BasicSteps /\ Performed /\ Answers

Active == {"bare", "challenged", "authorized", "performing"}

LEMMA WalletInit == Wallet!Init => WalletInv
  <1> SUFFICES ASSUME Wallet!Init PROVE WalletInv
    BY Zenon
  <1>1. \A c \in RpcCalls : rpc[c] = [step |-> "idle", previous |-> NoCall] /\ performed[c] = 0
    BY Zenon DEF Wallet!Init
  <1>2. WalletTypes
    BY Zenon DEF Wallet!Init, WalletTypes, Call, Steps
  <1>3. BasicSteps /\ Performed /\ Answers
    BY <1>1, Zenon DEF Wallet!Init, BasicSteps, Performed, Answers
  <1>4. OneAtATime
    <2> DEFINE q == [i \in 1..0 |-> NoCall]
    <2>1. q \in [1..0 -> RpcCalls] /\ 1 \in 1..(0 + 1) /\ 1..0 = {}
      OBVIOUS
    <2>2. Lined(0, q, 1)
      BY <1>1, <2>1, Zenon DEF Lined, Wallet!Init
    <2> QED  BY <2>1, <2>2, Zenon DEF OneAtATime
  <1> QED  BY <1>2, <1>3, <1>4, Zenon DEF WalletInv

\* Of the calls with digest one is on its way.
LEMMA OneActive ==
  ASSUME WalletInv, Wallet!Digest, NEW c \in RpcCalls, NEW d \in RpcCalls,
         rpc[c].step \in Active, rpc[d].step \in Active
  PROVE  c = d
  <1>0. PICK n \in Nat : \E q \in [1..n -> RpcCalls], k \in 1..(n + 1) : Lined(n, q, k)
    BY Zenon DEF WalletInv, OneAtATime
  <1>1. PICK q \in [1..n -> RpcCalls], k \in 1..(n + 1) : Lined(n, q, k)
    BY <1>0, Zenon
  <1>2. PICK i \in 1..n : q[i] = c
    BY <1>1, Zenon DEF Lined, Active
  <1>3. PICK j \in 1..n : q[j] = d
    BY <1>1, Zenon DEF Lined, Active
  <1>4. ASSUME NEW m \in 1..n, rpc[q[m]].step \in Active PROVE m = k
    <2>1. ~(m < k) /\ ~(m > k)
      BY <1>1, <1>4, Zenon DEF Lined, Active, Wallet!Ended
    <2> QED  BY <2>1
  <1>5. i = k /\ j = k
    BY <1>2, <1>3, <1>4, Zenon
  <1> QED  BY <1>2, <1>3, <1>5, Zenon

\* A call goes on to a step and the others stay where they are.
Goes(c, to) ==
  /\ rpc' \in [RpcCalls -> Call]
  /\ rpc'[c].step = to /\ rpc'[c].previous = rpc[c].previous
  /\ \A d \in RpcCalls : d # c => rpc'[d] = rpc[d]

LEMMA GotoGoes ==
  ASSUME WalletTypes, NEW c \in RpcCalls, NEW to \in Steps, Wallet!Goto(c, to)
  PROVE  Goes(c, to)
  BY Zenon DEF WalletTypes, Wallet!Goto, Goes, Call

\* The queue stays as it is when the call on its way goes on or ends.
LEMMA QueueStays ==
  ASSUME WalletInv, NEW c \in RpcCalls, rpc[c].step \in Active, NEW to \in Steps \ {"idle"}, Goes(c, to),
         UNCHANGED <<wallet, digestTail>>
  PROVE  OneAtATime'
  <1> SUFFICES ASSUME Wallet!Digest
               PROVE  \E n \in Nat : \E q \in [1..n -> RpcCalls], k \in 1..(n + 1) : Lined(n, q, k)'
    BY Zenon DEF OneAtATime, Wallet!Digest
  <1>0. PICK n \in Nat : \E q \in [1..n -> RpcCalls], k \in 1..(n + 1) : Lined(n, q, k)
    BY Zenon DEF WalletInv, OneAtATime
  <1>1. PICK q \in [1..n -> RpcCalls], k \in 1..(n + 1) : Lined(n, q, k)
    BY <1>0, Zenon
  <1>2. \A i \in 1..n : q[i] \in RpcCalls /\ (q[i] = c => i = k)
    BY <1>1 DEF Lined, Active, Wallet!Ended
  <1>3. /\ \A i \in 1..n : rpc'[q[i]].previous = rpc[q[i]].previous /\ rpc'[q[i]].step # "idle"
        /\ \A i \in 1..n : i # k => rpc'[q[i]].step = rpc[q[i]].step
    BY <1>1, <1>2, Zenon DEF Lined, Goes
  <1>4. \A d \in RpcCalls : rpc'[d].step # "idle" => \E i \in 1..n : q[i] = d
    BY <1>1, Zenon DEF Lined, Goes, Active
  <1>5. Lined(n, q, k)'
    BY <1>1, <1>3, <1>4 DEF Lined
  <1> QED  BY <1>5, Zenon

LEMMA CallKeeps == \A c \in RpcCalls : WalletInv /\ Wallet!Call(c) => WalletInv'
  <1> SUFFICES ASSUME NEW c \in RpcCalls, WalletInv, Wallet!Call(c) PROVE WalletInv'
    BY Zenon
  <1>0. WalletTypes /\ BasicSteps /\ Performed /\ Answers
    BY Zenon DEF WalletInv
  <1>1. rpc[c].step = "idle" /\ UNCHANGED <<wallet, challenge, performed, unread, lost, lostCount>>
    BY Zenon DEF Wallet!Call, Wallet!At
  <1>2. CASE Wallet!Digest
    <2>1. rpc' = [rpc EXCEPT ![c] = [step |-> "queued", previous |-> digestTail]] /\ digestTail' = c
      BY <1>2, Zenon DEF Wallet!Call
    <2>2. /\ rpc' \in [RpcCalls -> Call] /\ rpc'[c].step = "queued" /\ rpc'[c].previous = digestTail
          /\ \A d \in RpcCalls : d # c => rpc'[d] = rpc[d]
      BY <1>0, <2>1, Zenon DEF WalletTypes, Call, Steps
    <2>3. WalletTypes'
      BY <1>0, <1>1, <2>1, <2>2, Zenon DEF WalletTypes
    <2>4. BasicSteps' /\ Performed' /\ Answers'
      BY <1>0, <1>1, <1>2, <2>2, Zenon DEF BasicSteps, Performed, Answers, Wallet!Digest
    <2>5. OneAtATime'
      <3>0. PICK n \in Nat : \E q \in [1..n -> RpcCalls], k \in 1..(n + 1) : Lined(n, q, k)
        BY <1>2, Zenon DEF WalletInv, OneAtATime
      <3>1. PICK q \in [1..n -> RpcCalls], k \in 1..(n + 1) : Lined(n, q, k)
        BY <3>0, Zenon
      <3> DEFINE p == [i \in 1..(n + 1) |-> IF i = n + 1 THEN c ELSE q[i]]
      <3>2. p \in [1..(n + 1) -> RpcCalls] /\ p[n + 1] = c /\ (\A i \in 1..n : p[i] = q[i])
        OBVIOUS
      <3>3. \A i \in 1..n : q[i] \in RpcCalls /\ q[i] # c /\ rpc'[q[i]] = rpc[q[i]]
        BY <1>1, <2>2, <3>1 DEF Lined
      <3> HIDE DEF p
      <3>4. \A i, j \in 1..(n + 1) : p[i] = p[j] => i = j
        <4>1. \A i, j \in 1..n : q[i] = q[j] => i = j
          BY <3>1, Zenon DEF Lined
        <4>2. \A i \in 1..(n + 1) : i \in 1..n \/ i = n + 1
          OBVIOUS
        <4>3. \A i \in 1..n : p[i] # c
          BY <3>2, <3>3, Zenon
        <4> QED BY <3>2, <4>1, <4>2, <4>3, Zenon
      <3>5. /\ \A d \in RpcCalls : rpc'[d].step # "idle" => \E i \in 1..(n + 1) : p[i] = d
            /\ \A i \in 1..(n + 1) : rpc'[p[i]].step # "idle"
        BY <2>2, <3>1, <3>2, <3>3 DEF Lined
      <3>6. \A i \in 1..(n + 1) : i > 1 => rpc'[p[i]].previous = p[i - 1]
        BY <2>2, <3>1, <3>2, <3>3 DEF Lined
      <3>7. \A i \in 1..(n + 1) : /\ i < k => rpc'[p[i]].step \in Wallet!Ended
                                  /\ i > k => rpc'[p[i]].step = "queued"
        BY <2>2, <3>1, <3>2, <3>3 DEF Lined
      <3>8. Lined(n + 1, p, k)'
        BY <2>1, <3>2, <3>4, <3>5, <3>6, <3>7 DEF Lined
      <3>9. n + 1 \in Nat /\ k \in 1..((n + 1) + 1)
        OBVIOUS
      <3> QED  BY <3>2, <3>8, <3>9, Zenon DEF OneAtATime
    <2> QED  BY <2>3, <2>4, <2>5, Zenon DEF WalletInv
  <1>3. CASE ~Wallet!Digest
    <2>1. Wallet!Goto(c, "authorized") /\ digestTail' = digestTail
      BY <1>3, Zenon DEF Wallet!Call
    <2>2. Goes(c, "authorized")
      BY <1>0, <2>1, GotoGoes, Zenon DEF Steps
    <2>3. WalletTypes'
      BY <1>0, <1>1, <2>1, <2>2, Zenon DEF WalletTypes, Goes
    <2>4. BasicSteps' /\ Performed' /\ Answers' /\ OneAtATime'
      BY <1>0, <1>1, <1>3, <2>2, Zenon DEF BasicSteps, Performed, Answers, OneAtATime, Wallet!Digest, Goes
    <2> QED  BY <2>3, <2>4, Zenon DEF WalletInv
  <1> QED  BY <1>2, <1>3, Zenon

LEMMA SendKeeps == \A c \in RpcCalls : WalletInv /\ Wallet!Send(c) => WalletInv'
  <1> SUFFICES ASSUME NEW c \in RpcCalls, WalletInv, Wallet!Send(c) PROVE WalletInv'
    BY Zenon
  <1>0. WalletTypes /\ BasicSteps /\ Performed /\ Answers
    BY Zenon DEF WalletInv
  <1>1. /\ rpc[c].step = "queued" /\ Wallet!Turn(c) /\ Wallet!Goto(c, "bare")
        /\ UNCHANGED <<wallet, digestTail, challenge, performed, unread, lost, lostCount>>
    BY Zenon DEF Wallet!Send, Wallet!At
  <1>2. Goes(c, "bare")
    BY <1>0, <1>1, GotoGoes, Zenon DEF Steps
  <1>3. WalletTypes'
    BY <1>0, <1>1, <1>2, Zenon DEF WalletTypes, Goes
  <1>4. Wallet!Digest
    BY <1>0, <1>1, Zenon DEF BasicSteps
  <1>5. Performed' /\ Answers' /\ BasicSteps'
    BY <1>0, <1>1, <1>2, <1>4, Zenon DEF Performed, Answers, BasicSteps, Wallet!Digest, Goes
  <1>6. OneAtATime'
    <2>0. PICK n \in Nat : \E q \in [1..n -> RpcCalls], k \in 1..(n + 1) : Lined(n, q, k)
      BY <1>4, Zenon DEF WalletInv, OneAtATime
    <2>1. PICK q \in [1..n -> RpcCalls], k \in 1..(n + 1) : Lined(n, q, k)
      BY <2>0, Zenon
    <2>2. PICK m \in 1..n : q[m] = c
      BY <1>1, <2>1, Zenon DEF Lined
    <2>3. m > 1 => q[m - 1] \in RpcCalls /\ rpc[q[m - 1]].step \in Wallet!Ended
      <3> SUFFICES ASSUME m > 1 PROVE q[m - 1] \in RpcCalls /\ rpc[q[m - 1]].step \in Wallet!Ended
        BY Zenon
      <3>1. m - 1 \in 1..n /\ rpc[c].previous = q[m - 1]
        BY <2>1, <2>2 DEF Lined
      <3> QED  BY <1>1, <3>1, Zenon DEF Wallet!Turn, Wallet!Released
    <2>4. m = k \/ m = k + 1
      <3>1. ~(m < k)
        BY <1>1, <2>1, <2>2, Zenon DEF Lined, Wallet!Ended
      <3>2. ~(m - 1 > k)
        <4> SUFFICES ASSUME m - 1 > k PROVE FALSE
          BY Zenon
        <4>1. m > 1 /\ m - 1 \in 1..n
          OBVIOUS
        <4>2. rpc[q[m - 1]].step = "queued"
          BY <2>1, <4>1, Zenon DEF Lined
        <4> QED  BY <2>3, <4>1, <4>2, Zenon DEF Wallet!Ended
      <3> QED  BY <3>1, <3>2
    <2>5. \A i \in 1..n : /\ i < m => rpc[q[i]].step \in Wallet!Ended
                          /\ i > m => rpc[q[i]].step = "queued"
      <3> TAKE i \in 1..n
      <3>1. (i < m => i < k \/ i = m - 1) /\ (i > m => i > k)
        BY <2>4
      <3> QED  BY <2>1, <2>3, <3>1 DEF Lined
    <2>6. \A i \in 1..n : q[i] \in RpcCalls /\ (i # m => q[i] # c)
      BY <2>1, <2>2, Zenon DEF Lined
    <2>7. /\ \A i \in 1..n : rpc'[q[i]].previous = rpc[q[i]].previous /\ rpc'[q[i]].step # "idle"
          /\ \A i \in 1..n : i # m => rpc'[q[i]].step = rpc[q[i]].step
      BY <1>2, <2>1, <2>6, Zenon DEF Lined, Goes
    <2>8. \A d \in RpcCalls : rpc'[d].step # "idle" => \E i \in 1..n : q[i] = d
      BY <1>1, <1>2, <2>1, Zenon DEF Lined, Goes
    <2>9. Lined(n, q, m)'
      <3>2. \A i \in 1..n : /\ i < m => rpc'[q[i]].step \in Wallet!Ended
                            /\ i > m => rpc'[q[i]].step = "queued"
        BY <2>5, <2>7
      <3>3. digestTail' = digestTail
        BY <1>1, Zenon
      <3> QED  BY <2>1, <2>7, <2>8, <3>2, <3>3, Zenon DEF Lined
    <2>10. m \in 1..(n + 1)
      OBVIOUS
    <2> QED  BY <2>9, <2>10, Zenon DEF OneAtATime
  <1> QED  BY <1>3, <1>5, <1>6, Zenon DEF WalletInv

\* A call on its way goes on; what is left to show is what this does to counts,
\* challenges and losses.
LEMMA ActiveKeeps ==
  ASSUME WalletInv, NEW c \in RpcCalls, rpc[c].step \in Active,
         NEW to \in {"challenged", "authorized", "performing", "done", "failed", "refused"},
         Wallet!Goto(c, to), to = "challenged" => Wallet!Digest,
         challenge' \in RpcCalls \cup {NoCall}, unread' \subseteq RpcCalls, performed' \in [RpcCalls -> Nat],
         UNCHANGED <<wallet, digestTail, lost>>,
         Goes(c, to) => Performed' /\ Answers'
  PROVE  WalletInv'
  <1>0. WalletTypes /\ BasicSteps
    BY Zenon DEF WalletInv
  <1>1. Goes(c, to)
    BY <1>0, GotoGoes, Zenon DEF Steps
  <1>2. OneAtATime'
    BY <1>1, QueueStays, Zenon DEF Steps
  <1>3. WalletTypes' /\ BasicSteps'
    BY <1>0, <1>1, Zenon DEF WalletTypes, BasicSteps, Goes, Wallet!Digest
  <1> QED  BY <1>1, <1>2, <1>3, Zenon DEF WalletInv

LEMMA AnswerKeeps ==
  ASSUME WalletInv, NEW c \in RpcCalls,
         \/ Wallet!Challenged(c) \/ Wallet!SendAuthorized(c) \/ Wallet!Answered(c) \/ Wallet!Errored(c)
         \/ Wallet!GiveUp(c) \/ Wallet!Perform(c) \/ Wallet!Refuse(c)
  PROVE  WalletInv'
  <1>0. WalletTypes /\ BasicSteps /\ Performed /\ Answers
    BY Zenon DEF WalletInv
  <1> USE DEF Wallet!At, Wallet!Asking, Wallet!InFlight
  <1>1. rpc[c].step \in Active /\ UNCHANGED <<wallet, digestTail, lost>>
    BY Zenon DEF Wallet!Challenged, Wallet!SendAuthorized, Wallet!Answered, Wallet!Errored, Wallet!GiveUp,
           Wallet!Perform, Wallet!Refuse, Active
  \* Nobody else has the challenge.
  <1>2. \A d \in RpcCalls : d # c => ~(Wallet!Digest /\ rpc[d].step \in {"challenged", "authorized"})
    BY <1>1, OneActive, Zenon DEF Active
  <1>3. CASE Wallet!Challenged(c)
    <2>1. Wallet!Digest
      BY <1>0, <1>3, Zenon DEF Wallet!Challenged, BasicSteps
    <2>2. PICK to \in {"challenged", "refused"} :
            /\ Wallet!Goto(c, to) /\ (to = "refused" => wallet.takes # "ok")
            /\ rpc[c].step = "bare" /\ challenge' = c /\ UNCHANGED <<performed, unread>>
      BY <1>3, Zenon DEF Wallet!Challenged, Wallet!Answerable
    <2>3. Goes(c, to) => Performed' /\ Answers'
      BY <1>0, <1>1, <1>2, <2>2, Zenon DEF Goes, Performed, Answers, Wallet!Digest
    <2> QED  BY <1>0, <1>1, <2>1, <2>2, <2>3, ActiveKeeps, Zenon DEF WalletTypes
  <1>4. CASE Wallet!SendAuthorized(c)
    <2>1. Goes(c, "authorized") => Performed' /\ Answers'
      BY <1>0, <1>1, <1>4, Zenon DEF Wallet!SendAuthorized, Goes, Performed, Answers, Wallet!Digest
    <2> QED  BY <1>0, <1>1, <1>4, <2>1, ActiveKeeps, Zenon DEF Wallet!SendAuthorized, WalletTypes
  <1>5. CASE Wallet!Answered(c)
    <2>1. Goes(c, "done") => Performed' /\ Answers'
      BY <1>0, <1>1, <1>5, Zenon DEF Wallet!Answered, Goes, Performed, Answers, Wallet!Digest
    <2> QED  BY <1>0, <1>1, <1>5, <2>1, ActiveKeeps, Zenon DEF Wallet!Answered, WalletTypes
  <1>6. CASE Wallet!Errored(c)
    <2>1. Goes(c, "failed") => Performed' /\ Answers'
      BY <1>0, <1>1, <1>6, Zenon DEF Wallet!Errored, Goes, Performed, Answers, Wallet!Digest
    <2> QED  BY <1>0, <1>1, <1>6, <2>1, ActiveKeeps, Zenon DEF Wallet!Errored, WalletTypes
  <1>7. CASE Wallet!GiveUp(c)
    <2>1. /\ Wallet!Goto(c, "failed") /\ challenge' = NoCall /\ performed' = performed
          /\ unread' = unread \/ (unread' = unread \cup {c} /\ rpc[c].step \in {"bare", "authorized"})
      BY <1>7, Zenon DEF Wallet!GiveUp
    <2>2. Goes(c, "failed") => Performed'
      BY <1>0, <2>1, Zenon DEF Goes, Performed
    <2>3. Goes(c, "failed") => Answers'
      BY <1>0, <1>1, <1>2, <2>1, Zenon DEF Goes, Answers, Wallet!Digest
    <2> QED  BY <1>0, <1>1, <2>1, <2>2, <2>3, ActiveKeeps, Zenon DEF WalletTypes
  <1>8. CASE Wallet!Perform(c)
    <2>1. /\ Wallet!Goto(c, "performing") /\ performed' = [performed EXCEPT ![c] = @ + 1]
          /\ rpc[c].step \in {"bare", "authorized"} /\ UNCHANGED <<challenge, unread>>
      BY <1>8, Zenon DEF Wallet!Perform
    <2>2. /\ performed' \in [RpcCalls -> Nat] /\ performed'[c] = 1
          /\ \A d \in RpcCalls : d # c => performed'[d] = performed[d]
      BY <1>0, <2>1 DEF WalletTypes, Performed
    <2>3. Goes(c, "performing") => Performed'
      BY <1>0, <2>1, <2>2, Zenon DEF Goes, Performed
    <2>4. Goes(c, "performing") => Answers'
      BY <1>0, <1>1, <2>1, Zenon DEF Goes, Answers, Wallet!Digest
    <2> QED  BY <1>0, <1>1, <2>1, <2>2, <2>3, <2>4, ActiveKeeps, Zenon DEF WalletTypes
  <1>9. CASE Wallet!Refuse(c)
    <2>1. /\ Wallet!Goto(c, "refused") /\ challenge' = NoCall /\ UNCHANGED <<performed, unread>>
          /\ rpc[c].step = "authorized" /\ ~Wallet!Accepts(c)
      BY <1>9, Zenon DEF Wallet!Refuse
    <2>2. wallet.takes = "ok" => c \in lost
      BY <1>0, <2>1, Zenon DEF Wallet!Accepts, Answers
    <2>3. Goes(c, "refused") => Performed'
      BY <1>0, <2>1, Zenon DEF Goes, Performed
    <2>4. Goes(c, "refused") => Answers'
      BY <1>0, <1>1, <1>2, <2>1, <2>2, Zenon DEF Goes, Answers, Wallet!Digest
    <2> QED  BY <1>0, <1>1, <2>1, <2>3, <2>4, ActiveKeeps, Zenon DEF WalletTypes
  <1> QED  BY <1>3, <1>4, <1>5, <1>6, <1>7, <1>8, <1>9, Zenon

LEMMA LineKept == OneAtATime /\ UNCHANGED <<wallet, digestTail, rpc>> => OneAtATime'
  <1> SUFFICES ASSUME OneAtATime, UNCHANGED <<wallet, digestTail, rpc>>, Wallet!Digest
               PROVE  OneAtATime'
    BY Zenon DEF OneAtATime, Wallet!Digest
  <1>1. PICK n \in Nat : \E q \in [1..n -> RpcCalls], k \in 1..(n + 1) : Lined(n, q, k)
    BY Zenon DEF OneAtATime
  <1>2. PICK q \in [1..n -> RpcCalls], k \in 1..(n + 1) : Lined(n, q, k)
    BY <1>1, Zenon
  <1>3. Lined(n, q, k)'
    BY <1>2, Zenon DEF Lined
  <1> QED  BY <1>3, Zenon DEF OneAtATime

LEMMA WalletStep == WalletInv /\ [Wallet!Next]_walletVars => WalletInv'
  <1> SUFFICES ASSUME WalletInv, [Wallet!Next]_walletVars PROVE WalletInv'
    BY Zenon
  <1>0. WalletTypes /\ OneAtATime /\ BasicSteps /\ Performed /\ Answers
    BY Zenon DEF WalletInv
  <1>1. ASSUME NEW c \in RpcCalls, Wallet!Call(c) \/ Wallet!CallStep(c) PROVE WalletInv'
    BY <1>1, CallKeeps, SendKeeps, AnswerKeeps, Zenon DEF Wallet!CallStep
  <1>2. ASSUME NEW c \in RpcCalls, Wallet!PerformLate(c) PROVE WalletInv'
    <2>1. /\ unread' = unread \ {c} /\ c \in unread /\ UNCHANGED <<wallet, digestTail, rpc, challenge, lost>>
          /\ performed' \in {performed, [performed EXCEPT ![c] = @ + 1]}
      BY <1>2, Zenon DEF Wallet!PerformLate
    <2>2. rpc[c].step = "failed" /\ performed[c] = 0
      BY <1>0, <2>1, Zenon DEF Performed
    <2>3. /\ performed' \in [RpcCalls -> Nat] /\ performed'[c] \in {0, 1}
          /\ \A d \in RpcCalls : d # c => performed'[d] = performed[d]
      BY <1>0, <2>1, <2>2 DEF WalletTypes
    <2>4. Performed'
      BY <1>0, <2>1, <2>2, <2>3, Zenon DEF Performed
    <2>5. WalletTypes' /\ BasicSteps' /\ Answers'
      BY <1>0, <2>1, <2>3, Zenon DEF WalletTypes, BasicSteps, Answers, Wallet!Digest
    <2>6. OneAtATime'
      BY <1>0, <2>1, LineKept, Zenon
    <2> QED  BY <2>4, <2>5, <2>6, Zenon DEF WalletInv
  <1>3. CASE Wallet!CloseIdle
    <2>1. /\ UNCHANGED <<wallet, digestTail, rpc, performed, unread>> /\ challenge' = NoCall
          /\ lost' = lost \cup {c \in RpcCalls : rpc[c].step = "challenged"}
          /\ \A c \in RpcCalls : rpc[c].step # "authorized"
      BY <1>3, Zenon DEF Wallet!CloseIdle, Wallet!At, Wallet!InFlight, Wallet!Asking
    <2>2. WalletTypes' /\ BasicSteps' /\ Performed' /\ Answers'
      BY <1>0, <2>1, Zenon DEF WalletTypes, BasicSteps, Performed, Answers, Wallet!Digest
    <2>3. OneAtATime'
      BY <1>0, <2>1, LineKept, Zenon
    <2> QED  BY <2>2, <2>3, Zenon DEF WalletInv
  <1>4. CASE UNCHANGED walletVars
    <2>1. WalletTypes' /\ BasicSteps' /\ Performed' /\ Answers'
      BY <1>0, <1>4, Zenon DEF walletVars, WalletTypes, BasicSteps, Performed, Answers, Wallet!Digest
    <2>2. OneAtATime'
      BY <1>0, <1>4, LineKept, Zenon DEF walletVars
    <2> QED  BY <2>1, <2>2, Zenon DEF WalletInv
  <1> QED  BY <1>1, <1>2, <1>3, <1>4, Zenon DEF Wallet!Next

LEMMA WalletPart == UpstreamsSpec => Wallet!Init /\ [][Wallet!Next]_walletVars
  <1>1. UpstreamsInit => Wallet!Init
    BY Zenon DEF UpstreamsInit
  <1>2. [UpstreamsNext]_allVars => [Wallet!Next]_walletVars
    BY Zenon DEF UpstreamsNext, InEgress, InPools, InWallet, allVars
  <1> QED  BY <1>1, <1>2, PTL DEF UpstreamsSpec

\* What CallsEndOnce says of the calls that have ended, and that the calls that
\* use the one socket are never two.
EndedCallsAreSafe ==
  /\ \A c \in RpcCalls : Wallet!Released(c) => Wallet!EndedOnce(c)
  /\ Wallet!Digest => \A c, d \in RpcCalls : rpc[c].step \in Active /\ rpc[d].step \in Active => c = d

\* Whatever errors, time-outs and lost connections the calls of JsonRpcClient
\* meet, a call to the wallet that ended was performed once at most, and was
\* refused only for its password or its own lost connection: under digest the
\* calls are on the socket one at a time, so that none takes another's challenge.
THEOREM CallsEndRightly == UpstreamsSpec => []EndedCallsAreSafe
  <1>1. WalletInv => EndedCallsAreSafe
    <2> SUFFICES ASSUME WalletInv PROVE EndedCallsAreSafe
      BY Zenon
    <2>1. \A c \in RpcCalls : Wallet!Released(c) => Wallet!EndedOnce(c)
      BY DEF WalletInv, WalletTypes, Performed, Answers, Wallet!Released, Wallet!Ended, Wallet!EndedOnce, Wallet!At
    <2>2. Wallet!Digest => \A c, d \in RpcCalls : rpc[c].step \in Active /\ rpc[d].step \in Active => c = d
      BY OneActive, Zenon
    <2> QED  BY <2>1, <2>2, Zenon DEF EndedCallsAreSafe
  <1> QED  BY <1>1, WalletPart, WalletInit, WalletStep, PTL
=============================================================================
