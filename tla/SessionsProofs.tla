--------------------------- MODULE SessionsProofs ---------------------------
(***************************************************************************)
(* The safety properties of Sessions, for any number of request threads,   *)
(* session ids and ports.  IInv joins what the invariants say with what    *)
(* the locals of each request tell of its port and its session; one lemma  *)
(* for each action shows that the action preserves it.  From it follow     *)
(* what a request announces, and that Sessions implements PortPool.        *)
(***************************************************************************)
EXTENDS Sessions, SequenceTheorems, TLAPS

LEMMA AppendFresh ==
  ASSUME NEW S, NEW s \in Seq(S), NEW e \in S, IsInjective(s), ~Contains(s, e)
  PROVE  /\ Append(s, e) \in Seq(S)
         /\ IsInjective(Append(s, e))
         /\ \A x : Contains(Append(s, e), x) <=> Contains(s, x) \/ x = e
  BY DEF IsInjective, Contains

LEMMA PopLast ==
  ASSUME NEW S, NEW s \in Seq(S), IsInjective(s), s # << >>
  PROVE  /\ Last(s) \in S
         /\ Contains(s, Last(s))
         /\ Front(s) \in Seq(S)
         /\ IsInjective(Front(s))
         /\ \A x : Contains(Front(s), x) <=> Contains(s, x) /\ x # Last(s)
  BY DEF IsInjective, Contains, Last, Front

LEMMA RemoveOnly ==
  ASSUME NEW S, NEW s \in Seq(S), NEW e, IsInjective(s), Contains(s, e)
  PROVE  /\ RemoveFirst(s, e) \in Seq(S)
         /\ IsInjective(RemoveFirst(s, e))
         /\ \A x : Contains(RemoveFirst(s, e), x) <=> Contains(s, x) /\ x # e
<1>1. PICK i \in 1 .. Len(s) : s[i] = e
  BY DEF Contains
<1>2. {j \in 1 .. Len(s) : s[j] = e} = {i}
  BY <1>1 DEF IsInjective
<1>3. Min({i}) = i
  BY DEF Min
<1>4. RemoveFirst(s, e) = RemoveAt(s, i)
  BY <1>1, <1>2, <1>3 DEF RemoveFirst, SelectInSeq
<1> DEFINE u == SubSeq(s, 1, i - 1)
           v == SubSeq(s, i + 1, Len(s))
<1>a. /\ u \in Seq(S)
      /\ Len(u) = i - 1
      /\ \A j \in 1 .. i - 1 : u[j] = s[j]
  OBVIOUS
<1>b. /\ v \in Seq(S)
      /\ Len(v) = Len(s) - i
      /\ \A j \in 1 .. Len(s) - i : v[j] = s[i + j]
  OBVIOUS
<1>5. PICK r \in Seq(S) :
        /\ r = RemoveAt(s, i)
        /\ Len(r) = Len(s) - 1
        /\ \A j \in 1 .. Len(s) - 1 : r[j] = IF j < i THEN s[j] ELSE s[j + 1]
  <2> HIDE DEF u, v
  <2> DEFINE w == u \o v
  <2>1. /\ w \in Seq(S)
        /\ Len(w) = Len(s) - 1
    BY <1>a, <1>b
  <2>2. ASSUME NEW j \in 1 .. Len(s) - 1
        PROVE  w[j] = IF j < i THEN s[j] ELSE s[j + 1]
    <3>1. CASE j < i
      BY <3>1, <1>a, <1>b
    <3>2. CASE ~(j < i)
      <4>1. w[j] = v[j - (i - 1)]
        BY <3>2, <1>a, <1>b
      <4>2. v[j - (i - 1)] = s[i + (j - (i - 1))]
        BY <3>2, <1>b
      <4> QED
        BY <3>2, <4>1, <4>2
    <3> HIDE DEF w
    <3> QED
      BY <3>1, <3>2
  <2>3. w = RemoveAt(s, i)
    BY DEF RemoveAt, u, v
  <2> QED
    BY <2>1, <2>2, <2>3
<1>6. IsInjective(r)
  <2>1. SUFFICES ASSUME NEW j \in 1 .. Len(r), NEW k \in 1 .. Len(r), r[j] = r[k]
                 PROVE  j = k
    BY DEF IsInjective
  <2> DEFINE At(n) == IF n < i THEN n ELSE n + 1
  <2>2. /\ At(j) \in 1 .. Len(s) /\ r[j] = s[At(j)]
        /\ At(k) \in 1 .. Len(s) /\ r[k] = s[At(k)]
    BY <1>5
  <2>3. \A m, n \in 1 .. Len(s) : s[m] = s[n] => m = n
    BY DEF IsInjective
  <2>4. At(j) = At(k)
    <3> HIDE DEF At
    <3>1. s[At(j)] = s[At(k)]
      BY <2>1, <2>2
    <3> QED
      BY <3>1, <2>2, <2>3
  <2> QED
    BY <2>4
<1>7. ASSUME NEW x
      PROVE  Contains(r, x) <=> Contains(s, x) /\ x # e
  <2>1. ASSUME NEW j \in 1 .. Len(s), s[j] = x, x # e
        PROVE  Contains(r, x)
    <3>1. CASE j < i
      BY <3>1, <2>1, <1>5 DEF Contains
    <3>2. CASE j > i
      <4>1. j - 1 \in 1 .. Len(s) - 1 /\ r[j - 1] = s[j]
        BY <3>2, <1>5
      <4> QED
        BY <4>1, <2>1, <1>5 DEF Contains
    <3> QED
      BY <3>1, <3>2, <2>1, <1>1
  <2>2. ASSUME NEW j \in 1 .. Len(r), r[j] = x
        PROVE  Contains(s, x) /\ x # e
    <3>1. PICK k \in 1 .. Len(s) : k # i /\ s[k] = x
      <4>1. CASE j < i
        BY <4>1, <2>2, <1>5
      <4>2. CASE ~(j < i)
        BY <4>2, <2>2, <1>5
      <4> QED
        BY <4>1, <4>2
    <3>2. x # e
      BY <3>1, <1>1 DEF IsInjective
    <3> QED
      BY <3>1, <3>2 DEF Contains
  <2> QED
    BY <2>1, <2>2 DEF Contains
<1> QED
  BY <1>4, <1>5, <1>6, <1>7
-----------------------------------------------------------------------------
(* The inductive invariant *)

(* The part of a request that works on a session directory. *)
OwnsSid(t) ==
  pc[t] \in {"bind", "launch", "used", "register", "close", "instances"}

LocalsInv ==
  \A t \in Handlers :
    /\ HoldsPort(t) => hport[t] \in Ports
    /\ OwnsSid(t) => hsid[t] \in Sids

SidsInv ==
  \A t \in Handlers : OwnsSid(t) =>
    /\ dirs[hsid[t]] = "present"
    /\ sessions[hsid[t]] = NoPort
    /\ \A u \in Handlers : OwnsSid(u) /\ hsid[u] = hsid[t] => u = t

BoundInv ==
  /\ \A t \in Handlers :
       /\ pc[t] \in {"launch", "used", "register", "close"} => hport[t] \in bound
       /\ pc[t] \in {"instances", "unuse", "free"} => hport[t] \notin bound
  /\ \A p \in Ports : gdb[p] \in {"launch", "exited"} => p \notin bound

UsedInv ==
  /\ \A t \in Handlers :
       pc[t] \in {"factory", "bind", "launch", "used", "free"} =>
         ~Contains(usedports, hport[t])
  /\ \A p \in Ports : IsFree(p) \/ Debugs(p) => ~Contains(usedports, p)

IInv ==
  /\ TypeOK /\ LocalsInv /\ SidsInv
  /\ FreeAlone /\ RequestAlone /\ SessionAlone
  /\ FreeNotBound /\ BoundInv
  /\ UsedAccount /\ UsedInv
  /\ SessionLive

LEMMA StartPopStep ==
  ASSUME IInv, NEW t \in Handlers, StartPop(t)
  PROVE  IInv'
<1> USE DEF IInv, Goto, Finish, Fails, lists, kernel, locals, MayLinger
<1>0. NoPort \notin Ports
  BY PortRangeAssumption DEF Ports, NoPort
<1>a. PICK q \in Ports :
        /\ PopFreePort(q)
        /\ Goto(t, "idle", "factory")
        /\ hport' = [hport EXCEPT ![t] = q]
        /\ op' = [op EXCEPT ![t] = "start"]
        /\ UNCHANGED <<usedports, sessions, dirs, kernel, gdb, hsid, seen, moved, broadcast>>
  BY DEF StartPop
<1>b. /\ freeports' \in Seq(Ports) /\ IsInjective(freeports)'
      /\ IsFree(q)
      /\ \A x : IsFree(x)' <=> IsFree(x) /\ x # q
  BY <1>a, PopLast DEF PopFreePort, IsFree, TypeOK, FreeAlone
<1> USE DEF HoldsPort, OwnsSid, IsFree, IsHeld, Serves, Debugs, Registered
<1>1. TypeOK'
  BY <1>0, NoSidAssumption, <1>a, <1>b DEF TypeOK, LocalsInv
<1>2. LocalsInv' /\ SidsInv'
  BY <1>0, NoSidAssumption, <1>a, <1>b DEF TypeOK, LocalsInv, SidsInv
<1>3. FreeAlone' /\ RequestAlone' /\ SessionAlone'
  BY <1>0, NoSidAssumption, <1>a, <1>b DEF TypeOK, LocalsInv, FreeAlone, RequestAlone, SessionAlone, SidsInv
<1>4. FreeNotBound' /\ BoundInv' /\ SessionLive'
  BY <1>0, NoSidAssumption, <1>a, <1>b DEF TypeOK, LocalsInv, FreeAlone, FreeNotBound, BoundInv, RequestAlone, SessionAlone, SessionLive, SidsInv
<1>5. UsedAccount' /\ UsedInv'
  BY <1>0, NoSidAssumption, <1>a, <1>b DEF TypeOK, LocalsInv, RequestAlone, SessionAlone, UsedAccount, UsedInv, FreeAlone
<1> QED
  BY <1>1, <1>2, <1>3, <1>4, <1>5

LEMMA FactoryRejectStep ==
  ASSUME IInv, NEW t \in Handlers, FactoryReject(t)
  PROVE  IInv'
<1> USE DEF IInv, FactoryReject, Goto, Finish, Fails, lists, kernel, locals, MayLinger
<1>0. NoPort \notin Ports
  BY PortRangeAssumption DEF Ports, NoPort
<1> USE DEF HoldsPort, OwnsSid, IsFree, IsHeld, Serves, Debugs, Registered
<1>1. TypeOK'
  BY <1>0, NoSidAssumption DEF TypeOK, LocalsInv
<1>2. LocalsInv' /\ SidsInv'
  BY <1>0, NoSidAssumption DEF TypeOK, LocalsInv, SidsInv
<1>3. FreeAlone' /\ RequestAlone' /\ SessionAlone'
  BY <1>0, NoSidAssumption DEF TypeOK, LocalsInv, FreeAlone, RequestAlone, SessionAlone, SidsInv
<1>4. FreeNotBound' /\ BoundInv' /\ SessionLive'
  BY <1>0, NoSidAssumption DEF TypeOK, LocalsInv, FreeAlone, FreeNotBound, BoundInv, RequestAlone, SessionAlone, SessionLive, SidsInv
<1>5. UsedAccount' /\ UsedInv'
  BY <1>0, NoSidAssumption DEF TypeOK, LocalsInv, RequestAlone, SessionAlone, UsedAccount, UsedInv, FreeAlone
<1> QED
  BY <1>1, <1>2, <1>3, <1>4, <1>5

LEMMA FactoryMakeDirsStep ==
  ASSUME IInv, NEW t \in Handlers, FactoryMakeDirs(t)
  PROVE  IInv'
<1> USE DEF IInv, Goto, Finish, Fails, lists, kernel, locals, MayLinger
<1>0. NoPort \notin Ports
  BY PortRangeAssumption DEF Ports, NoPort
<1>a. PICK s \in Sids :
        /\ dirs[s] = "none"
        /\ Goto(t, "factory", "bind")
        /\ dirs' = [dirs EXCEPT ![s] = "present"]
        /\ hsid' = [hsid EXCEPT ![t] = s]
        /\ UNCHANGED <<lists, sessions, kernel, gdb, op, hport, seen, moved, broadcast>>
  BY DEF FactoryMakeDirs
<1> USE DEF HoldsPort, OwnsSid, IsFree, IsHeld, Serves, Debugs, Registered
<1>1. TypeOK'
  BY <1>0, NoSidAssumption, <1>a DEF TypeOK, LocalsInv
<1>2. LocalsInv'
  BY <1>0, NoSidAssumption, <1>a DEF TypeOK, LocalsInv
<1>3. SidsInv'
  <2>1. OwnsSid(t)' /\ hsid'[t] = s /\ dirs'[s] = "present" /\ sessions'[s] = NoPort
    BY <1>0, <1>a DEF TypeOK, SessionLive
  <2>2. ASSUME NEW u \in Handlers, u # t, OwnsSid(u)'
        PROVE  /\ OwnsSid(u) /\ hsid'[u] = hsid[u] /\ hsid[u] \in Sids /\ hsid[u] # s
               /\ dirs'[hsid[u]] = "present" /\ sessions'[hsid[u]] = NoPort
    BY <1>0, <1>a, <2>2 DEF TypeOK, LocalsInv, SidsInv
  <2> QED
    BY <2>1, <2>2, <1>a DEF SidsInv
<1>4. FreeAlone' /\ RequestAlone' /\ SessionAlone'
  BY <1>0, NoSidAssumption, <1>a DEF TypeOK, LocalsInv, FreeAlone, RequestAlone, SessionAlone, SidsInv
<1>5. FreeNotBound' /\ BoundInv' /\ SessionLive'
  BY <1>0, NoSidAssumption, <1>a DEF TypeOK, LocalsInv, FreeAlone, FreeNotBound, BoundInv, RequestAlone, SessionAlone, SessionLive, SidsInv
<1>6. UsedAccount' /\ UsedInv'
  BY <1>0, NoSidAssumption, <1>a DEF TypeOK, LocalsInv, RequestAlone, SessionAlone, UsedAccount, UsedInv, FreeAlone
<1> QED
  BY <1>1, <1>2, <1>3, <1>4, <1>5, <1>6

LEMMA StartServerStep ==
  ASSUME IInv, NEW t \in Handlers, StartServer(t)
  PROVE  IInv'
<1> USE DEF IInv, StartServer, Goto, Finish, Fails, lists, kernel, locals, MayLinger
<1>0. NoPort \notin Ports
  BY PortRangeAssumption DEF Ports, NoPort
<1> USE DEF HoldsPort, OwnsSid, IsFree, IsHeld, Serves, Debugs, Registered
<1>1. TypeOK'
  BY <1>0, NoSidAssumption DEF TypeOK, LocalsInv
<1>2. LocalsInv' /\ SidsInv'
  BY <1>0, NoSidAssumption DEF TypeOK, LocalsInv, SidsInv
<1>3. FreeAlone' /\ RequestAlone' /\ SessionAlone'
  BY <1>0, NoSidAssumption DEF TypeOK, LocalsInv, FreeAlone, RequestAlone, SessionAlone, SidsInv
<1>4. FreeNotBound' /\ BoundInv' /\ SessionLive'
  BY <1>0, NoSidAssumption DEF TypeOK, LocalsInv, FreeAlone, FreeNotBound, BoundInv, RequestAlone, SessionAlone, SessionLive, SidsInv
<1>5. UsedAccount' /\ UsedInv'
  BY <1>0, NoSidAssumption DEF TypeOK, LocalsInv, RequestAlone, SessionAlone, UsedAccount, UsedInv, FreeAlone
<1> QED
  BY <1>1, <1>2, <1>3, <1>4, <1>5

LEMMA BindRefusedStep ==
  ASSUME IInv, NEW t \in Handlers, BindRefused(t)
  PROVE  IInv'
<1> USE DEF IInv, BindRefused, Goto, Finish, Fails, lists, kernel, locals, MayLinger
<1>0. NoPort \notin Ports
  BY PortRangeAssumption DEF Ports, NoPort
<1> USE DEF HoldsPort, OwnsSid, IsFree, IsHeld, Serves, Debugs, Registered
<1>1. TypeOK'
  BY <1>0, NoSidAssumption DEF TypeOK, LocalsInv
<1>2. LocalsInv' /\ SidsInv'
  BY <1>0, NoSidAssumption DEF TypeOK, LocalsInv, SidsInv
<1>3. FreeAlone' /\ RequestAlone' /\ SessionAlone'
  BY <1>0, NoSidAssumption DEF TypeOK, LocalsInv, FreeAlone, RequestAlone, SessionAlone, SidsInv
<1>4. FreeNotBound' /\ BoundInv' /\ SessionLive'
  BY <1>0, NoSidAssumption DEF TypeOK, LocalsInv, FreeAlone, FreeNotBound, BoundInv, RequestAlone, SessionAlone, SessionLive, SidsInv
<1>5. UsedAccount' /\ UsedInv'
  BY <1>0, NoSidAssumption DEF TypeOK, LocalsInv, RequestAlone, SessionAlone, UsedAccount, UsedInv, FreeAlone
<1> QED
  BY <1>1, <1>2, <1>3, <1>4, <1>5

LEMMA LaunchStep ==
  ASSUME IInv, NEW t \in Handlers, Launch(t)
  PROVE  IInv'
<1> USE DEF IInv, Launch, Goto, Finish, Fails, lists, kernel, locals, MayLinger
<1>0. NoPort \notin Ports
  BY PortRangeAssumption DEF Ports, NoPort
<1> USE DEF HoldsPort, OwnsSid, IsFree, IsHeld, Serves, Debugs, Registered
<1>1. TypeOK'
  BY <1>0, NoSidAssumption DEF TypeOK, LocalsInv
<1>2. LocalsInv' /\ SidsInv'
  BY <1>0, NoSidAssumption DEF TypeOK, LocalsInv, SidsInv
<1>3. FreeAlone' /\ RequestAlone' /\ SessionAlone'
  BY <1>0, NoSidAssumption DEF TypeOK, LocalsInv, FreeAlone, RequestAlone, SessionAlone, SidsInv
<1>4. FreeNotBound' /\ BoundInv' /\ SessionLive'
  BY <1>0, NoSidAssumption DEF TypeOK, LocalsInv, FreeAlone, FreeNotBound, BoundInv, RequestAlone, SessionAlone, SessionLive, SidsInv
<1>5. UsedAccount' /\ UsedInv'
  BY <1>0, NoSidAssumption DEF TypeOK, LocalsInv, RequestAlone, SessionAlone, UsedAccount, UsedInv, FreeAlone
<1> QED
  BY <1>1, <1>2, <1>3, <1>4, <1>5

LEMMA LaunchRaisesStep ==
  ASSUME IInv, NEW t \in Handlers, LaunchRaises(t)
  PROVE  IInv'
<1> USE DEF IInv, LaunchRaises, Goto, Finish, Fails, lists, kernel, locals, MayLinger
<1>0. NoPort \notin Ports
  BY PortRangeAssumption DEF Ports, NoPort
<1> USE DEF HoldsPort, OwnsSid, IsFree, IsHeld, Serves, Debugs, Registered
<1>1. TypeOK'
  BY <1>0, NoSidAssumption DEF TypeOK, LocalsInv
<1>2. LocalsInv' /\ SidsInv'
  BY <1>0, NoSidAssumption DEF TypeOK, LocalsInv, SidsInv
<1>3. FreeAlone' /\ RequestAlone' /\ SessionAlone'
  BY <1>0, NoSidAssumption DEF TypeOK, LocalsInv, FreeAlone, RequestAlone, SessionAlone, SidsInv
<1>4. FreeNotBound' /\ BoundInv' /\ SessionLive'
  BY <1>0, NoSidAssumption DEF TypeOK, LocalsInv, FreeAlone, FreeNotBound, BoundInv, RequestAlone, SessionAlone, SessionLive, SidsInv
<1>5. UsedAccount' /\ UsedInv'
  BY <1>0, NoSidAssumption DEF TypeOK, LocalsInv, RequestAlone, SessionAlone, UsedAccount, UsedInv, FreeAlone
<1> QED
  BY <1>1, <1>2, <1>3, <1>4, <1>5

LEMMA MarkUsedStep ==
  ASSUME IInv, NEW t \in Handlers, MarkUsed(t)
  PROVE  IInv'
<1> USE DEF IInv, MarkUsed, Goto, Finish, Fails, lists, kernel, locals, MayLinger
<1>0. NoPort \notin Ports
  BY PortRangeAssumption DEF Ports, NoPort
<1>b. /\ usedports' \in Seq(Ports) /\ IsInjective(usedports)'
      /\ \A x : Contains(usedports', x) <=> Contains(usedports, x) \/ x = hport[t]
  BY AppendFresh DEF TypeOK, UsedAccount, UsedInv, LocalsInv, HoldsPort
<1> USE DEF HoldsPort, OwnsSid, IsFree, IsHeld, Serves, Debugs, Registered
<1>1. TypeOK'
  BY <1>0, NoSidAssumption, <1>b DEF TypeOK, LocalsInv
<1>2. LocalsInv' /\ SidsInv'
  BY <1>0, NoSidAssumption, <1>b DEF TypeOK, LocalsInv, SidsInv
<1>3. FreeAlone' /\ RequestAlone' /\ SessionAlone'
  BY <1>0, NoSidAssumption, <1>b DEF TypeOK, LocalsInv, FreeAlone, RequestAlone, SessionAlone, SidsInv
<1>4. FreeNotBound' /\ BoundInv' /\ SessionLive'
  BY <1>0, NoSidAssumption, <1>b DEF TypeOK, LocalsInv, FreeAlone, FreeNotBound, BoundInv, RequestAlone, SessionAlone, SessionLive, SidsInv
<1>5. UsedAccount' /\ UsedInv'
  BY <1>0, NoSidAssumption, <1>b DEF TypeOK, LocalsInv, RequestAlone, SessionAlone, UsedAccount, UsedInv, FreeAlone
<1> QED
  BY <1>1, <1>2, <1>3, <1>4, <1>5

LEMMA RegisterStep ==
  ASSUME IInv, NEW t \in Handlers, Register(t)
  PROVE  IInv'
<1> USE DEF IInv, Register, Goto, Finish, Fails, lists, kernel, locals, MayLinger
<1>0. NoPort \notin Ports
  BY PortRangeAssumption DEF Ports, NoPort
<1> USE DEF HoldsPort, OwnsSid, IsFree, IsHeld, Serves, Debugs, Registered
<1>1. TypeOK'
  BY <1>0, NoSidAssumption DEF TypeOK, LocalsInv, MovesKeys
<1>2. LocalsInv' /\ SidsInv'
  BY <1>0, NoSidAssumption DEF TypeOK, LocalsInv, SidsInv
<1>3. FreeAlone' /\ RequestAlone' /\ SessionAlone'
  BY <1>0, NoSidAssumption DEF TypeOK, LocalsInv, FreeAlone, RequestAlone, SessionAlone, SidsInv
<1>4. FreeNotBound' /\ BoundInv' /\ SessionLive'
  BY <1>0, NoSidAssumption DEF TypeOK, LocalsInv, FreeAlone, FreeNotBound, BoundInv, RequestAlone, SessionAlone, SessionLive, SidsInv
<1>5. UsedAccount' /\ UsedInv'
  BY <1>0, NoSidAssumption DEF TypeOK, LocalsInv, RequestAlone, SessionAlone, UsedAccount, UsedInv, FreeAlone
<1> QED
  BY <1>1, <1>2, <1>3, <1>4, <1>5

LEMMA StopPopStep ==
  ASSUME IInv, NEW t \in Handlers, StopPop(t)
  PROVE  IInv'
<1> USE DEF IInv, Goto, Finish, Fails, lists, kernel, locals, MayLinger
<1>0. NoPort \notin Ports
  BY PortRangeAssumption DEF Ports, NoPort
<1>a. PICK s \in Registered :
        /\ Goto(t, "idle", "close")
        /\ op' = [op EXCEPT ![t] = "stop"]
        /\ hport' = [hport EXCEPT ![t] = sessions[s]]
        /\ hsid' = [hsid EXCEPT ![t] = s]
        /\ sessions' = [sessions EXCEPT ![s] = NoPort]
        /\ MovesKeys
        /\ UNCHANGED <<lists, dirs, kernel, gdb, seen, broadcast>>
  BY DEF StopPop
<1> USE DEF HoldsPort, OwnsSid, IsFree, IsHeld, Serves, Debugs, Registered
<1>1. TypeOK'
  BY <1>0, NoSidAssumption, <1>a DEF TypeOK, LocalsInv, MovesKeys
<1>2. LocalsInv'
  BY <1>0, NoSidAssumption, <1>a DEF TypeOK, LocalsInv
<1>3. SidsInv'
  <2>1. OwnsSid(t)' /\ hsid'[t] = s /\ dirs'[s] = "present" /\ sessions'[s] = NoPort
    BY <1>0, <1>a DEF TypeOK, SessionLive
  <2>2. ASSUME NEW u \in Handlers, u # t, OwnsSid(u)'
        PROVE  /\ OwnsSid(u) /\ hsid'[u] = hsid[u] /\ hsid[u] \in Sids /\ hsid[u] # s
               /\ dirs'[hsid[u]] = "present" /\ sessions'[hsid[u]] = NoPort
    BY <1>0, <1>a, <2>2 DEF TypeOK, LocalsInv, SidsInv
  <2> QED
    BY <2>1, <2>2, <1>a DEF SidsInv
<1>4. FreeAlone' /\ RequestAlone' /\ SessionAlone'
  BY <1>0, NoSidAssumption, <1>a DEF TypeOK, LocalsInv, FreeAlone, RequestAlone, SessionAlone, SidsInv
<1>5. FreeNotBound' /\ BoundInv' /\ SessionLive'
  BY <1>0, NoSidAssumption, <1>a DEF TypeOK, LocalsInv, FreeAlone, FreeNotBound, BoundInv, RequestAlone, SessionAlone, SessionLive, SidsInv
<1>6. UsedAccount' /\ UsedInv'
  BY <1>0, NoSidAssumption, <1>a DEF TypeOK, LocalsInv, RequestAlone, SessionAlone, UsedAccount, UsedInv, FreeAlone
<1> QED
  BY <1>1, <1>2, <1>3, <1>4, <1>5, <1>6

LEMMA StopCloseStep ==
  ASSUME IInv, NEW t \in Handlers, StopClose(t)
  PROVE  IInv'
<1> USE DEF IInv, StopClose, Goto, Finish, Fails, lists, kernel, locals, MayLinger
<1>0. NoPort \notin Ports
  BY PortRangeAssumption DEF Ports, NoPort
<1> USE DEF HoldsPort, OwnsSid, IsFree, IsHeld, Serves, Debugs, Registered
<1>1. TypeOK'
  BY <1>0, NoSidAssumption DEF TypeOK, LocalsInv
<1>2. LocalsInv' /\ SidsInv'
  BY <1>0, NoSidAssumption DEF TypeOK, LocalsInv, SidsInv
<1>3. FreeAlone' /\ RequestAlone' /\ SessionAlone'
  BY <1>0, NoSidAssumption DEF TypeOK, LocalsInv, FreeAlone, RequestAlone, SessionAlone, SidsInv
<1>4. FreeNotBound' /\ BoundInv' /\ SessionLive'
  BY <1>0, NoSidAssumption DEF TypeOK, LocalsInv, FreeAlone, FreeNotBound, BoundInv, RequestAlone, SessionAlone, SessionLive, SidsInv
<1>5. UsedAccount' /\ UsedInv'
  BY <1>0, NoSidAssumption DEF TypeOK, LocalsInv, RequestAlone, SessionAlone, UsedAccount, UsedInv, FreeAlone
<1> QED
  BY <1>1, <1>2, <1>3, <1>4, <1>5

LEMMA StopInstancesStep ==
  ASSUME IInv, NEW t \in Handlers, StopInstances(t)
  PROVE  IInv'
<1> USE DEF IInv, StopInstances, Goto, Finish, Fails, lists, kernel, locals, MayLinger
<1>0. NoPort \notin Ports
  BY PortRangeAssumption DEF Ports, NoPort
<1> USE DEF HoldsPort, OwnsSid, IsFree, IsHeld, Serves, Debugs, Registered
<1>1. TypeOK'
  BY <1>0, NoSidAssumption DEF TypeOK, LocalsInv
<1>2. LocalsInv' /\ SidsInv'
  BY <1>0, NoSidAssumption DEF TypeOK, LocalsInv, SidsInv
<1>3. FreeAlone' /\ RequestAlone' /\ SessionAlone'
  BY <1>0, NoSidAssumption DEF TypeOK, LocalsInv, FreeAlone, RequestAlone, SessionAlone, SidsInv
<1>4. FreeNotBound' /\ BoundInv' /\ SessionLive'
  BY <1>0, NoSidAssumption DEF TypeOK, LocalsInv, FreeAlone, FreeNotBound, BoundInv, RequestAlone, SessionAlone, SessionLive, SidsInv
<1>5. UsedAccount' /\ UsedInv'
  BY <1>0, NoSidAssumption DEF TypeOK, LocalsInv, RequestAlone, SessionAlone, UsedAccount, UsedInv, FreeAlone
<1> QED
  BY <1>1, <1>2, <1>3, <1>4, <1>5

LEMMA StopRaisesStep ==
  ASSUME IInv, NEW t \in Handlers, StopRaises(t)
  PROVE  IInv'
<1> USE DEF IInv, StopRaises, Goto, Finish, Fails, lists, kernel, locals, MayLinger
<1>0. NoPort \notin Ports
  BY PortRangeAssumption DEF Ports, NoPort
<1> USE DEF HoldsPort, OwnsSid, IsFree, IsHeld, Serves, Debugs, Registered
<1>1. TypeOK'
  BY <1>0, NoSidAssumption DEF TypeOK, LocalsInv
<1>2. LocalsInv' /\ SidsInv'
  BY <1>0, NoSidAssumption DEF TypeOK, LocalsInv, SidsInv
<1>3. FreeAlone' /\ RequestAlone' /\ SessionAlone'
  BY <1>0, NoSidAssumption DEF TypeOK, LocalsInv, FreeAlone, RequestAlone, SessionAlone, SidsInv
<1>4. FreeNotBound' /\ BoundInv' /\ SessionLive'
  BY <1>0, NoSidAssumption DEF TypeOK, LocalsInv, FreeAlone, FreeNotBound, BoundInv, RequestAlone, SessionAlone, SessionLive, SidsInv
<1>5. UsedAccount' /\ UsedInv'
  BY <1>0, NoSidAssumption DEF TypeOK, LocalsInv, RequestAlone, SessionAlone, UsedAccount, UsedInv, FreeAlone
<1> QED
  BY <1>1, <1>2, <1>3, <1>4, <1>5

LEMMA StopUnuseStep ==
  ASSUME IInv, NEW t \in Handlers, StopUnuse(t)
  PROVE  IInv'
<1> USE DEF IInv, StopUnuse, Goto, Finish, Fails, lists, kernel, locals, MayLinger
<1>0. NoPort \notin Ports
  BY PortRangeAssumption DEF Ports, NoPort
<1>b. /\ usedports' \in Seq(Ports) /\ IsInjective(usedports)'
      /\ \A x : Contains(usedports', x) <=> Contains(usedports, x) /\ x # hport[t]
  BY RemoveOnly DEF TypeOK, UsedAccount
<1> USE DEF HoldsPort, OwnsSid, IsFree, IsHeld, Serves, Debugs, Registered
<1>1. TypeOK'
  BY <1>0, NoSidAssumption, <1>b DEF TypeOK, LocalsInv
<1>2. LocalsInv' /\ SidsInv'
  BY <1>0, NoSidAssumption, <1>b DEF TypeOK, LocalsInv, SidsInv
<1>3. FreeAlone' /\ RequestAlone' /\ SessionAlone'
  BY <1>0, NoSidAssumption, <1>b DEF TypeOK, LocalsInv, FreeAlone, RequestAlone, SessionAlone, SidsInv
<1>4. FreeNotBound' /\ BoundInv' /\ SessionLive'
  BY <1>0, NoSidAssumption, <1>b DEF TypeOK, LocalsInv, FreeAlone, FreeNotBound, BoundInv, RequestAlone, SessionAlone, SessionLive, SidsInv
<1>5. UsedAccount' /\ UsedInv'
  BY <1>0, NoSidAssumption, <1>b DEF TypeOK, LocalsInv, RequestAlone, SessionAlone, UsedAccount, UsedInv, FreeAlone
<1> QED
  BY <1>1, <1>2, <1>3, <1>4, <1>5

LEMMA StopFreeStep ==
  ASSUME IInv, NEW t \in Handlers, StopFree(t)
  PROVE  IInv'
<1> USE DEF IInv, StopFree, Goto, Finish, Fails, lists, kernel, locals, MayLinger
<1>0. NoPort \notin Ports
  BY PortRangeAssumption DEF Ports, NoPort
<1>b. /\ freeports' \in Seq(Ports) /\ IsInjective(freeports)'
      /\ \A x : IsFree(x)' <=> IsFree(x) \/ x = hport[t]
  BY AppendFresh DEF IsFree, TypeOK, FreeAlone, LocalsInv, IsHeld, HoldsPort, Debugs
<1> USE DEF HoldsPort, OwnsSid, IsFree, IsHeld, Serves, Debugs, Registered
<1>1. TypeOK'
  BY <1>0, NoSidAssumption, <1>b DEF TypeOK, LocalsInv
<1>2. LocalsInv' /\ SidsInv'
  BY <1>0, NoSidAssumption, <1>b DEF TypeOK, LocalsInv, SidsInv
<1>3. FreeAlone' /\ RequestAlone' /\ SessionAlone'
  BY <1>0, NoSidAssumption, <1>b DEF TypeOK, LocalsInv, FreeAlone, RequestAlone, SessionAlone, SidsInv
<1>4. FreeNotBound' /\ BoundInv' /\ SessionLive'
  BY <1>0, NoSidAssumption, <1>b DEF TypeOK, LocalsInv, FreeAlone, FreeNotBound, BoundInv, RequestAlone, SessionAlone, SessionLive, SidsInv
<1>5. UsedAccount' /\ UsedInv'
  BY <1>0, NoSidAssumption, <1>b DEF TypeOK, LocalsInv, RequestAlone, SessionAlone, UsedAccount, UsedInv, FreeAlone
<1> QED
  BY <1>1, <1>2, <1>3, <1>4, <1>5

LEMMA OnSessionsStep ==
  ASSUME IInv, NEW t \in Handlers, OnSessions(t)
  PROVE  IInv'
<1> USE DEF IInv, OnSessions, Goto, Finish, Fails, lists, kernel, locals, MayLinger
<1>0. NoPort \notin Ports
  BY PortRangeAssumption DEF Ports, NoPort
<1> USE DEF HoldsPort, OwnsSid, IsFree, IsHeld, Serves, Debugs, Registered
<1>1. TypeOK'
  BY <1>0, NoSidAssumption DEF TypeOK, LocalsInv
<1>2. LocalsInv' /\ SidsInv'
  BY <1>0, NoSidAssumption DEF TypeOK, LocalsInv, SidsInv
<1>3. FreeAlone' /\ RequestAlone' /\ SessionAlone'
  BY <1>0, NoSidAssumption DEF TypeOK, LocalsInv, FreeAlone, RequestAlone, SessionAlone, SidsInv
<1>4. FreeNotBound' /\ BoundInv' /\ SessionLive'
  BY <1>0, NoSidAssumption DEF TypeOK, LocalsInv, FreeAlone, FreeNotBound, BoundInv, RequestAlone, SessionAlone, SessionLive, SidsInv
<1>5. UsedAccount' /\ UsedInv'
  BY <1>0, NoSidAssumption DEF TypeOK, LocalsInv, RequestAlone, SessionAlone, UsedAccount, UsedInv, FreeAlone
<1> QED
  BY <1>1, <1>2, <1>3, <1>4, <1>5

LEMMA SummaryBeginStep ==
  ASSUME IInv, NEW t \in Handlers, SummaryBegin(t)
  PROVE  IInv'
<1> USE DEF IInv, SummaryBegin, Goto, Finish, Fails, lists, kernel, locals, MayLinger
<1>0. NoPort \notin Ports
  BY PortRangeAssumption DEF Ports, NoPort
<1> USE DEF HoldsPort, OwnsSid, IsFree, IsHeld, Serves, Debugs, Registered
<1>1. TypeOK'
  BY <1>0, NoSidAssumption DEF TypeOK, LocalsInv
<1>2. LocalsInv' /\ SidsInv'
  BY <1>0, NoSidAssumption DEF TypeOK, LocalsInv, SidsInv
<1>3. FreeAlone' /\ RequestAlone' /\ SessionAlone'
  BY <1>0, NoSidAssumption DEF TypeOK, LocalsInv, FreeAlone, RequestAlone, SessionAlone, SidsInv
<1>4. FreeNotBound' /\ BoundInv' /\ SessionLive'
  BY <1>0, NoSidAssumption DEF TypeOK, LocalsInv, FreeAlone, FreeNotBound, BoundInv, RequestAlone, SessionAlone, SessionLive, SidsInv
<1>5. UsedAccount' /\ UsedInv'
  BY <1>0, NoSidAssumption DEF TypeOK, LocalsInv, RequestAlone, SessionAlone, UsedAccount, UsedInv, FreeAlone
<1> QED
  BY <1>1, <1>2, <1>3, <1>4, <1>5

LEMMA SummaryEndStep ==
  ASSUME IInv, NEW t \in Handlers, SummaryEnd(t)
  PROVE  IInv'
<1> USE DEF IInv, SummaryEnd, Goto, Finish, Fails, lists, kernel, locals, MayLinger
<1>0. NoPort \notin Ports
  BY PortRangeAssumption DEF Ports, NoPort
<1> USE DEF HoldsPort, OwnsSid, IsFree, IsHeld, Serves, Debugs, Registered
<1>1. TypeOK'
  BY <1>0, NoSidAssumption DEF TypeOK, LocalsInv
<1>2. LocalsInv' /\ SidsInv'
  BY <1>0, NoSidAssumption DEF TypeOK, LocalsInv, SidsInv
<1>3. FreeAlone' /\ RequestAlone' /\ SessionAlone'
  BY <1>0, NoSidAssumption DEF TypeOK, LocalsInv, FreeAlone, RequestAlone, SessionAlone, SidsInv
<1>4. FreeNotBound' /\ BoundInv' /\ SessionLive'
  BY <1>0, NoSidAssumption DEF TypeOK, LocalsInv, FreeAlone, FreeNotBound, BoundInv, RequestAlone, SessionAlone, SessionLive, SidsInv
<1>5. UsedAccount' /\ UsedInv'
  BY <1>0, NoSidAssumption DEF TypeOK, LocalsInv, RequestAlone, SessionAlone, UsedAccount, UsedInv, FreeAlone
<1> QED
  BY <1>1, <1>2, <1>3, <1>4, <1>5

LEMMA SummaryRaisesStep ==
  ASSUME IInv, NEW t \in Handlers, SummaryRaises(t)
  PROVE  IInv'
<1> USE DEF IInv, SummaryRaises, Goto, Finish, Fails, lists, kernel, locals, MayLinger
<1>0. NoPort \notin Ports
  BY PortRangeAssumption DEF Ports, NoPort
<1> USE DEF HoldsPort, OwnsSid, IsFree, IsHeld, Serves, Debugs, Registered
<1>1. TypeOK'
  BY <1>0, NoSidAssumption DEF TypeOK, LocalsInv
<1>2. LocalsInv' /\ SidsInv'
  BY <1>0, NoSidAssumption DEF TypeOK, LocalsInv, SidsInv
<1>3. FreeAlone' /\ RequestAlone' /\ SessionAlone'
  BY <1>0, NoSidAssumption DEF TypeOK, LocalsInv, FreeAlone, RequestAlone, SessionAlone, SidsInv
<1>4. FreeNotBound' /\ BoundInv' /\ SessionLive'
  BY <1>0, NoSidAssumption DEF TypeOK, LocalsInv, FreeAlone, FreeNotBound, BoundInv, RequestAlone, SessionAlone, SessionLive, SidsInv
<1>5. UsedAccount' /\ UsedInv'
  BY <1>0, NoSidAssumption DEF TypeOK, LocalsInv, RequestAlone, SessionAlone, UsedAccount, UsedInv, FreeAlone
<1> QED
  BY <1>1, <1>2, <1>3, <1>4, <1>5

LEMMA EmitStep ==
  ASSUME IInv, NEW t \in Handlers, Emit(t)
  PROVE  IInv'
<1> USE DEF IInv, Emit, Goto, Finish, Fails, lists, kernel, locals, MayLinger
<1>0. NoPort \notin Ports
  BY PortRangeAssumption DEF Ports, NoPort
<1> USE DEF HoldsPort, OwnsSid, IsFree, IsHeld, Serves, Debugs, Registered
<1>1. TypeOK'
  BY <1>0, NoSidAssumption DEF TypeOK, LocalsInv
<1>2. LocalsInv' /\ SidsInv'
  BY <1>0, NoSidAssumption DEF TypeOK, LocalsInv, SidsInv
<1>3. FreeAlone' /\ RequestAlone' /\ SessionAlone'
  BY <1>0, NoSidAssumption DEF TypeOK, LocalsInv, FreeAlone, RequestAlone, SessionAlone, SidsInv
<1>4. FreeNotBound' /\ BoundInv' /\ SessionLive'
  BY <1>0, NoSidAssumption DEF TypeOK, LocalsInv, FreeAlone, FreeNotBound, BoundInv, RequestAlone, SessionAlone, SessionLive, SidsInv
<1>5. UsedAccount' /\ UsedInv'
  BY <1>0, NoSidAssumption DEF TypeOK, LocalsInv, RequestAlone, SessionAlone, UsedAccount, UsedInv, FreeAlone
<1> QED
  BY <1>1, <1>2, <1>3, <1>4, <1>5

LEMMA SessionGdbStep ==
  ASSUME IInv, NEW t \in Handlers, SessionGdb(t)
  PROVE  IInv'
<1> USE DEF IInv, Goto, Finish, Fails, lists, kernel, locals, MayLinger
<1>0. NoPort \notin Ports
  BY PortRangeAssumption DEF Ports, NoPort
<1>a. PICK q \in Ports :
        /\ PopFreePort(q)
        /\ gdb' = [gdb EXCEPT ![q] = "launch"]
        /\ UNCHANGED <<usedports, sessions, dirs, kernel, pc, locals, broadcast>>
  BY DEF SessionGdb
<1>b. /\ freeports' \in Seq(Ports) /\ IsInjective(freeports)'
      /\ IsFree(q)
      /\ \A x : IsFree(x)' <=> IsFree(x) /\ x # q
  BY <1>a, PopLast DEF PopFreePort, IsFree, TypeOK, FreeAlone
<1> USE DEF HoldsPort, OwnsSid, IsFree, IsHeld, Serves, Debugs, Registered
<1>1. TypeOK'
  BY <1>0, NoSidAssumption, <1>a, <1>b DEF TypeOK, LocalsInv
<1>2. LocalsInv' /\ SidsInv'
  BY <1>0, NoSidAssumption, <1>a, <1>b DEF TypeOK, LocalsInv, SidsInv
<1>3. FreeAlone' /\ RequestAlone' /\ SessionAlone'
  BY <1>0, NoSidAssumption, <1>a, <1>b DEF TypeOK, LocalsInv, FreeAlone, RequestAlone, SessionAlone, SidsInv
<1>4. FreeNotBound' /\ BoundInv' /\ SessionLive'
  BY <1>0, NoSidAssumption, <1>a, <1>b DEF TypeOK, LocalsInv, FreeAlone, FreeNotBound, BoundInv, RequestAlone, SessionAlone, SessionLive, SidsInv
<1>5. UsedAccount' /\ UsedInv'
  BY <1>0, NoSidAssumption, <1>a, <1>b DEF TypeOK, LocalsInv, RequestAlone, SessionAlone, UsedAccount, UsedInv, FreeAlone
<1> QED
  BY <1>1, <1>2, <1>3, <1>4, <1>5

LEMMA GdbListensStep ==
  ASSUME IInv, NEW p \in Ports, GdbListens(p)
  PROVE  IInv'
<1> USE DEF IInv, GdbListens, Goto, Finish, Fails, lists, kernel, locals, MayLinger
<1>0. NoPort \notin Ports
  BY PortRangeAssumption DEF Ports, NoPort
<1> USE DEF HoldsPort, OwnsSid, IsFree, IsHeld, Serves, Debugs, Registered
<1>1. TypeOK'
  BY <1>0, NoSidAssumption DEF TypeOK, LocalsInv
<1>2. LocalsInv' /\ SidsInv'
  BY <1>0, NoSidAssumption DEF TypeOK, LocalsInv, SidsInv
<1>3. FreeAlone' /\ RequestAlone' /\ SessionAlone'
  BY <1>0, NoSidAssumption DEF TypeOK, LocalsInv, FreeAlone, RequestAlone, SessionAlone, SidsInv
<1>4. FreeNotBound' /\ BoundInv' /\ SessionLive'
  BY <1>0, NoSidAssumption DEF TypeOK, LocalsInv, FreeAlone, FreeNotBound, BoundInv, RequestAlone, SessionAlone, SessionLive, SidsInv
<1>5. UsedAccount' /\ UsedInv'
  BY <1>0, NoSidAssumption DEF TypeOK, LocalsInv, RequestAlone, SessionAlone, UsedAccount, UsedInv, FreeAlone
<1> QED
  BY <1>1, <1>2, <1>3, <1>4, <1>5

LEMMA GdbFailsStep ==
  ASSUME IInv, NEW p \in Ports, GdbFails(p)
  PROVE  IInv'
<1> USE DEF IInv, GdbFails, Goto, Finish, Fails, lists, kernel, locals, MayLinger
<1>0. NoPort \notin Ports
  BY PortRangeAssumption DEF Ports, NoPort
<1> USE DEF HoldsPort, OwnsSid, IsFree, IsHeld, Serves, Debugs, Registered
<1>1. TypeOK'
  BY <1>0, NoSidAssumption DEF TypeOK, LocalsInv
<1>2. LocalsInv' /\ SidsInv'
  BY <1>0, NoSidAssumption DEF TypeOK, LocalsInv, SidsInv
<1>3. FreeAlone' /\ RequestAlone' /\ SessionAlone'
  BY <1>0, NoSidAssumption DEF TypeOK, LocalsInv, FreeAlone, RequestAlone, SessionAlone, SidsInv
<1>4. FreeNotBound' /\ BoundInv' /\ SessionLive'
  BY <1>0, NoSidAssumption DEF TypeOK, LocalsInv, FreeAlone, FreeNotBound, BoundInv, RequestAlone, SessionAlone, SessionLive, SidsInv
<1>5. UsedAccount' /\ UsedInv'
  BY <1>0, NoSidAssumption DEF TypeOK, LocalsInv, RequestAlone, SessionAlone, UsedAccount, UsedInv, FreeAlone
<1> QED
  BY <1>1, <1>2, <1>3, <1>4, <1>5

LEMMA GdbExitStep ==
  ASSUME IInv, NEW p \in Ports, GdbExit(p)
  PROVE  IInv'
<1> USE DEF IInv, GdbExit, Goto, Finish, Fails, lists, kernel, locals, MayLinger
<1>0. NoPort \notin Ports
  BY PortRangeAssumption DEF Ports, NoPort
<1> USE DEF HoldsPort, OwnsSid, IsFree, IsHeld, Serves, Debugs, Registered
<1>1. TypeOK'
  BY <1>0, NoSidAssumption DEF TypeOK, LocalsInv
<1>2. LocalsInv' /\ SidsInv'
  BY <1>0, NoSidAssumption DEF TypeOK, LocalsInv, SidsInv
<1>3. FreeAlone' /\ RequestAlone' /\ SessionAlone'
  BY <1>0, NoSidAssumption DEF TypeOK, LocalsInv, FreeAlone, RequestAlone, SessionAlone, SidsInv
<1>4. FreeNotBound' /\ BoundInv' /\ SessionLive'
  BY <1>0, NoSidAssumption DEF TypeOK, LocalsInv, FreeAlone, FreeNotBound, BoundInv, RequestAlone, SessionAlone, SessionLive, SidsInv
<1>5. UsedAccount' /\ UsedInv'
  BY <1>0, NoSidAssumption DEF TypeOK, LocalsInv, RequestAlone, SessionAlone, UsedAccount, UsedInv, FreeAlone
<1> QED
  BY <1>1, <1>2, <1>3, <1>4, <1>5

LEMMA GdbReturnStep ==
  ASSUME IInv, NEW p \in Ports, GdbReturn(p)
  PROVE  IInv'
<1> USE DEF IInv, GdbReturn, Goto, Finish, Fails, lists, kernel, locals, MayLinger
<1>0. NoPort \notin Ports
  BY PortRangeAssumption DEF Ports, NoPort
<1>b. /\ freeports' \in Seq(Ports) /\ IsInjective(freeports)'
      /\ \A x : IsFree(x)' <=> IsFree(x) \/ x = p
  BY AppendFresh DEF IsFree, TypeOK, FreeAlone, LocalsInv, IsHeld, HoldsPort, Debugs
<1> USE DEF HoldsPort, OwnsSid, IsFree, IsHeld, Serves, Debugs, Registered
<1>1. TypeOK'
  BY <1>0, NoSidAssumption, <1>b DEF TypeOK, LocalsInv
<1>2. LocalsInv' /\ SidsInv'
  BY <1>0, NoSidAssumption, <1>b DEF TypeOK, LocalsInv, SidsInv
<1>3. FreeAlone' /\ RequestAlone' /\ SessionAlone'
  BY <1>0, NoSidAssumption, <1>b DEF TypeOK, LocalsInv, FreeAlone, RequestAlone, SessionAlone, SidsInv
<1>4. FreeNotBound' /\ BoundInv' /\ SessionLive'
  BY <1>0, NoSidAssumption, <1>b DEF TypeOK, LocalsInv, FreeAlone, FreeNotBound, BoundInv, RequestAlone, SessionAlone, SessionLive, SidsInv
<1>5. UsedAccount' /\ UsedInv'
  BY <1>0, NoSidAssumption, <1>b DEF TypeOK, LocalsInv, RequestAlone, SessionAlone, UsedAccount, UsedInv, FreeAlone
<1> QED
  BY <1>1, <1>2, <1>3, <1>4, <1>5

LEMMA LingerExpireStep ==
  ASSUME IInv, NEW p \in Ports, LingerExpire(p)
  PROVE  IInv'
<1> USE DEF IInv, LingerExpire, Goto, Finish, Fails, lists, kernel, locals, MayLinger
<1>0. NoPort \notin Ports
  BY PortRangeAssumption DEF Ports, NoPort
<1> USE DEF HoldsPort, OwnsSid, IsFree, IsHeld, Serves, Debugs, Registered
<1>1. TypeOK'
  BY <1>0, NoSidAssumption DEF TypeOK, LocalsInv
<1>2. LocalsInv' /\ SidsInv'
  BY <1>0, NoSidAssumption DEF TypeOK, LocalsInv, SidsInv
<1>3. FreeAlone' /\ RequestAlone' /\ SessionAlone'
  BY <1>0, NoSidAssumption DEF TypeOK, LocalsInv, FreeAlone, RequestAlone, SessionAlone, SidsInv
<1>4. FreeNotBound' /\ BoundInv' /\ SessionLive'
  BY <1>0, NoSidAssumption DEF TypeOK, LocalsInv, FreeAlone, FreeNotBound, BoundInv, RequestAlone, SessionAlone, SessionLive, SidsInv
<1>5. UsedAccount' /\ UsedInv'
  BY <1>0, NoSidAssumption DEF TypeOK, LocalsInv, RequestAlone, SessionAlone, UsedAccount, UsedInv, FreeAlone
<1> QED
  BY <1>1, <1>2, <1>3, <1>4, <1>5

-----------------------------------------------------------------------------
LEMMA InitIInv == Init => IInv
<1> SUFFICES ASSUME Init PROVE IInv
  OBVIOUS
<1> USE DEF Init, Ports, NoPort
<1>1. TypeOK
  <2>1. freeports \in Seq(Ports)
    BY PortRangeAssumption
  <2> QED
    BY <2>1 DEF TypeOK
<1>2. IsInjective(freeports) /\ Registered = {}
  BY PortRangeAssumption DEF IsInjective, Registered
<1>3. \A x : ~Contains(usedports, x)
  BY DEF Contains
<1>4. IsInjective(usedports)
  BY DEF IsInjective
<1>5. LocalsInv /\ SidsInv /\ FreeAlone /\ RequestAlone /\ SessionAlone
  BY <1>2 DEF LocalsInv, SidsInv, FreeAlone, RequestAlone, SessionAlone,
    HoldsPort, OwnsSid, IsHeld, Serves, Debugs
<1>6. FreeNotBound /\ BoundInv /\ SessionLive
  BY <1>2 DEF FreeNotBound, BoundInv, SessionLive
<1>7. UsedAccount /\ UsedInv
  BY <1>2, <1>3, <1>4 DEF UsedAccount, UsedInv
<1> QED
  BY <1>1, <1>5, <1>6, <1>7 DEF IInv

LEMMA StutterStep ==
  ASSUME IInv, UNCHANGED vars
  PROVE  IInv'
BY DEF vars, IInv, TypeOK, LocalsInv, SidsInv, FreeAlone, RequestAlone,
  SessionAlone, FreeNotBound, BoundInv, UsedAccount, UsedInv, SessionLive,
  HoldsPort, OwnsSid, IsFree, IsHeld, Serves, Debugs, Registered

LEMMA NextIInv ==
  ASSUME IInv, [Next]_vars
  PROVE  IInv'
<1>1. ASSUME NEW t \in Handlers, SessionStart(t)
      PROVE  IInv'
  BY <1>1, StartPopStep, FactoryRejectStep, FactoryMakeDirsStep,
    StartServerStep, BindRefusedStep, LaunchStep, LaunchRaisesStep,
    MarkUsedStep, RegisterStep
    DEF SessionStart
<1>2. ASSUME NEW t \in Handlers, SessionStop(t)
      PROVE  IInv'
  BY <1>2, StopPopStep, StopCloseStep, StopInstancesStep, StopRaisesStep,
    StopUnuseStep, StopFreeStep
    DEF SessionStop
<1>3. ASSUME NEW t \in Handlers, UpdateSessions(t)
      PROVE  IInv'
  BY <1>3, OnSessionsStep, SummaryBeginStep, SummaryEndStep,
    SummaryRaisesStep, EmitStep
    DEF UpdateSessions
<1>4. ASSUME NEW p \in Ports, Gdb(p)
      PROVE  IInv'
  BY <1>4, GdbListensStep, GdbFailsStep, GdbExitStep, GdbReturnStep DEF Gdb
<1> QED
  BY <1>1, <1>2, <1>3, <1>4, SessionGdbStep, LingerExpireStep, StutterStep
    DEF Next

(* The inductive invariant holds in every state of every behaviour, for    *)
(* any number of requests, sessions and ports.                             *)
THEOREM Invariance == Spec => []IInv
<1>1. Init => IInv
  BY InitIInv
<1>2. IInv /\ [Next]_vars => IInv'
  BY NextIInv
<1> QED
  BY <1>1, <1>2, PTL DEF Spec

(* The globals and the locals of the requests of cgcserv/__main__.py keep  *)
(* their types.                                                            *)
THEOREM TypeCorrect == Spec => []TypeOK
BY Invariance, PTL DEF IInv

(* However many requests start, stop and debug sessions at the same time,  *)
(* no port of freeports ever has two owners.                               *)
THEOREM PortExclusion == Spec => []PortsExclusive
<1>1. IInv => PortsExclusive
  BY DEF IInv, PortsExclusive
<1> QED
  BY <1>1, Invariance, PTL

(* A port that freeports.pop() returns never has a listening socket.       *)
THEOREM FreePortsClosed == Spec => []FreeNotBound
BY Invariance, PTL DEF IInv

(* usedports.remove of a stop always finds its port.                       *)
THEOREM NoValueError == Spec => []UsedAccount
BY Invariance, PTL DEF IInv

(* A registered session accepts connections and has its directory.         *)
THEOREM RegisteredIsLive == Spec => []SessionLive
BY Invariance, PTL DEF IInv

-----------------------------------------------------------------------------
(* What a request broadcasts: update_sessions reads the table after the    *)
(* change of the request, and other requests change it meanwhile.          *)

(* The part of a start that has a session directory and is not registered. *)
Starting(t) == pc[t] \in {"bind", "launch", "used", "register"}

(* A request has a session of its own from __make_session_dirs, or from    *)
(* sessions.pop, to the end of its update_sessions.                        *)
HasSid(t) == op[t] \in {"start", "stop"} /\ pc[t] \notin {"idle", "factory"}

AnnounceInv ==
  \A t \in Handlers :
    /\ Starting(t) \/ pc[t] = "factory" => op[t] = "start"
    /\ pc[t] \in {"close", "instances", "unuse", "free"} => op[t] = "stop"
    /\ HasSid(t) =>
         /\ hsid[t] \in Sids /\ dirs[hsid[t]] # "none"
         /\ \A u \in Handlers \ {t} : Starting(u) => hsid[u] # hsid[t]
    /\ HasSid(t) /\ op[t] = "stop" =>
         /\ hsid[t] \notin Registered
         /\ pc[t] \in {"scan", "emit"} => hsid[t] \notin seen[t]
    /\ op[t] = "start" /\ pc[t] = "emit" /\ hsid[t] \in Registered /\ t \notin moved =>
         hsid[t] \in seen[t]

LEMMA AnnounceNext ==
  ASSUME IInv, AnnounceInv, [Next]_vars
  PROVE  AnnounceInv'
<1> USE DEF Goto, Finish, Fails, lists, kernel, locals, PopFreePort, Registered,
            HasSid, Starting, OwnsSid
<1>0. TypeOK /\ LocalsInv /\ SidsInv /\ SessionLive /\ NoPort \notin Ports
  BY PortRangeAssumption DEF IInv, Ports, NoPort
<1>1. ASSUME NEW t \in Handlers, StartPop(t) PROVE AnnounceInv'
  BY <1>0, <1>1 DEF TypeOK, LocalsInv, SidsInv, SessionLive, AnnounceInv, StartPop
<1>2. ASSUME NEW t \in Handlers, FactoryReject(t) PROVE AnnounceInv'
  BY <1>0, <1>2 DEF TypeOK, LocalsInv, SidsInv, SessionLive, AnnounceInv, FactoryReject
<1>3. ASSUME NEW t \in Handlers, FactoryMakeDirs(t) PROVE AnnounceInv'
  BY <1>0, <1>3 DEF TypeOK, LocalsInv, SidsInv, SessionLive, AnnounceInv, FactoryMakeDirs
<1>4. ASSUME NEW t \in Handlers, StartServer(t) PROVE AnnounceInv'
  BY <1>0, <1>4 DEF TypeOK, LocalsInv, SidsInv, SessionLive, AnnounceInv, StartServer
<1>5. ASSUME NEW t \in Handlers, BindRefused(t) PROVE AnnounceInv'
  BY <1>0, <1>5 DEF TypeOK, LocalsInv, SidsInv, SessionLive, AnnounceInv, BindRefused
<1>6. ASSUME NEW t \in Handlers, Launch(t) PROVE AnnounceInv'
  BY <1>0, <1>6 DEF TypeOK, LocalsInv, SidsInv, SessionLive, AnnounceInv, Launch
<1>7. ASSUME NEW t \in Handlers, LaunchRaises(t) PROVE AnnounceInv'
  BY <1>0, <1>7 DEF TypeOK, LocalsInv, SidsInv, SessionLive, AnnounceInv, LaunchRaises
<1>8. ASSUME NEW t \in Handlers, MarkUsed(t) PROVE AnnounceInv'
  BY <1>0, <1>8 DEF TypeOK, LocalsInv, SidsInv, SessionLive, AnnounceInv, MarkUsed
<1>9. ASSUME NEW t \in Handlers, Register(t) PROVE AnnounceInv'
  BY <1>0, <1>9 DEF TypeOK, LocalsInv, SidsInv, SessionLive, AnnounceInv, Register, MovesKeys
<1>10. ASSUME NEW t \in Handlers, StopPop(t) PROVE AnnounceInv'
  BY <1>0, <1>10 DEF TypeOK, LocalsInv, SidsInv, SessionLive, AnnounceInv, StopPop, MovesKeys
<1>11. ASSUME NEW t \in Handlers, StopClose(t) PROVE AnnounceInv'
  BY <1>0, <1>11 DEF TypeOK, LocalsInv, SidsInv, SessionLive, AnnounceInv, StopClose
<1>12. ASSUME NEW t \in Handlers, StopInstances(t) PROVE AnnounceInv'
  BY <1>0, <1>12 DEF TypeOK, LocalsInv, SidsInv, SessionLive, AnnounceInv, StopInstances
<1>13. ASSUME NEW t \in Handlers, StopRaises(t) PROVE AnnounceInv'
  BY <1>0, <1>13 DEF TypeOK, LocalsInv, SidsInv, SessionLive, AnnounceInv, StopRaises
<1>14. ASSUME NEW t \in Handlers, StopUnuse(t) PROVE AnnounceInv'
  BY <1>0, <1>14 DEF TypeOK, LocalsInv, SidsInv, SessionLive, AnnounceInv, StopUnuse
<1>15. ASSUME NEW t \in Handlers, StopFree(t) PROVE AnnounceInv'
  BY <1>0, <1>15 DEF TypeOK, LocalsInv, SidsInv, SessionLive, AnnounceInv, StopFree
<1>16. ASSUME NEW t \in Handlers, OnSessions(t) PROVE AnnounceInv'
  BY <1>0, <1>16 DEF TypeOK, LocalsInv, SidsInv, SessionLive, AnnounceInv, OnSessions
<1>17. ASSUME NEW t \in Handlers, SummaryBegin(t) PROVE AnnounceInv'
  BY <1>0, <1>17 DEF TypeOK, LocalsInv, SidsInv, SessionLive, AnnounceInv, SummaryBegin
<1>18. ASSUME NEW t \in Handlers, SummaryEnd(t) PROVE AnnounceInv'
  BY <1>0, <1>18 DEF TypeOK, LocalsInv, SidsInv, SessionLive, AnnounceInv, SummaryEnd
<1>19. ASSUME NEW t \in Handlers, SummaryRaises(t) PROVE AnnounceInv'
  BY <1>0, <1>19 DEF TypeOK, LocalsInv, SidsInv, SessionLive, AnnounceInv, SummaryRaises
<1>20. ASSUME NEW t \in Handlers, Emit(t) PROVE AnnounceInv'
  BY <1>0, <1>20 DEF TypeOK, LocalsInv, SidsInv, SessionLive, AnnounceInv, Emit
<1>21. ASSUME NEW t \in Handlers, SessionGdb(t) PROVE AnnounceInv'
  BY <1>0, <1>21 DEF TypeOK, LocalsInv, SidsInv, SessionLive, AnnounceInv, SessionGdb
<1>22. ASSUME NEW p \in Ports, GdbListens(p) PROVE AnnounceInv'
  BY <1>22 DEF AnnounceInv, GdbListens
<1>23. ASSUME NEW p \in Ports, GdbFails(p) PROVE AnnounceInv'
  BY <1>23 DEF AnnounceInv, GdbFails
<1>24. ASSUME NEW p \in Ports, GdbExit(p) PROVE AnnounceInv'
  BY <1>24 DEF AnnounceInv, GdbExit
<1>25. ASSUME NEW p \in Ports, GdbReturn(p) PROVE AnnounceInv'
  BY <1>25 DEF AnnounceInv, GdbReturn
<1>26. ASSUME NEW p \in Ports, LingerExpire(p) PROVE AnnounceInv'
  BY <1>26 DEF AnnounceInv, LingerExpire
<1>27. ASSUME UNCHANGED vars PROVE AnnounceInv'
  BY <1>27 DEF AnnounceInv, vars
<1> QED
  BY <1>1, <1>2, <1>3, <1>4, <1>5, <1>6, <1>7, <1>8, <1>9, <1>10, <1>11, <1>12, <1>13, <1>14, <1>15, <1>16, <1>17, <1>18, <1>19, <1>20, <1>21, <1>22, <1>23, <1>24, <1>25, <1>26, <1>27 DEF Next, SessionStart, SessionStop, UpdateSessions, Gdb

(* Only Emit takes a request out of "emit". *)
LEMMA OnlyEmit ==
  ASSUME TypeOK, Next, NEW t \in Handlers, pc[t] = "emit", pc'[t] = "idle"
  PROVE  Emit(t)
<1> USE DEF TypeOK, Goto, Finish, Fails
<1>1. ASSUME NEW u \in Handlers, SessionStart(u) PROVE FALSE
  BY <1>1 DEF SessionStart, StartPop, FactoryReject, FactoryMakeDirs,
    StartServer, BindRefused, Launch, LaunchRaises, MarkUsed, Register
<1>2. ASSUME NEW u \in Handlers, SessionStop(u) PROVE FALSE
  BY <1>2 DEF SessionStop, StopPop, StopClose, StopInstances, StopRaises,
    StopUnuse, StopFree
<1>3. ASSUME NEW u \in Handlers, UpdateSessions(u) PROVE Emit(t)
  BY <1>3 DEF UpdateSessions, OnSessions, SummaryBegin, SummaryEnd,
    SummaryRaises, Emit
<1>4. ASSUME NEW u \in Handlers, SessionGdb(u) PROVE FALSE
  BY <1>4 DEF SessionGdb
<1>5. ASSUME NEW p \in Ports, Gdb(p) \/ LingerExpire(p) PROVE FALSE
  BY <1>5 DEF Gdb, GdbListens, GdbFails, GdbExit, GdbReturn, LingerExpire
<1> QED
  BY <1>1, <1>2, <1>3, <1>4, <1>5 DEF Next

(* Whatever other requests do between its change and its broadcast, what a *)
(* stop took away is not in the table it sends with update_sessions; a     *)
(* start that is still registered is, unless keys came and went while it   *)
(* read the table.                                                         *)
THEOREM OwnChangeAnnounced == Spec => AnnouncesOwnChange
<1>1. Init => AnnounceInv
  BY DEF Init, AnnounceInv, Starting, HasSid
<1>2. IInv /\ AnnounceInv /\ [Next]_vars => AnnounceInv'
  BY AnnounceNext
<1> DEFINE Own(t) ==
      pc[t] = "emit" /\ pc'[t] = "idle" =>
        /\ op[t] = "start" /\ hsid[t] \in Registered /\ t \notin moved =>
             hsid[t] \in broadcast'
        /\ op[t] = "stop" => hsid[t] \notin broadcast'
<1>3. IInv /\ AnnounceInv /\ [Next]_vars => [\A t \in Handlers : Own(t)]_vars
  <2>1. SUFFICES ASSUME IInv, AnnounceInv, Next, NEW t \in Handlers,
                        pc[t] = "emit", pc'[t] = "idle"
                 PROVE  Own(t)
    OBVIOUS
  <2>2. Emit(t)
    BY <2>1, OnlyEmit DEF IInv
  <2> QED
    BY <2>1, <2>2 DEF AnnounceInv, HasSid, Emit
<1> QED
  BY <1>1, <1>2, <1>3, Invariance, PTL DEF Spec, AnnouncesOwnChange

-----------------------------------------------------------------------------
(* Sessions implements PortPool under the mapping Owner: every step of a   *)
(* request or a debugger leaves the owners as they are or passes one port  *)
(* on, the way the pool allows.                                            *)

SameAt(p) ==
  /\ IsFree(p)' <=> IsFree(p)
  /\ IsHeld(p)' <=> IsHeld(p)
  /\ Serves(p)' <=> Serves(p)
  /\ Debugs(p)' <=> Debugs(p)

LEMMA OwnerKept ==
  ASSUME \A p \in Ports : SameAt(p)
  PROVE  Owner' = Owner
<1>1. \A p \in Ports : Owner'[p] = Owner[p]
  BY DEF SameAt, Owner
<1> QED
  BY <1>1 DEF Owner

(* The owner of one port changes. *)
LEMMA OnePort ==
  ASSUME NEW q \in Ports, \A p \in Ports \ {q} : SameAt(p)
  PROVE  Owner' = [Owner EXCEPT ![q] = Owner'[q]]
<1>1. \A p \in Ports \ {q} : Owner'[p] = Owner[p]
  BY DEF SameAt, Owner
<1>2. Owner = [p \in Ports |-> Owner[p]] /\ Owner' = [p \in Ports |-> Owner'[p]]
  BY DEF Owner
<1> QED
  BY <1>1, <1>2

(* With exclusive ports the four kinds of owner tell themselves apart. *)
LEMMA OwnerAt ==
  ASSUME PortsExclusive, NEW p \in Ports
  PROVE  /\ IsFree(p) => Owner[p] = "pool"
         /\ IsHeld(p) => Owner[p] = "request"
         /\ Serves(p) => Owner[p] = "session"
         /\ Debugs(p) => Owner[p] = "debugger"
         /\ ~IsFree(p) /\ ~IsHeld(p) /\ ~Serves(p) /\ ~Debugs(p)
              => Owner[p] = "nobody"
BY DEF Owner, PortsExclusive, FreeAlone, RequestAlone, SessionAlone, IsHeld,
  Serves

LEMMA OwnerAtNext ==
  ASSUME PortsExclusive', NEW p \in Ports
  PROVE  /\ IsFree(p)' => Owner'[p] = "pool"
         /\ IsHeld(p)' => Owner'[p] = "request"
         /\ Serves(p)' => Owner'[p] = "session"
         /\ Debugs(p)' => Owner'[p] = "debugger"
         /\ ~IsFree(p)' /\ ~IsHeld(p)' /\ ~Serves(p)' /\ ~Debugs(p)'
              => Owner'[p] = "nobody"
BY DEF Owner, PortsExclusive, FreeAlone, RequestAlone, SessionAlone, IsHeld,
  Serves

(* What the pool allows. *)
Allowed ==
  {<<"pool", "request">>, <<"pool", "debugger">>, <<"request", "session">>,
   <<"session", "request">>, <<"request", "pool">>, <<"debugger", "pool">>,
   <<"request", "nobody">>, <<"debugger", "nobody">>}

(* q passes from one kind of owner to another, and nothing else changes.   *)
LEMMA Passes ==
  ASSUME NEW q \in Ports, \A p \in Ports \ {q} : SameAt(p),
         <<Owner[q], Owner'[q]>> \in Allowed
  PROVE  Pool!Next
<1>1. Owner' = [Owner EXCEPT ![q] = Owner'[q]]
  BY OnePort
<1> QED
  BY <1>1 DEF Allowed, Pool!Next, Pool!Grant, Pool!Attach, Pool!Detach,
    Pool!GiveBack, Pool!Drop, Pool!Pass
-----------------------------------------------------------------------------
(* A request goes on with its port, or with none: nobody's port changes.   *)
LEMMA RequestGoesOn ==
  ASSUME NEW t \in Handlers, TypeOK, HoldsPort(t)' <=> HoldsPort(t),
         \A u \in Handlers \ {t} : HoldsPort(u)' <=> HoldsPort(u),
         HoldsPort(t) => hport'[t] = hport[t],
         \A u \in Handlers \ {t} : hport'[u] = hport[u],
         UNCHANGED <<freeports, sessions, gdb>>
  PROVE  Owner' = Owner
<1>1. ASSUME NEW p \in Ports PROVE SameAt(p)
  BY DEF SameAt, IsFree, IsHeld, Serves, Debugs, Registered
<1> QED
  BY <1>1, OwnerKept

LEMMA StartMaps ==
  ASSUME IInv, IInv', NEW t \in Handlers, SessionStart(t)
  PROVE  [Pool!Next]_Owner
<1>a. TypeOK /\ TypeOK' /\ PortsExclusive /\ PortsExclusive' /\ LocalsInv /\ LocalsInv'
  BY DEF IInv, PortsExclusive
<1> USE DEF HoldsPort, IsHeld, Serves, Debugs, Registered
<1>1. CASE StartPop(t)
  <2>1. PICK q \in Ports : PopFreePort(q) /\ hport' = [hport EXCEPT ![t] = q]
    BY <1>1 DEF StartPop
  <2>2. IsFree(q) /\ \A x : IsFree(x)' <=> IsFree(x) /\ x # q
    BY <2>1, PopLast DEF PopFreePort, IsFree, IInv, TypeOK, FreeAlone
  <2>3. IsHeld(q)'
    BY <1>1, <1>a, <2>1 DEF StartPop, Goto, TypeOK
  <2>4. Owner[q] = "pool" /\ Owner'[q] = "request"
    BY <1>a, <2>2, <2>3, OwnerAt, OwnerAtNext
  <2>5. \A p \in Ports \ {q} : SameAt(p)
    BY <1>1, <1>a, <2>1, <2>2 DEF StartPop, Goto, TypeOK, SameAt
  <2> QED
    BY <2>4, <2>5, Passes DEF Allowed
<1>2. CASE FactoryReject(t) \/ BindRefused(t) \/ LaunchRaises(t)
  <2>0. PICK q \in Ports : q = hport[t]
    BY <1>2, <1>a DEF FactoryReject, BindRefused, LaunchRaises, Fails, Finish,
      Goto, LocalsInv
  <2>1. HoldsPort(t) /\ ~HoldsPort(t)'
    BY <1>2, <1>a DEF FactoryReject, BindRefused, LaunchRaises, Fails, Finish,
      Goto, TypeOK, LocalsInv
  <2>2. UNCHANGED <<freeports, sessions, gdb>> /\
        \A u \in Handlers \ {t} : pc'[u] = pc[u] /\ hport'[u] = hport[u]
    BY <1>2, <1>a DEF FactoryReject, BindRefused, LaunchRaises, Fails, Finish,
      Goto, TypeOK, lists
  <2>3. IsHeld(q) /\ ~IsFree(q) /\ ~Serves(q) /\ ~Debugs(q)
    BY <2>0, <2>1, <1>a DEF PortsExclusive, FreeAlone, RequestAlone
  <2>4. ~IsHeld(q)' /\ ~IsFree(q)' /\ ~Serves(q)' /\ ~Debugs(q)'
    BY <2>0, <2>1, <2>2, <2>3, <1>a DEF PortsExclusive, RequestAlone, IsFree
  <2>5. Owner[q] = "request" /\ Owner'[q] = "nobody"
    BY <1>a, <2>1, <2>3, <2>4, OwnerAt, OwnerAtNext
  <2>6. \A p \in Ports \ {q} : SameAt(p)
    BY <2>0, <2>1, <2>2 DEF SameAt, IsFree
  <2> QED
    BY <2>5, <2>6, Passes DEF Allowed
<1>3. CASE FactoryMakeDirs(t) \/ StartServer(t) \/ Launch(t) \/ MarkUsed(t)
  <2>1. CASE FactoryMakeDirs(t)
    BY <2>1, <1>a, RequestGoesOn DEF FactoryMakeDirs, Goto, TypeOK, lists
  <2>2. CASE StartServer(t) \/ Launch(t)
    BY <2>2, <1>a, RequestGoesOn DEF StartServer, Launch, Goto, TypeOK, lists, locals
  <2>3. CASE MarkUsed(t)
    BY <2>3, <1>a, RequestGoesOn DEF MarkUsed, Goto, TypeOK, locals
  <2> QED
    BY <1>3, <2>1, <2>2, <2>3
<1>4. CASE Register(t)
  <2>0. PICK q \in Ports : q = hport[t]
    BY <1>4, <1>a DEF Register, Goto, LocalsInv
  <2>1. HoldsPort(t) /\ ~HoldsPort(t)' /\ hsid[t] \in Sids
    BY <1>4, <1>a DEF Register, Goto, TypeOK, LocalsInv, OwnsSid
  <2>2. IsHeld(q) /\ Serves(q)'
    <3>1. q # NoPort
      BY PortRangeAssumption DEF Ports, NoPort
    <3>2. sessions'[hsid[t]] = q
      BY <1>4, <2>0, <2>1, <1>a DEF Register, TypeOK
    <3> QED
      BY <2>0, <2>1, <3>1, <3>2
  <2>3. Owner[q] = "request" /\ Owner'[q] = "session"
    BY <1>a, <2>1, <2>2, OwnerAt, OwnerAtNext
  <2>4. sessions[hsid[t]] = NoPort
    BY <1>4 DEF IInv, SidsInv, OwnsSid, Register, Goto
  <2>5. \A p \in Ports \ {q} : SameAt(p)
    BY <1>4, <1>a, <2>0, <2>1, <2>4 DEF Register, Goto, TypeOK, SameAt, IsFree, lists, locals
  <2> QED
    BY <2>3, <2>5, Passes DEF Allowed
<1> QED
  BY <1>1, <1>2, <1>3, <1>4 DEF SessionStart

LEMMA StopMaps ==
  ASSUME IInv, IInv', NEW t \in Handlers, SessionStop(t)
  PROVE  [Pool!Next]_Owner
<1>a. TypeOK /\ TypeOK' /\ PortsExclusive /\ PortsExclusive' /\ LocalsInv /\ LocalsInv'
  BY DEF IInv, PortsExclusive
<1> USE DEF HoldsPort, IsHeld, Serves, Debugs, Registered
<1>1. CASE StopPop(t)
  <2>1. PICK s \in Registered :
          /\ hport' = [hport EXCEPT ![t] = sessions[s]]
          /\ sessions' = [sessions EXCEPT ![s] = NoPort]
    BY <1>1 DEF StopPop
  <2>2. PICK q \in Ports : q = sessions[s]
    BY <1>a DEF TypeOK
  <2>3. pc[t] = "idle" /\ pc' = [pc EXCEPT ![t] = "close"]
    BY <1>1 DEF StopPop, Goto
  <2>4. Serves(q) /\ IsHeld(q)'
    BY <2>1, <2>2, <2>3, <1>a DEF TypeOK
  <2>5. Owner[q] = "session" /\ Owner'[q] = "request"
    BY <1>a, <2>4, OwnerAt, OwnerAtNext
  <2>6. \A p \in Ports \ {q} : SameAt(p)
    BY <1>1, <1>a, <2>1, <2>2, <2>3, PortRangeAssumption
      DEF StopPop, TypeOK, SameAt, IsFree, lists, Ports, NoPort
  <2> QED
    BY <2>5, <2>6, Passes DEF Allowed
<1>2. CASE StopClose(t) \/ StopInstances(t) \/ StopUnuse(t)
  <2>1. HoldsPort(t) /\ HoldsPort(t)'
    BY <1>2, <1>a DEF StopClose, StopInstances, StopUnuse, Goto, TypeOK
  <2>2. UNCHANGED <<freeports, sessions, gdb, hport>>
    BY <1>2 DEF StopClose, StopInstances, StopUnuse, lists, locals
  <2>3. \A u \in Handlers \ {t} : HoldsPort(u)' <=> HoldsPort(u)
    BY <1>2, <1>a DEF StopClose, StopInstances, StopUnuse, Goto, TypeOK
  <2> QED
    BY <2>1, <2>2, <2>3, <1>a, RequestGoesOn
<1>3. CASE StopRaises(t)
  <2>0. PICK q \in Ports : q = hport[t]
    BY <1>3, <1>a DEF StopRaises, Finish, Goto, LocalsInv
  <2>1. HoldsPort(t) /\ ~HoldsPort(t)'
    BY <1>3, <1>a DEF StopRaises, Finish, Goto, TypeOK
  <2>2. UNCHANGED <<freeports, sessions, gdb>> /\
        \A u \in Handlers \ {t} : pc'[u] = pc[u] /\ hport'[u] = hport[u]
    BY <1>3, <1>a DEF StopRaises, Finish, Goto, TypeOK, lists
  <2>3. IsHeld(q) /\ ~IsFree(q) /\ ~Serves(q) /\ ~Debugs(q)
    BY <2>0, <2>1, <1>a DEF PortsExclusive, FreeAlone, RequestAlone
  <2>4. ~IsHeld(q)' /\ ~IsFree(q)' /\ ~Serves(q)' /\ ~Debugs(q)'
    BY <2>0, <2>1, <2>2, <2>3, <1>a DEF PortsExclusive, RequestAlone, IsFree
  <2>5. Owner[q] = "request" /\ Owner'[q] = "nobody"
    BY <1>a, <2>3, <2>4, OwnerAt, OwnerAtNext
  <2>6. \A p \in Ports \ {q} : SameAt(p)
    BY <2>0, <2>1, <2>2 DEF SameAt, IsFree
  <2> QED
    BY <2>5, <2>6, Passes DEF Allowed
<1>4. CASE StopFree(t)
  <2>0. PICK q \in Ports : q = hport[t]
    BY <1>4, <1>a DEF StopFree, Goto, LocalsInv
  <2>1. HoldsPort(t) /\ ~HoldsPort(t)' /\ UNCHANGED <<sessions, gdb, hport>>
    BY <1>4, <1>a DEF StopFree, Goto, TypeOK, locals
  <2>2. IsHeld(q) /\ ~IsFree(q)
    BY <2>0, <2>1, <1>a DEF PortsExclusive, FreeAlone
  <2>3. \A x : IsFree(x)' <=> IsFree(x) \/ x = q
    BY <1>4, <1>a, <2>0, <2>2, AppendFresh
      DEF StopFree, IsFree, TypeOK, PortsExclusive, FreeAlone
  <2>4. Owner[q] = "request" /\ Owner'[q] = "pool"
    BY <1>a, <2>2, <2>3, OwnerAt, OwnerAtNext
  <2>5. \A p \in Ports \ {q} : SameAt(p)
    BY <1>4, <1>a, <2>0, <2>1, <2>3 DEF StopFree, Goto, TypeOK, SameAt
  <2> QED
    BY <2>4, <2>5, Passes DEF Allowed
<1> QED
  BY <1>1, <1>2, <1>3, <1>4 DEF SessionStop

LEMMA UpdateMaps ==
  ASSUME IInv, NEW t \in Handlers, UpdateSessions(t)
  PROVE  [Pool!Next]_Owner
<1>a. TypeOK
  BY DEF IInv
<1>1. ~HoldsPort(t) /\ ~HoldsPort(t)'
  BY <1>a DEF UpdateSessions, OnSessions, SummaryBegin, SummaryEnd,
    SummaryRaises, Emit, Fails, Finish, Goto, HoldsPort, TypeOK
<1>2. UNCHANGED <<freeports, sessions, gdb>>
  BY DEF UpdateSessions, OnSessions, SummaryBegin, SummaryEnd, SummaryRaises,
    Emit, Fails, lists
<1>3. \A u \in Handlers \ {t} :
        (HoldsPort(u)' <=> HoldsPort(u)) /\ hport'[u] = hport[u]
  BY <1>a DEF UpdateSessions, OnSessions, SummaryBegin, SummaryEnd,
    SummaryRaises, Emit, Fails, Finish, Goto, HoldsPort, TypeOK
<1> QED
  BY <1>a, <1>1, <1>2, <1>3, RequestGoesOn

LEMMA SessionGdbMaps ==
  ASSUME IInv, IInv', NEW t \in Handlers, SessionGdb(t)
  PROVE  [Pool!Next]_Owner
<1>a. TypeOK /\ PortsExclusive /\ PortsExclusive'
  BY DEF IInv, PortsExclusive
<1>1. PICK q \in Ports : PopFreePort(q) /\ gdb' = [gdb EXCEPT ![q] = "launch"]
  BY DEF SessionGdb
<1>2. IsFree(q) /\ \A x : IsFree(x)' <=> IsFree(x) /\ x # q
  BY <1>1, PopLast DEF PopFreePort, IsFree, IInv, TypeOK, FreeAlone
<1>3. Debugs(q)'
  BY <1>1, <1>a DEF Debugs, TypeOK
<1>4. Owner[q] = "pool" /\ Owner'[q] = "debugger"
  BY <1>a, <1>2, <1>3, OwnerAt, OwnerAtNext
<1>5. \A p \in Ports \ {q} : SameAt(p)
  BY <1>1, <1>2, <1>a DEF SessionGdb, SameAt, TypeOK, Debugs, IsHeld, HoldsPort,
    Serves, Registered, locals
<1> QED
  BY <1>4, <1>5, Passes DEF Allowed

LEMMA GdbMaps ==
  ASSUME IInv, IInv', NEW q \in Ports, Gdb(q)
  PROVE  [Pool!Next]_Owner
<1>a. TypeOK /\ PortsExclusive /\ PortsExclusive'
  BY DEF IInv, PortsExclusive
<1>b. UNCHANGED <<sessions, pc, hport>>
  BY DEF Gdb, GdbListens, GdbFails, GdbExit, GdbReturn, locals
<1>c. \A p \in Ports : (IsHeld(p)' <=> IsHeld(p)) /\ (Serves(p)' <=> Serves(p))
  BY <1>b DEF IsHeld, HoldsPort, Serves, Registered
<1>d. Debugs(q) /\ \A p \in Ports \ {q} : Debugs(p)' <=> Debugs(p)
  BY <1>a DEF Gdb, GdbListens, GdbFails, GdbExit, GdbReturn, Debugs, TypeOK
<1>1. CASE Debugs(q)'
  <2>1. UNCHANGED freeports
    BY <1>1, <1>a DEF Gdb, GdbListens, GdbFails, GdbExit, GdbReturn, Debugs,
      TypeOK, lists
  <2>2. \A p \in Ports : SameAt(p)
    BY <2>1, <1>1, <1>c, <1>d DEF SameAt, IsFree
  <2> QED
    BY <2>2, OwnerKept
<1>2. CASE GdbFails(q) /\ ~Debugs(q)'
  <2>1. \A p \in Ports : IsFree(p)' <=> IsFree(p)
    BY <1>2 DEF GdbFails, IsFree, lists
  <2>2. ~IsFree(q) /\ ~IsHeld(q) /\ ~Serves(q)
    BY <1>a, <1>d DEF PortsExclusive, FreeAlone, RequestAlone, SessionAlone,
      IsHeld, Serves
  <2>3. Owner[q] = "debugger" /\ Owner'[q] = "nobody"
    BY <1>2, <1>a, <1>c, <1>d, <2>1, <2>2, OwnerAt, OwnerAtNext
  <2>4. \A p \in Ports \ {q} : SameAt(p)
    BY <2>1, <1>c, <1>d DEF SameAt
  <2> QED
    BY <2>3, <2>4, Passes DEF Allowed
<1>3. CASE GdbReturn(q)
  <2>1. ~IsFree(q)
    BY <1>a, <1>d DEF PortsExclusive, FreeAlone
  <2>2. \A x : IsFree(x)' <=> IsFree(x) \/ x = q
    BY <1>3, <1>a, <2>1, AppendFresh
      DEF GdbReturn, IsFree, TypeOK, PortsExclusive, FreeAlone
  <2>3. Owner[q] = "debugger" /\ Owner'[q] = "pool"
    BY <1>a, <1>d, <2>2, OwnerAt, OwnerAtNext
  <2>4. \A p \in Ports \ {q} : SameAt(p)
    BY <2>2, <1>c, <1>d DEF SameAt
  <2> QED
    BY <2>3, <2>4, Passes DEF Allowed
<1>4. Debugs(q)' \/ GdbFails(q) \/ GdbReturn(q)
  BY <1>a DEF Gdb, GdbListens, GdbExit, Debugs, TypeOK
<1> QED
  BY <1>1, <1>2, <1>3, <1>4

LEMMA NextMaps ==
  ASSUME IInv, IInv', [Next]_vars
  PROVE  [Pool!Next]_Owner
<1>1. ASSUME NEW p \in Ports, LingerExpire(p)
      PROVE  Owner' = Owner
  BY <1>1 DEF LingerExpire, Owner, IsFree, IsHeld, HoldsPort, Serves, Debugs,
    Registered, lists, locals
<1>2. ASSUME UNCHANGED vars
      PROVE  Owner' = Owner
  BY <1>2 DEF vars, Owner, IsFree, IsHeld, HoldsPort, Serves, Debugs, Registered
<1> QED
  BY <1>1, <1>2, StartMaps, StopMaps, UpdateMaps, SessionGdbMaps, GdbMaps
    DEF Next

(* The session manager of cgcserv/__main__.py implements the port pool, for *)
(* any number of requests, session ids and ports.                           *)
THEOREM Refinement == Spec => ImplementsPool
<1>1. Init => Pool!Init
  <2> SUFFICES ASSUME Init, NEW p \in Ports PROVE IsFree(p)
    BY DEF Pool!Init, Owner
  <2>1. p - LowPort + 1 \in 1 .. Len(freeports) /\ freeports[p - LowPort + 1] = p
    BY PortRangeAssumption DEF Init, Ports
  <2> QED
    BY <2>1 DEF IsFree, Contains
<1>2. IInv /\ IInv' /\ [Next]_vars => [Pool!Next]_Owner
  BY NextMaps
<1> QED
  BY <1>1, <1>2, Invariance, PTL DEF Spec, ImplementsPool, Pool!Spec
=============================================================================
