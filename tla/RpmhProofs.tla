----------------------------- MODULE RpmhProofs -----------------------------
(***************************************************************************)
(* Theorems about Rpmh for every number of threads, BCMs, TCSs and commands: *)
(* the request a TCS or the interrupt handler points to is alive and not   *)
(* completed, a call waits only for requests that are on their way, and    *)
(* no resource is in flight twice.                                         *)
(***************************************************************************)
EXTENDS Rpmh, Integers, TLAPS

Step0 == {"idle", "v_sleep", "v_wake", "v_active", "v_ws"}
Listed == {"v_sleep", "v_wake", "v_active"}
Sending == {"sleep", "wake", "claim"}
Calling(t) == pc[t] \in Sending \union {"arm", "wait"}

\* A request that has been sent and whose completion has not been signalled.
Pending(r) == (\E m \in in_use : req[m] = r) \/ (at = "done" /\ done_req = r)

\* The places of the batch that thread t has sent.
Sent(t) ==
    IF pc[t] = "wait" THEN 1 .. Len(msgs[t])
    ELSE IF pc[t] = "arm" THEN 1 .. k[t] ELSE 1 .. k[t] - 1

IsSeq(q) == q \in Seq({q[i] : i \in DOMAIN q})

ThreadType(t) ==
    /\ pc[t] \in Step0 \union Sending \union {"arm", "wait"}
    /\ kind[t] \in {"sync", "async", "commit", "failed"}
    /\ k[t] \in Nat /\ IsSeq(msgs[t]) /\ Len(msgs[t]) \in Nat
    /\ pc[t] \in Listed => Len(msgs[t]) > 0
    /\ ~Calling(t) => kind[t] # "async"
    /\ kind[t] = "failed" => pc[t] \notin Sending \union {"arm"}

\* A batch: its requests are alive, and the ones that are pending or completed
\* are the ones sent.
BatchInv(t) ==
    /\ Calling(t) =>
         /\ \A i \in 1 .. Len(msgs[t]) : <<t, i>> \in live
         /\ pc[t] # "wait" => k[t] \in 1 .. Len(msgs[t])
         /\ \A i \in Nat \ {0} :
              (Pending(<<t, i>>) \/ <<t, i>> \in compl) <=> i \in Sent(t)
    /\ ~Calling(t) => \A i \in Nat \ {0} : <<t, i>> \notin live

\* An asynchronous write has one request, not sent before the TCS is claimed.
AsyncInv(t) ==
    /\ pc[t] # "wait" /\ k[t] = 1 /\ Len(msgs[t]) = 1
    /\ <<t, 0>> \in live
    /\ pc[t] # "arm" => ~Pending(<<t, 0>>)
    /\ \A i \in Nat \ {0} : <<t, i>> \notin live

ThreadInv(t) ==
    /\ ThreadType(t)
    /\ kind[t] = "async" => AsyncInv(t)
    /\ kind[t] # "async" => BatchInv(t)

\* The TCSs: which are triggered, finished, with the handler, or claimed.
TcsInv ==
    /\ in_use \subseteq AllTcs /\ DOMAIN req = AllTcs /\ req = [m \in AllTcs |-> req[m]]
    /\ busy \subseteq in_use /\ irq_status \subseteq in_use /\ todo \subseteq irq_status
    /\ busy \intersect irq_status = {}
    /\ at \in {"idle", "disable", "reclaim", "done"}
    /\ at \in {"disable", "reclaim"} =>
         done_tcs \in irq_status \ todo /\ done_req = req[done_tcs]
    /\ \A t \in Thread : pc[t] = "arm" =>
         /\ tcs[t] \in in_use \ (busy \union irq_status)
         /\ req[tcs[t]] = Cur(t)
    /\ \A t, u \in Thread : pc[t] = "arm" /\ pc[u] = "arm" => t = u

\* The requests: each at one TCS or with the handler, alive, not completed.
ReqInv ==
    /\ live \subseteq Thread \X Nat
    /\ compl \subseteq live /\ compl \subseteq Thread \X (Nat \ {0})
    /\ \A m \in in_use : req[m] \in live \ compl
    /\ at = "done" => done_req \in live \ compl
    /\ \A m, n \in in_use : req[m] = req[n] => m = n
    /\ at = "done" => \A m \in in_use : req[m] # done_req

FunType ==
    /\ pc = [t \in Thread |-> pc[t]] /\ kind = [t \in Thread |-> kind[t]]
    /\ msgs = [t \in Thread |-> msgs[t]] /\ k = [t \in Thread |-> k[t]]
    /\ tcs = [t \in Thread |-> tcs[t]]

IInv ==
    /\ FunType
    /\ TcsInv
    /\ ReqInv
    /\ \A t \in Thread : ThreadInv(t)

-----------------------------------------------------------------------------
(* Facts the steps share. *)

\* A TCS names its group.
LEMMA TcsGroup == \A g : \A m \in Tcs(g) : m[1] = g
  BY DEF Tcs

\* The places of a sequence.
LEMMA Places1 ==
  /\ \A i, n : i = 1 /\ n = 1 => i \in 1 .. n
  /\ \A q : IsSeq(q) => Len(q) \in Nat /\ DOMAIN q = 1 .. Len(q)
  BY DEF IsSeq

\* The state of a message, and the entries of the batch cache.
LEMMA Fields == \A a, b : [state |-> a, msg |-> b].state = a
  OBVIOUS
LEMMA Entries ==
    ASSUME NEW w, NEW v, Len(w) \in Nat, Len(v) \in Nat
    PROVE  \A r \in {[state |-> "wake", msgs |-> w], [state |-> "sleep", msgs |-> v]} :
             r.state \in {"sleep", "wake"} /\ Len(r.msgs) \in Nat
  OBVIOUS

\* The messages before the one that failed.
LEMMA Prefix ==
    ASSUME NEW n \in Nat, NEW h \in 1 .. n
    PROVE  1 .. h - 1 \subseteq 1 .. n
  OBVIOUS

\* The part of the state the invariant is about.
invVars == <<pc, kind, msgs, k, tcs, live, compl, in_use, req, busy, irq_status,
             at, todo, done_tcs, done_req>>

\* A thread whose call has ended.
LEMMA EndedType ==
    ASSUME NEW t \in Thread, pc'[t] \in {"v_ws", "idle"}, kind'[t] = "sync",
           msgs'[t] = <<>>, k'[t] = 0
    PROVE  ThreadType(t)' /\ ~Calling(t)'
<1>1. Len(msgs'[t]) \in Nat /\ msgs'[t] \in Seq({msgs'[t][i] : i \in DOMAIN msgs'[t]}) /\ k'[t] \in Nat
  OBVIOUS
<1>2. pc'[t] \notin Sending \union {"arm", "wait"} \union Listed
  BY DEF Sending, Listed
<1>3. pc'[t] \in Step0
  BY Zenon DEF Step0
<1>4. QED
  BY Zenon, <1>1, <1>2, <1>3 DEF ThreadType, Calling, IsSeq

\* What a thread's invariant says depends on its own variables and requests.
LEMMA ThreadFrame ==
    ASSUME NEW u \in Thread, ThreadInv(u),
           pc'[u] = pc[u], kind'[u] = kind[u], msgs'[u] = msgs[u], k'[u] = k[u],
           \A i \in Nat : <<u, i>> \in live' <=> <<u, i>> \in live,
           \A i \in Nat : <<u, i>> \in compl' <=> <<u, i>> \in compl,
           \A i \in Nat : Pending(<<u, i>>)' <=> Pending(<<u, i>>)
    PROVE  ThreadInv(u)'
<1>1. ThreadType(u)' /\ (Calling(u)' <=> Calling(u)) /\ Sent(u)' = Sent(u)
  BY Zenon DEF ThreadInv, ThreadType, Calling, Sent
<1>2. ASSUME kind[u] = "async" PROVE AsyncInv(u)'
  BY <1>2 DEF ThreadInv, AsyncInv
<1>3. ASSUME kind[u] # "async" PROVE BatchInv(u)'
  <2>1. Len(msgs[u]) \in Nat
    BY Zenon DEF ThreadInv, ThreadType
  <2>2. BatchInv(u)
    BY <1>3 DEF ThreadInv
  <2>3. \A i \in Nat \ {0} : (Pending(<<u, i>>)' \/ <<u, i>> \in compl')
                             <=> (Pending(<<u, i>>) \/ <<u, i>> \in compl)
    BY Zenon
  <2>4. \A i : i \in 1 .. Len(msgs[u]) => i \in Nat
    BY <2>1
  <2>5. QED
    BY Zenon, <1>1, <2>2, <2>3, <2>4 DEF BatchInv
<1>4. QED
  BY Zenon, <1>1, <1>2, <1>3 DEF ThreadInv

\* The invariant holds before any call.
LEMMA InvInit ==
    ASSUME Init
    PROVE  IInv
<1>1. FunType
  BY Zenon DEF Init, FunType
<1>2. TcsInv
  BY DEF Init, TcsInv
<1>3. ReqInv
  BY DEF Init, ReqInv
<1>4. ASSUME NEW t \in Thread PROVE ThreadInv(t)
  <2>1. pc[t] = "idle" /\ kind[t] = "sync" /\ msgs[t] = <<>> /\ k[t] = 0 /\ live = {}
    BY DEF Init
  <2>2. IsSeq(<<>>) /\ Len(<<>>) \in Nat
    BY DEF IsSeq
  <2>3. ~Calling(t)
    BY <2>1 DEF Calling, Sending
  <2>4. ThreadType(t)
    BY <2>1, <2>2, <2>3 DEF ThreadType, Step0, Listed, Sending
  <2>5. QED
    BY <2>1, <2>3, <2>4 DEF ThreadInv, BatchInv
<1>5. QED
  BY <1>1, <1>2, <1>3, <1>4 DEF IInv

\* The TCSs are fixed by the device tree.
LEMMA SameTcs ==
    ASSUME rsc' = rsc
    PROVE  AllTcs' = AllTcs
  BY DEF AllTcs, Tcs

\* Steps that leave everything the invariant is about as it is.
LEMMA Unrelated ==
    ASSUME IInv, UNCHANGED <<invVars, rsc>>
    PROVE  IInv'
<1>1. FunType' /\ TcsInv' /\ ReqInv'
  <2>1. FunType'
    BY DEF IInv, FunType, invVars
  <2>2. TcsInv'
    BY SameTcs DEF IInv, TcsInv, invVars, Cur
  <2>3. ReqInv'
    BY DEF IInv, ReqInv, invVars
  <2>4. QED
    BY <2>1, <2>2, <2>3
<1>2. ASSUME NEW u \in Thread PROVE ThreadInv(u)'
  BY ThreadFrame DEF IInv, invVars, Pending
<1>3. QED
  BY <1>1, <1>2 DEF IInv

\* A function on the first n numbers is a sequence.
LEMMA FunIsSeq ==
    ASSUME NEW n \in Nat, NEW q, q = [i \in 1 .. n |-> q[i]]
    PROVE  IsSeq(q) /\ Len(q) = n
<1> DEFINE T == {q[i] : i \in DOMAIN q}
<1>1. q \in [1 .. n -> T]
  OBVIOUS
<1>2. q \in Seq(T) /\ Len(q) = n
  BY <1>1
<1>3. QED
  BY <1>2 DEF IsSeq

\* The voter moves between the parts of its commit that send nothing.
LEMMA VoterMoves ==
    ASSUME IInv, pc[Voter] \in Step0, NEW q \in Step0, NEW list,
           IsSeq(list), Len(list) \in Nat, q \in Listed => Len(list) > 0,
           pc' = [pc EXCEPT ![Voter] = q], msgs' = [msgs EXCEPT ![Voter] = list],
           UNCHANGED <<kind, k, tcs, live, compl, in_use, req, busy, irq_status,
                       at, todo, done_tcs, done_req, rsc>>
    PROVE  IInv'
<1>0. Voter \in Thread /\ FunType /\ TcsInv /\ ReqInv
  BY DEF Thread, IInv
<1>1. FunType'
  BY Zenon, <1>0 DEF FunType
<1>2. \A t \in Thread : pc'[t] = "arm" <=> pc[t] = "arm"
  BY <1>0 DEF FunType, Step0
<1>3. TcsInv'
  BY <1>0, <1>2, SameTcs DEF TcsInv, Cur
<1>4. ReqInv'
  BY <1>0 DEF ReqInv
<1>5. ASSUME NEW u \in Thread PROVE ThreadInv(u)'
  <2>1. CASE u # Voter
    <3>1. pc'[u] = pc[u] /\ msgs'[u] = msgs[u]
      BY <2>1, <1>0 DEF FunType
    <3>2. QED
      BY <3>1, ThreadFrame DEF IInv, Pending
  <2>2. CASE u = Voter
    <3>1. pc'[u] = q /\ msgs'[u] = list
      BY <2>2, <1>0 DEF FunType
    <3>2. ThreadInv(u) /\ ~Calling(u) /\ ~Calling(u)'
      BY <2>2, <3>1 DEF IInv, Calling, Step0, Sending
    <3>3. ThreadType(u)' /\ kind'[u] # "async"
      BY <3>1, <3>2 DEF ThreadInv, ThreadType, Step0, Sending
    <3>4. BatchInv(u)'
      BY Zenon, <3>2, <3>3 DEF ThreadInv, BatchInv
    <3>5. QED
      BY <3>3, <3>4 DEF ThreadInv
  <2>3. QED
    BY <2>1, <2>2
<1>6. QED
  BY <1>1, <1>3, <1>4, <1>5 DEF IInv

-----------------------------------------------------------------------------
(* The steps of a call. *)

\* What a step of thread t leaves alone.
OnlyThread(t) ==
    \A u \in Thread \ {t} :
        /\ pc'[u] = pc[u] /\ kind'[u] = kind[u] /\ msgs'[u] = msgs[u]
        /\ k'[u] = k[u] /\ tcs'[u] = tcs[u]
TcsSame == UNCHANGED <<in_use, req, busy, irq_status, at, todo, done_tcs, done_req, rsc>>

\* When no TCS is touched and no thread enters or leaves the claim, the part on
\* TCSs is kept.
LEMMA TcsFrame ==
    ASSUME TcsInv, TcsSame,
           NEW t \in Thread, OnlyThread(t), pc[t] # "arm", pc'[t] # "arm"
    PROVE  TcsInv'
<1>1. \A u \in Thread : pc'[u] = "arm" =>
        pc[u] = "arm" /\ tcs'[u] = tcs[u] /\ Cur(u)' = Cur(u)
  BY DEF OnlyThread, Cur
<1>2. QED
  BY <1>1, SameTcs DEF TcsInv, TcsSame

-----------------------------------------------------------------------------
(* rpmh_write and rpmh_write_batch: a call begins, retries, fails, returns *)

\* A call begins: its requests are new.
LEMMA StartStep ==
    ASSUME IInv, NEW t \in Thread, pc[t] \in Step0,
           NEW knd \in {"sync", "async", "commit"}, NEW list,
           IsSeq(list), Len(list) \in Nat, Len(list) > 0,
           knd = "async" => Len(list) = 1 /\ <<t, 0>> \notin live,
           Start(t, knd, list), TcsSame
    PROVE  IInv'
<1>0. FunType /\ TcsInv /\ ReqInv /\ ThreadInv(t)
  BY DEF IInv
<1>1. FunType' /\ OnlyThread(t)
  BY Zenon, <1>0 DEF FunType, Start, OnlyThread
<1>2. /\ pc'[t] \in Sending /\ kind'[t] = knd /\ msgs'[t] = list /\ k'[t] = 1
      /\ tcs' = tcs /\ compl' = compl
  BY <1>0 DEF FunType, Start, SendEntry, Sending
<1>3. ~Calling(t) /\ \A i \in Nat \ {0} : <<t, i>> \notin live
  BY <1>0 DEF ThreadInv, ThreadType, BatchInv, Calling, Step0, Sending
<1>4. TcsInv'
  BY <1>0, <1>1, <1>2, TcsFrame DEF Sending, Step0
<1>5. live \subseteq live' /\ live' \subseteq live \union ({t} \X Nat)
  <2>1. \/ live' = live \union {<<t, 0>>}
        \/ live' = live \union {<<t, i>> : i \in 1 .. Len(list)}
    BY Zenon DEF Start
  <2>2. {<<t, 0>>} \subseteq {t} \X Nat /\ {<<t, i>> : i \in 1 .. Len(list)} \subseteq {t} \X Nat
    OBVIOUS
  <2>3. QED
    BY Zenon, <2>1, <2>2
<1>6. ReqInv'
  BY <1>0, <1>2, <1>5 DEF ReqInv, TcsSame
<1>7. ASSUME NEW u \in Thread PROVE ThreadInv(u)'
  <2>0. ThreadInv(u) /\ \A r : Pending(r)' <=> Pending(r)
    BY DEF IInv, Pending, TcsSame
  <2>1. CASE u # t
    <3>1. \A i \in Nat : <<u, i>> \in live' <=> <<u, i>> \in live
      BY <2>1, <1>5
    <3>2. QED
      BY <2>0, <2>1, <3>1, <1>1, <1>2, ThreadFrame DEF OnlyThread
  <2>2. CASE u = t
    <3>1. Calling(t)' /\ ThreadType(t)'
      BY <1>2 DEF ThreadType, Calling, Sending, Listed, Step0
    <3>2. \A r : Pending(r) => r \in live
      BY <1>0 DEF ReqInv, Pending
    <3>3. CASE knd = "async"
      <4>1. live' = live \union {<<t, 0>>}
        BY <3>3 DEF Start
      <4>2. AsyncInv(t)'
        BY <4>1, <1>2, <1>3, <2>0, <3>2, <3>3 DEF AsyncInv, Sending
      <4>3. QED
        BY <2>2, <3>1, <3>3, <4>2, <1>2 DEF ThreadInv
    <3>4. CASE knd # "async"
      <4>1. live' = live \union {<<t, i>> : i \in 1 .. Len(list)}
        BY <3>4 DEF Start
      <4>2. Sent(t)' = {}
        BY <1>2 DEF Sent, Sending
      <4>3. \A i \in Nat \ {0} : ~Pending(<<t, i>>) /\ <<t, i>> \notin compl
        BY <1>0, <1>3, <3>2 DEF ReqInv
      <4>4. BatchInv(t)'
        <5>1. pc'[t] # "wait" => k'[t] \in 1 .. Len(msgs'[t])
          BY <1>2
        <5>2. \A i \in 1 .. Len(msgs'[t]) : <<t, i>> \in live'
          BY Zenon, <1>2, <4>1
        <5>3. QED
          BY Zenon, <1>2, <2>0, <3>1, <4>2, <4>3, <5>1, <5>2 DEF BatchInv
      <4>5. QED
        BY <2>2, <3>1, <3>4, <4>4, <1>2 DEF ThreadInv
    <3>5. QED
      BY <3>3, <3>4
  <2>3. QED
    BY <2>1, <2>2
<1>8. QED
  BY <1>1, <1>4, <1>6, <1>7 DEF IInv

\* tcs_write is tried again, or has invalidated a group.
LEMMA RetryStep ==
    ASSUME IInv, NEW t \in Thread, pc[t] \in Sending, NEW q \in Sending,
           pc' = [pc EXCEPT ![t] = q],
           UNCHANGED <<kind, msgs, k, tcs, live, compl>>, TcsSame
    PROVE  IInv'
<1>0. FunType /\ TcsInv /\ ReqInv /\ ThreadInv(t)
  BY DEF IInv
<1>1. FunType' /\ OnlyThread(t) /\ pc'[t] = q
  BY <1>0 DEF FunType, OnlyThread
<1>2. TcsInv'
  BY <1>0, <1>1, TcsFrame DEF Sending
<1>3. ReqInv'
  BY Zenon, <1>0 DEF ReqInv, TcsSame
<1>4. ASSUME NEW u \in Thread PROVE ThreadInv(u)'
  <2>0. ThreadInv(u) /\ \A r : Pending(r)' <=> Pending(r)
    BY DEF IInv, Pending, TcsSame
  <2>1. CASE u # t
    BY <2>0, <2>1, <1>1, ThreadFrame DEF OnlyThread
  <2>2. CASE u = t
    <3>1. Calling(t) /\ Calling(t)' /\ ThreadType(t)' /\ Sent(t)' = Sent(t)
      BY Zenon, <1>0, <1>1 DEF ThreadInv, ThreadType, Calling, Sent, Sending, Listed, Step0
    <3>2. kind[t] = "async" => AsyncInv(t)'
      BY Zenon, <1>0, <1>1, <2>0 DEF ThreadInv, AsyncInv, Sending
    <3>3. kind[t] # "async" => BatchInv(t)'
      BY Zenon, <1>0, <1>1, <2>0, <3>1 DEF ThreadInv, BatchInv, Sending
    <3>4. QED
      BY <2>2, <3>1, <3>2, <3>3 DEF ThreadInv
  <2>3. QED
    BY <2>1, <2>2
<1>5. QED
  BY <1>1, <1>2, <1>3, <1>4 DEF IInv

\* An error of tcs_write: an asynchronous write returns, a batch waits for what
\* it has sent.
LEMMA FailStep ==
    ASSUME IInv, NEW t \in Thread, pc[t] \in Sending, Fail(t),
           UNCHANGED <<tcs, live, compl>>, TcsSame
    PROVE  IInv'
<1>0. FunType /\ TcsInv /\ ReqInv /\ ThreadInv(t)
  BY DEF IInv
<1>1. FunType' /\ OnlyThread(t) /\ pc'[t] \in {"idle", "wait"}
  BY <1>0 DEF FunType, Fail, EndCall, OnlyThread
<1>2. TcsInv'
  BY Zenon, <1>0, <1>1, TcsFrame DEF Sending
<1>3. ReqInv'
  BY <1>0 DEF ReqInv, TcsSame
<1>4. ASSUME NEW u \in Thread PROVE ThreadInv(u)'
  <2>0. ThreadInv(u) /\ \A r : Pending(r)' <=> Pending(r)
    BY DEF IInv, Pending, TcsSame
  <2>1. CASE u # t
    BY Zenon, <2>0, <2>1, <1>1, ThreadFrame DEF OnlyThread
  <2>2. CASE u = t /\ kind[t] = "async"
    <3>1. pc'[t] = "idle" /\ kind'[t] = "sync" /\ msgs'[t] = <<>> /\ k'[t] = 0
      BY <1>0, <2>2 DEF FunType, Fail, EndCall
    <3>2. ThreadType(t)' /\ ~Calling(t)'
      BY Zenon, <3>1, EndedType
    <3>3. BatchInv(t)'
      BY Zenon, <1>0, <2>2, <3>2 DEF ThreadInv, AsyncInv, BatchInv
    <3>4. QED
      BY <2>2, <3>1, <3>2, <3>3 DEF ThreadInv
  <2>3. CASE u = t /\ kind[t] # "async"
    <3>1. /\ pc'[t] = "wait" /\ kind'[t] = "failed" /\ k'[t] = k[t]
          /\ msgs'[t] = [i \in 1 .. k[t] - 1 |-> msgs[t][i]]
      BY <1>0, <2>3 DEF FunType, Fail
    <3>2. /\ k[t] \in 1 .. Len(msgs[t]) /\ Len(msgs[t]) \in Nat /\ IsSeq(msgs[t])
          /\ BatchInv(t) /\ Calling(t)
      BY Zenon, <1>0, <2>3 DEF ThreadInv, ThreadType, BatchInv, Calling, Sending
    <3>3. Len(msgs'[t]) = k[t] - 1 /\ IsSeq(msgs'[t])
      <4>1. k[t] - 1 \in Nat
        BY <3>2
      <4>2. \A i \in 1 .. k[t] - 1 : msgs'[t][i] = msgs[t][i]
        BY Zenon, <3>1
      <4>3. msgs'[t] = [i \in 1 .. k[t] - 1 |-> msgs'[t][i]]
        BY Zenon, <3>1, <4>2
      <4>4. QED
        BY Zenon, <4>1, <4>3, FunIsSeq
    <3>4. ThreadType(t)' /\ Calling(t)'
      <4>1. k'[t] \in Nat /\ Len(msgs'[t]) \in Nat
        <5>1. k[t] \in 1 .. Len(msgs[t]) /\ Len(msgs[t]) \in Nat
          BY Zenon, <3>2
        <5>2. k[t] \in Nat /\ k[t] - 1 \in Nat
          BY <5>1
        <5>3. QED
          BY Zenon, <3>1, <3>3, <5>2
      <4>2. pc'[t] \notin Listed /\ pc'[t] \notin Sending \union {"arm"}
        BY <3>1 DEF Listed, Sending
      <4>3. QED
        BY Zenon, <3>1, <3>3, <4>1, <4>2 DEF ThreadType, Calling
    <3>5. Sent(t)' = Sent(t)
      BY Zenon, <3>1, <3>3 DEF Sent, Sending
    <3>6. BatchInv(t)'
      <4>1. \A i \in Nat \ {0} : (Pending(<<t, i>>)' \/ <<t, i>> \in compl') <=> i \in Sent(t)'
        BY Zenon, <2>0, <3>2, <3>5 DEF BatchInv
      <4>2. \A i \in 1 .. Len(msgs'[t]) : i \in 1 .. Len(msgs[t])
        BY <3>2, <3>3
      <4>3. \A i \in 1 .. Len(msgs'[t]) : <<t, i>> \in live'
        BY Zenon, <3>2, <4>2 DEF BatchInv
      <4>4. QED
        BY Zenon, <3>1, <3>4, <4>1, <4>3 DEF BatchInv
    <3>7. QED
      BY Zenon, <2>3, <3>1, <3>4, <3>6 DEF ThreadInv
  <2>4. QED
    BY <2>1, <2>2, <2>3
<1>5. QED
  BY Zenon, <1>1, <1>2, <1>3, <1>4 DEF IInv

\* A call returns: all it has sent is completed, so nothing points to its
\* requests any more.
LEMMA ReturnStep ==
    ASSUME IInv, NEW t \in Thread, Return(t)
    PROVE  IInv'
<1>0. /\ FunType /\ TcsInv /\ ReqInv /\ ThreadInv(t) /\ pc[t] = "wait"
      /\ \A i \in 1 .. Len(msgs[t]) : <<t, i>> \in compl
  BY DEF IInv, Return
<1>1. /\ live' = live \ Owned(t) /\ compl' = compl \ Owned(t)
      /\ pc' = [pc EXCEPT ![t] = IF kind[t] = "commit" THEN "v_ws" ELSE "idle"]
      /\ EndCall(t) /\ TcsSame /\ tcs' = tcs
  BY DEF Return, drvVars, hwVars, isr, TcsSame
<1>2. /\ FunType' /\ OnlyThread(t) /\ pc'[t] \in {"v_ws", "idle"}
      /\ kind'[t] = "sync" /\ msgs'[t] = <<>> /\ k'[t] = 0
  BY Zenon, <1>0, <1>1 DEF FunType, OnlyThread, EndCall
<1>3. TcsInv'
  BY <1>0, <1>1, <1>2, TcsFrame
<1>4. ASSUME NEW r, Pending(r) PROVE r \notin Owned(t)
  <2>1. SUFFICES ASSUME NEW i \in Nat \ {0}, r = <<t, i>> PROVE FALSE
    BY DEF Owned
  <2>2. kind[t] # "async" /\ Calling(t) /\ Sent(t) = 1 .. Len(msgs[t])
    BY <1>0 DEF ThreadInv, AsyncInv, Calling, Sent
  <2>3. i \in 1 .. Len(msgs[t])
    BY Zenon, <1>0, <1>4, <2>1, <2>2 DEF ThreadInv, BatchInv
  <2>4. r \notin compl
    BY Zenon, <1>0, <1>4 DEF ReqInv, Pending
  <2>5. QED
    BY <1>0, <2>1, <2>3, <2>4
<1>5. ReqInv'
  <2>1. /\ \A m \in in_use : req[m] \notin Owned(t)
        /\ at = "done" => done_req \notin Owned(t)
    BY <1>4 DEF Pending
  <2>2. QED
    BY Zenon, <1>0, <1>1, <2>1 DEF ReqInv, TcsSame
<1>6. ASSUME NEW u \in Thread PROVE ThreadInv(u)'
  <2>0. ThreadInv(u) /\ \A r : Pending(r)' <=> Pending(r)
    BY <1>1 DEF IInv, Pending, TcsSame
  <2>1. CASE u # t
    <3>1. \A i \in Nat : <<u, i>> \notin Owned(t)
      BY <2>1 DEF Owned
    <3>2. QED
      BY Zenon, <2>0, <2>1, <3>1, <1>1, <1>2, ThreadFrame DEF OnlyThread
  <2>2. CASE u = t
    <3>1. ThreadType(t)' /\ ~Calling(t)'
      BY Zenon, <1>2, EndedType
    <3>2. \A i \in Nat \ {0} : <<t, i>> \notin live'
      BY <1>1 DEF Owned
    <3>3. QED
      BY <2>2, <3>1, <3>2, <1>2 DEF ThreadInv, BatchInv
  <2>3. QED
    BY <2>1, <2>2
<1>7. QED
  BY <1>2, <1>3, <1>5, <1>6 DEF IInv

-----------------------------------------------------------------------------
(* rpmh_rsc_send_data: a TCS is claimed for a request, written, triggered *)

\* The request a thread is about to send is alive and nowhere yet.
LEMMA CurIsNew ==
    ASSUME NEW t \in Thread, ThreadInv(t), pc[t] \in Sending, ReqInv
    PROVE  Cur(t) \in live \ compl /\ ~Pending(Cur(t)) /\ Cur(t) \in Thread \X Nat
<1>1. CASE kind[t] = "async"
  <2>1. Cur(t) = <<t, 0>>
    BY <1>1 DEF Cur
  <2>2. QED
    BY <1>1, <2>1 DEF ThreadInv, AsyncInv, ReqInv, Sending
<1>2. CASE kind[t] # "async"
  <2>1. Cur(t) = <<t, k[t]>> /\ k[t] \in Nat \ {0} /\ k[t] \in 1 .. Len(msgs[t])
    <3>1. Cur(t) = <<t, k[t]>> /\ k[t] \in 1 .. Len(msgs[t]) /\ Len(msgs[t]) \in Nat
      BY Zenon, <1>2 DEF Cur, ThreadInv, ThreadType, BatchInv, Calling, Sending
    <3>2. \A n \in Nat : \A j \in 1 .. n : j \in Nat \ {0}
      OBVIOUS
    <3>3. QED
      BY Zenon, <3>1, <3>2
  <2>2. k[t] \notin Sent(t)
    BY <2>1 DEF Sent, Sending
  <2>3. QED
    BY <1>2, <2>1, <2>2 DEF ThreadInv, BatchInv, Calling, Sending
<1>3. QED
  BY <1>1, <1>2

\* A TCS is claimed for the current request of t.
LEMMA ClaimStep ==
    ASSUME IInv, NEW t \in Thread, Claim(t)
    PROVE  IInv'
<1>0. FunType /\ TcsInv /\ ReqInv /\ ThreadInv(t) /\ pc[t] = "claim"
  BY DEF IInv, Claim
<1>1. PICK m \in Free :
         /\ in_use' = in_use \union {m} /\ req' = [req EXCEPT ![m] = Cur(t)]
         /\ tcs' = [tcs EXCEPT ![t] = m]
  BY Zenon DEF Claim
<1>2. /\ pc' = [pc EXCEPT ![t] = "arm"] /\ \A u \in Thread : pc[u] # "arm"
      /\ UNCHANGED <<rsc, kind, msgs, k, live, compl, busy, irq_status,
                     at, todo, done_tcs, done_req>>
  BY DEF Claim, LockFree, hwVars, reqVars, isr
<1>3. m \in AllTcs /\ m \notin in_use
  BY DEF Free, AllTcs, ActiveGroup, Group
<1>4. /\ FunType' /\ pc'[t] = "arm" /\ tcs'[t] = m
      /\ \A u \in Thread \ {t} : pc'[u] = pc[u] /\ tcs'[u] = tcs[u]
  BY Zenon, <1>0, <1>1, <1>2 DEF FunType
<1>5. /\ req'[m] = Cur(t) /\ \A n \in in_use : n # m /\ req'[n] = req[n]
      /\ DOMAIN req' = AllTcs /\ req' = [n \in AllTcs |-> req'[n]]
  BY <1>0, <1>1, <1>3 DEF TcsInv
<1>6. Cur(t)' = Cur(t)
  BY <1>2 DEF Cur
<1>7. Cur(t) \in live \ compl /\ ~Pending(Cur(t)) /\ Cur(t) \in Thread \X Nat
  BY <1>0, CurIsNew DEF Sending
<1>8. TcsInv'
  <2>1. AllTcs' = AllTcs
    BY <1>2, SameTcs
  <2>2. /\ in_use' \subseteq AllTcs' /\ DOMAIN req' = AllTcs' /\ req' = [n \in AllTcs' |-> req'[n]]
        /\ busy' \subseteq in_use' /\ irq_status' \subseteq in_use' /\ todo' \subseteq irq_status'
        /\ (busy \intersect irq_status)' = {}
        /\ at' \in {"idle", "disable", "reclaim", "done"}
    BY <2>1, <1>0, <1>1, <1>2, <1>3, <1>5 DEF TcsInv
  <2>3. at' \in {"disable", "reclaim"} =>
          done_tcs' \in irq_status' \ todo' /\ done_req' = req'[done_tcs']
    BY <1>0, <1>2, <1>5 DEF TcsInv
  <2>4. \A u \in Thread : pc'[u] = "arm" => u = t
    BY <1>2, <1>4
  <2>5. tcs'[t] \in in_use' \ (busy \union irq_status)' /\ req'[tcs'[t]] = Cur(t)'
    BY <1>0, <1>1, <1>2, <1>3, <1>4, <1>5, <1>6 DEF TcsInv
  <2>6. QED
    BY <2>2, <2>3, <2>4, <2>5 DEF TcsInv
<1>9. ReqInv'
  <2>1. \A n \in in_use : req[n] # Cur(t)
    BY <1>7 DEF Pending
  <2>2. at = "done" => done_req # Cur(t)
    BY <1>7 DEF Pending
  <2>3. QED
    BY <2>1, <2>2, <1>0, <1>1, <1>2, <1>5, <1>7 DEF ReqInv
<1>10. \A r : Pending(r)' <=> Pending(r) \/ r = Cur(t)
  BY <1>1, <1>2, <1>5 DEF Pending
<1>11. ASSUME NEW u \in Thread PROVE ThreadInv(u)'
  <2>0. ThreadInv(u)
    BY DEF IInv
  <2>1. CASE u # t
    <3>1. \A i \in Nat : <<u, i>> # Cur(t)
      BY <2>1 DEF Cur
    <3>2. QED
      BY Zenon, <2>0, <2>1, <3>1, <1>2, <1>4, <1>10, ThreadFrame
  <2>2. CASE u = t
    <3>1. Calling(t) /\ Calling(t)' /\ ThreadType(t)'
      BY Zenon, <1>0, <1>2, <1>4 DEF ThreadInv, ThreadType, Calling, Sending, Listed, Step0
    <3>2. kind[t] = "async" => AsyncInv(t)'
      BY Zenon, <1>0, <1>2, <1>4 DEF ThreadInv, AsyncInv
    <3>3. ASSUME kind[t] # "async" PROVE BatchInv(t)'
      <4>1. BatchInv(t) /\ k[t] \in 1 .. Len(msgs[t]) /\ Len(msgs[t]) \in Nat
        BY Zenon, <1>0, <3>1, <3>3 DEF ThreadInv, ThreadType, BatchInv
      <4>2. Cur(t) = <<t, k[t]>> /\ Sent(t) = 1 .. k[t] - 1 /\ Sent(t)' = 1 .. k[t]
        BY <1>0, <1>2, <1>4, <3>3 DEF Cur, Sent
      <4>3. \A i \in Nat \ {0} :
              (Pending(<<t, i>>)' \/ <<t, i>> \in compl') <=> i \in Sent(t)'
        BY <4>1, <4>2, <3>1, <1>2, <1>10 DEF BatchInv
      <4>4. QED
        BY Zenon, <4>1, <4>3, <3>1, <1>2, <1>4 DEF BatchInv
    <3>4. QED
      BY <2>2, <3>1, <3>2, <3>3, <1>2 DEF ThreadInv
  <2>3. QED
    BY <2>1, <2>2
<1>12. QED
  BY <1>4, <1>8, <1>9, <1>11 DEF IInv

\* The TCS is triggered: the call goes on with the next message, waits, or
\* returns if it is asynchronous.
LEMMA ArmStep ==
    ASSUME IInv, NEW t \in Thread, Arm(t)
    PROVE  IInv'
<1>0. FunType /\ TcsInv /\ ReqInv /\ ThreadInv(t) /\ pc[t] = "arm"
  BY Zenon DEF IInv, Arm
<1>1. /\ busy' = busy \union {tcs[t]} /\ tcs' = [tcs EXCEPT ![t] = None]
      /\ UNCHANGED <<rsc, live, compl, in_use, req, irq_status, at, todo,
                     done_tcs, done_req>>
  BY Zenon DEF Arm, reqVars, isr
<1>2. \/ /\ k[t] < Len(msgs[t]) /\ pc' = [pc EXCEPT ![t] = SendEntry]
         /\ k' = [k EXCEPT ![t] = @ + 1] /\ UNCHANGED <<kind, msgs>>
      \/ /\ ~(k[t] < Len(msgs[t])) /\ kind[t] = "async"
         /\ pc' = [pc EXCEPT ![t] = "idle"] /\ EndCall(t)
      \/ /\ ~(k[t] < Len(msgs[t])) /\ kind[t] # "async"
         /\ pc' = [pc EXCEPT ![t] = "wait"] /\ UNCHANGED <<kind, msgs, k>>
  BY Zenon DEF Arm
<1>3. FunType' /\ OnlyThread(t) /\ pc'[t] # "arm"
  BY Zenon, <1>0, <1>1, <1>2 DEF FunType, OnlyThread, EndCall, SendEntry
<1>4. TcsInv'
  <2>1. tcs[t] \in in_use \ irq_status
    BY <1>0 DEF TcsInv
  <2>2. \A u \in Thread : pc'[u] # "arm"
    BY <1>0, <1>3 DEF TcsInv, OnlyThread
  <2>3. QED
    BY <1>0, <1>1, <2>1, <2>2, SameTcs DEF TcsInv
<1>5. ReqInv'
  BY Zenon, <1>0, <1>1 DEF ReqInv
<1>6. ASSUME NEW u \in Thread PROVE ThreadInv(u)'
  <2>0. ThreadInv(u) /\ \A r : Pending(r)' <=> Pending(r)
    BY <1>1 DEF IInv, Pending
  <2>1. CASE u # t
    BY Zenon, <2>0, <2>1, <1>1, <1>3, ThreadFrame DEF OnlyThread
  <2>2. CASE u = t /\ kind[t] = "async"
    <3>1. AsyncInv(t)
      BY <1>0, <2>2 DEF ThreadInv
    <3>2. pc'[t] = "idle" /\ kind'[t] = "sync" /\ msgs'[t] = <<>> /\ k'[t] = 0
      <4>1. ~(k[t] < Len(msgs[t]))
        BY <3>1 DEF AsyncInv
      <4>2. pc' = [pc EXCEPT ![t] = "idle"] /\ EndCall(t)
        BY <1>2, <2>2, <4>1
      <4>3. QED
        BY <1>0, <4>2 DEF FunType, EndCall
    <3>3. ThreadType(t)' /\ ~Calling(t)'
      BY Zenon, <3>2, EndedType
    <3>4. BatchInv(t)'
      BY Zenon, <3>1, <3>3, <1>1 DEF AsyncInv, BatchInv
    <3>5. QED
      BY <2>2, <3>2, <3>3, <3>4 DEF ThreadInv
  <2>3. CASE u = t /\ kind[t] # "async"
    <3>1. /\ BatchInv(t) /\ Calling(t) /\ kind'[t] = kind[t] /\ msgs'[t] = msgs[t]
          /\ k[t] \in 1 .. Len(msgs[t]) /\ Len(msgs[t]) \in Nat
          /\ kind[t] # "failed" /\ Sent(t) = 1 .. k[t]
      BY Zenon, <1>0, <1>2, <2>3 DEF ThreadInv, ThreadType, BatchInv, Calling, Sent, Sending
    <3>2. \/ pc'[t] \in Sending /\ k'[t] = k[t] + 1 /\ k[t] < Len(msgs[t])
          \/ pc'[t] = "wait" /\ k'[t] = k[t] /\ k[t] = Len(msgs[t])
      <4>1. /\ SendEntry \in Sending /\ pc = [u_1 \in Thread |-> pc[u_1]]
            /\ k = [u_1 \in Thread |-> k[u_1]]
        BY Zenon, <1>0 DEF FunType, SendEntry, Sending
      <4>2. CASE k[t] < Len(msgs[t])
        BY Zenon, <1>2, <2>3, <4>1, <4>2
      <4>3. CASE ~(k[t] < Len(msgs[t]))
        <5>1. pc'[t] = "wait" /\ k'[t] = k[t]
          BY Zenon, <1>2, <2>3, <4>1, <4>3
        <5>2. k[t] \in 1 .. Len(msgs[t]) /\ Len(msgs[t]) \in Nat
          BY Zenon, <3>1
        <5>3. k[t] = Len(msgs[t])
          BY <4>3, <5>2
        <5>4. QED
          BY Zenon, <5>1, <5>3
      <4>4. QED
        BY Zenon, <4>2, <4>3
    <3>3. ThreadType(t)' /\ Calling(t)'
      <4>1. k'[t] \in Nat
        <5>1. k[t] \in 1 .. Len(msgs[t]) /\ Len(msgs[t]) \in Nat
          BY Zenon, <3>1
        <5>2. k'[t] = k[t] \/ k'[t] = k[t] + 1
          BY Zenon, <3>2
        <5>3. QED
          BY <5>1, <5>2
      <4>2. pc'[t] \in Sending \union {"wait"} /\ pc'[t] \notin Listed
        BY <3>2 DEF Listed, Sending
      <4>3. QED
        BY Zenon, <1>0, <2>3, <3>1, <4>1, <4>2 DEF ThreadInv, ThreadType, Calling
    <3>4. Sent(t)' = Sent(t)
      <4>1. k[t] \in Nat
        <5>1. k[t] \in 1 .. Len(msgs[t]) /\ Len(msgs[t]) \in Nat
          BY Zenon, <3>1
        <5>2. QED
          BY <5>1
      <4>2. CASE pc'[t] \in Sending /\ k'[t] = k[t] + 1
        <5>1. pc'[t] # "wait" /\ pc'[t] # "arm"
          BY <4>2 DEF Sending
        <5>2. Sent(t)' = 1 .. k'[t] - 1
          BY Zenon, <5>1 DEF Sent
        <5>3. k'[t] - 1 = k[t]
          BY <4>1, <4>2
        <5>4. QED
          BY Zenon, <3>1, <5>2, <5>3
      <4>3. CASE pc'[t] = "wait" /\ k[t] = Len(msgs[t])
        BY Zenon, <3>1, <4>3 DEF Sent
      <4>4. QED
        BY Zenon, <3>2, <4>2, <4>3
    <3>5. BatchInv(t)'
      <4>1. \A i \in Nat \ {0} : (Pending(<<t, i>>)' \/ <<t, i>> \in compl') <=> i \in Sent(t)'
        BY Zenon, <2>0, <1>1, <3>1, <3>4 DEF BatchInv
      <4>2. \A i \in 1 .. Len(msgs'[t]) : <<t, i>> \in live'
        BY Zenon, <1>1, <3>1 DEF BatchInv
      <4>3. pc'[t] # "wait" => k'[t] \in 1 .. Len(msgs'[t])
        <5>1. /\ k[t] \in 1 .. Len(msgs[t]) /\ Len(msgs[t]) \in Nat
              /\ Len(msgs'[t]) = Len(msgs[t])
          BY Zenon, <3>1
        <5>2. pc'[t] # "wait" => k'[t] = k[t] + 1 /\ k[t] < Len(msgs[t])
          BY Zenon, <3>2
        <5>3. QED
          BY <5>1, <5>2
      <4>4. QED
        BY Zenon, <3>3, <4>1, <4>2, <4>3 DEF BatchInv
    <3>6. QED
      BY Zenon, <2>3, <3>1, <3>3, <3>5 DEF ThreadInv
  <2>4. QED
    BY <2>1, <2>2, <2>3
<1>7. QED
  BY <1>3, <1>4, <1>5, <1>6 DEF IInv

-----------------------------------------------------------------------------
(* The hardware and the interrupt handler tcs_tx_done *)

\* Steps that move no request leave the threads' invariants as they are.
LEMMA HandlerFrame ==
    ASSUME IInv, UNCHANGED <<threadVars, live, compl>>,
           \A r : Pending(r)' <=> Pending(r), TcsInv', ReqInv'
    PROVE  IInv'
<1>1. FunType'
  BY DEF IInv, FunType, threadVars
<1>2. ASSUME NEW u \in Thread PROVE ThreadInv(u)'
  BY Zenon, ThreadFrame DEF IInv, threadVars
<1>3. QED
  BY <1>1, <1>2 DEF IInv

\* The RSC finishes a TCS; the handler turns to one and disables its interrupt.
LEMMA StatusStep ==
    ASSUME IInv, (\E m \in AllTcs : TcsComplete(m) \/ TxDone(m)) \/ TxDisable
    PROVE  IInv'
<1>0. TcsInv /\ ReqInv
  BY DEF IInv
<1>1. ASSUME NEW m \in AllTcs, TcsComplete(m) PROVE IInv'
  <2>1. /\ UNCHANGED <<rsc, threadVars, live, compl, in_use, req, at, todo, done_tcs, done_req>>
        /\ m \in busy /\ busy' = busy \ {m} /\ irq_status' = irq_status \union {m}
    BY <1>1 DEF TcsComplete, reqVars, drvVars, isr
  <2>2. TcsInv'
    BY Zenon, <1>0, <2>1, SameTcs DEF TcsInv, threadVars, Cur
  <2>3. ReqInv' /\ \A r : Pending(r)' <=> Pending(r)
    BY Zenon, <1>0, <2>1 DEF ReqInv, Pending
  <2>4. QED
    BY <2>1, <2>2, <2>3, HandlerFrame
<1>2. ASSUME NEW m \in AllTcs, TxDone(m) PROVE IInv'
  <2>1. /\ UNCHANGED <<rsc, threadVars, live, compl, in_use, req, busy, irq_status>>
        /\ at = "idle" /\ at' \in {"disable", "reclaim"}
        /\ m \in Raised /\ todo' = Raised \ {m} /\ done_tcs' = m /\ done_req' = req[m]
    BY Zenon, <1>2 DEF TxDone, reqVars, drvVars, hwVars
  <2>2. Raised \subseteq irq_status
    BY <1>0 DEF Raised, TcsInv
  <2>3. TcsInv'
    BY Zenon, <1>0, <2>1, <2>2, SameTcs DEF TcsInv, threadVars, Cur
  <2>4. ReqInv' /\ \A r : Pending(r)' <=> Pending(r)
    BY Zenon, <1>0, <2>1 DEF ReqInv, Pending
  <2>5. QED
    BY <2>1, <2>3, <2>4, HandlerFrame
<1>3. ASSUME TxDisable PROVE IInv'
  <2>1. /\ UNCHANGED <<rsc, threadVars, live, compl, in_use, req, busy, irq_status,
                       todo, done_tcs, done_req>>
        /\ at = "disable" /\ at' = "reclaim"
    BY <1>3 DEF TxDisable, reqVars, hwVars
  <2>2. TcsInv'
    BY Zenon, <1>0, <2>1, SameTcs DEF TcsInv, threadVars, Cur
  <2>3. ReqInv' /\ \A r : Pending(r)' <=> Pending(r)
    BY Zenon, <1>0, <2>1 DEF ReqInv, Pending
  <2>4. QED
    BY <2>1, <2>2, <2>3, HandlerFrame
<1>4. QED
  BY <1>1, <1>2, <1>3

\* The TCS is free again while the handler still holds its request.
LEMMA ReclaimStep ==
    ASSUME IInv, TxReclaim
    PROVE  IInv'
<1>0. TcsInv /\ ReqInv
  BY DEF IInv
<1>1. /\ UNCHANGED <<rsc, threadVars, live, compl, req, busy, todo, done_tcs, done_req>>
      /\ at = "reclaim" /\ at' = "done" /\ \A t \in Thread : pc[t] # "arm"
      /\ irq_status' = irq_status \ {done_tcs} /\ in_use' = in_use \ {done_tcs}
  BY DEF TxReclaim, LockFree, reqVars
<1>2. done_tcs \in irq_status \ todo /\ done_tcs \in in_use \ busy /\ done_req = req[done_tcs]
  BY <1>0, <1>1 DEF TcsInv
<1>3. TcsInv'
  BY <1>0, <1>1, <1>2, SameTcs DEF TcsInv, threadVars
<1>4. ReqInv'
  BY Zenon, <1>0, <1>1, <1>2 DEF ReqInv
<1>5. \A r : Pending(r)' <=> Pending(r)
  BY <1>1, <1>2 DEF Pending
<1>6. QED
  BY <1>1, <1>3, <1>4, <1>5, HandlerFrame

\* rpmh_tx_done: the request is completed, or freed.
LEMMA FinishStep ==
    ASSUME IInv, TxFinish
    PROVE  IInv'
<1>0. TcsInv /\ ReqInv /\ FunType
  BY DEF IInv
<1>1. /\ UNCHANGED <<rsc, threadVars, in_use, req, busy, irq_status, todo>>
      /\ at = "done" /\ at' = "idle"
      /\ done_req[2] = 0 => live' = live \ {done_req} /\ compl' = compl
      /\ done_req[2] # 0 => compl' = compl \union {done_req} /\ live' = live
  BY DEF TxFinish, drvVars, hwVars
<1>2. done_req \in live \ compl /\ done_req \in Thread \X Nat
  BY <1>0, <1>1 DEF ReqInv
<1>3. FunType'
  BY <1>0, <1>1 DEF FunType, threadVars
<1>4. TcsInv'
  BY <1>0, <1>1, SameTcs DEF TcsInv, threadVars, Cur
<1>5. ReqInv'
  <2>1. \A m \in in_use : req[m] # done_req
    BY <1>0, <1>1 DEF ReqInv
  <2>2. done_req[2] # 0 => done_req \in Thread \X (Nat \ {0})
    BY <1>2
  <2>3. done_req[2] = 0 => \A r \in compl : r # done_req
    BY <1>2
  <2>4. QED
    BY <1>0, <1>1, <1>2, <2>1, <2>2, <2>3 DEF ReqInv
<1>6. \A r : Pending(r)' <=> Pending(r) /\ r # done_req
  BY <1>0, <1>1 DEF Pending, ReqInv
<1>7. ASSUME NEW u \in Thread PROVE ThreadInv(u)'
  <2>0. ThreadInv(u) /\ Pending(done_req)
    BY <1>1 DEF IInv, Pending
  <2>1. /\ pc'[u] = pc[u] /\ kind'[u] = kind[u] /\ msgs'[u] = msgs[u] /\ k'[u] = k[u]
        /\ ThreadType(u)' /\ (Calling(u)' <=> Calling(u)) /\ Sent(u)' = Sent(u)
    BY Zenon, <2>0, <1>1 DEF ThreadInv, ThreadType, Calling, Sent, threadVars
  <2>2. \A i \in Nat \ {0} : <<u, i>> \in live' <=> <<u, i>> \in live
    BY <1>1, <1>2
  <2>3. ASSUME kind[u] = "async" PROVE AsyncInv(u)'
    <3>1. AsyncInv(u) /\ Calling(u)
      BY <2>0, <2>3 DEF ThreadInv, ThreadType
    <3>2. done_req # <<u, 0>>
      <4>1. CASE pc[u] = "arm"
        <5>1. tcs[u] \in in_use /\ req[tcs[u]] = <<u, 0>>
          BY <4>1, <2>3, <1>0 DEF TcsInv, Cur
        <5>2. QED
          BY <5>1, <1>0, <1>1 DEF ReqInv
      <4>2. CASE pc[u] # "arm"
        BY <4>2, <3>1, <2>0 DEF AsyncInv
      <4>3. QED
        BY <4>1, <4>2
    <3>3. <<u, 0>> \in live'
      BY <3>1, <3>2, <1>1 DEF AsyncInv
    <3>4. QED
      BY Zenon, <3>1, <3>3, <2>1, <2>2, <1>6 DEF AsyncInv
  <2>4. ASSUME kind[u] # "async" PROVE BatchInv(u)'
    <3>1. BatchInv(u) /\ Len(msgs[u]) \in Nat
      BY Zenon, <2>0, <2>4 DEF ThreadInv, ThreadType
    <3>2. \A i \in Nat \ {0} :
            (Pending(<<u, i>>)' \/ <<u, i>> \in compl') <=>
            (Pending(<<u, i>>) \/ <<u, i>> \in compl)
      BY <2>0, <1>1, <1>2, <1>6
    <3>3. msgs'[u] = msgs[u] /\ pc'[u] = pc[u] /\ k'[u] = k[u] /\ Sent(u)' = Sent(u) /\ (Calling(u)' <=> Calling(u))
      BY Zenon, <2>1
    <3>4. ASSUME Calling(u)'
          PROVE  /\ \A i \in 1 .. Len(msgs'[u]) : <<u, i>> \in live'
                 /\ pc'[u] # "wait" => k'[u] \in 1 .. Len(msgs'[u])
                 /\ \A i \in Nat \ {0} :
                      (Pending(<<u, i>>)' \/ <<u, i>> \in compl') <=> i \in Sent(u)'
      <4>1. /\ \A i \in 1 .. Len(msgs[u]) : <<u, i>> \in live
            /\ pc[u] # "wait" => k[u] \in 1 .. Len(msgs[u])
            /\ \A i \in Nat \ {0} :
                 (Pending(<<u, i>>) \/ <<u, i>> \in compl) <=> i \in Sent(u)
        BY Zenon, <3>1, <3>3, <3>4 DEF BatchInv
      <4>2. \A i \in 1 .. Len(msgs[u]) : i \in Nat \ {0}
        BY <3>1
      <4>3. QED
        BY Zenon, <2>2, <3>2, <3>3, <4>1, <4>2
    <3>5. ASSUME ~Calling(u)' PROVE \A i \in Nat \ {0} : <<u, i>> \notin live'
      BY Zenon, <2>2, <3>1, <3>3, <3>5 DEF BatchInv
    <3>6. QED
      BY Zenon, <3>4, <3>5 DEF BatchInv
  <2>5. QED
    BY <2>1, <2>3, <2>4 DEF ThreadInv
<1>8. QED
  BY <1>3, <1>4, <1>5, <1>7 DEF IInv

-----------------------------------------------------------------------------
(* The steps of Next, and the theorems. *)

\* The steps of the voter outside rpmh_rsc_send_data.
LEMMA VoterStep ==
    ASSUME RpmhAssumption, IInv,
           (\E S \in Changes, vote \in Votes : Commit(S, vote))
           \/ VoterInvalidate \/ VoterActive \/ VoterCache
    PROVE  IInv'
<1>0. FunType /\ Voter \in Thread /\ ThreadType(Voter)
  BY DEF IInv, ThreadInv, Thread
<1>1. ASSUME NEW S \in Changes, NEW vote \in Votes, Commit(S, vote) PROVE IInv'
  <2>1. PICK count \in 1 .. Len(Bcm) :
               msgs' = [msgs EXCEPT ![Voter] = [i \in 1 .. count |-> Message(S, votes', 1, i)]]
    BY Zenon, <1>1 DEF Commit, Messages
  <2> DEFINE list == [i \in 1 .. count |-> Message(S, votes', 1, i)]
  <2>2. count \in Nat /\ count > 0
    BY DEF RpmhAssumption
  <2>3. list = [i \in 1 .. count |-> list[i]]
    OBVIOUS
  <2> HIDE DEF list
  <2>4. IsSeq(list) /\ Len(list) \in Nat /\ Len(list) > 0
    BY <2>2, <2>3, FunIsSeq
  <2>5. msgs' = [msgs EXCEPT ![Voter] = list]
    BY <2>1 DEF list
  <2>6. /\ pc[Voter] = "idle" /\ pc' = [pc EXCEPT ![Voter] = "v_sleep"]
        /\ UNCHANGED <<kind, k, tcs, live, compl, in_use, req, busy, irq_status,
                       at, todo, done_tcs, done_req, rsc>>
    BY Zenon, <1>1 DEF Commit, reqVars, drvVars, hwVars, isr
  <2>7. QED
    BY Zenon, <2>6, <2>4, <2>5, VoterMoves DEF Step0
<1>2. msgs = [msgs EXCEPT ![Voter] = msgs[Voter]]
  BY <1>0 DEF FunType
<1>3. IsSeq(msgs[Voter]) /\ Len(msgs[Voter]) \in Nat
      /\ (pc[Voter] \in Listed => Len(msgs[Voter]) > 0)
  BY <1>0 DEF ThreadType
<1>4. ASSUME VoterInvalidate PROVE IInv'
  <2>1. PICK q \in Listed : pc' = [pc EXCEPT ![Voter] = q]
    BY Zenon, <1>4 DEF VoterInvalidate, Listed
  <2>2. /\ pc[Voter] \in Listed
        /\ UNCHANGED <<kind, msgs, k, tcs, live, compl, in_use, req, busy, irq_status,
                       at, todo, done_tcs, done_req, rsc>>
    BY <1>4 DEF VoterInvalidate, Listed, reqVars, drvVars, hwVars, isr
  <2>3. QED
    BY Zenon, <1>2, <1>3, <2>1, <2>2, VoterMoves DEF Step0, Listed
<1>5. ASSUME VoterActive PROVE IInv'
  <2>0. pc[Voter] \in Listed /\ pc[Voter] \in Step0 /\ TcsSame
    BY <1>5 DEF VoterActive, Listed, Step0, TcsSame, drvVars, hwVars, isr
  <2>1. CASE solver
    <3>1. /\ pc' = [pc EXCEPT ![Voter] = "v_ws"] /\ msgs' = [msgs EXCEPT ![Voter] = <<>>]
          /\ UNCHANGED <<kind, k, tcs, live, compl>>
      BY <1>5, <2>1 DEF VoterActive, reqVars
    <3>2. IsSeq(<<>>) /\ Len(<<>>) \in Nat
      BY DEF IsSeq
    <3>3. QED
      BY Zenon, <2>0, <3>1, <3>2, VoterMoves DEF TcsSame, Step0, Listed
  <2>2. CASE ~solver
    <3>1. Start(Voter, "commit", msgs[Voter])
      BY <1>5, <2>2 DEF VoterActive
    <3>2. QED
      BY Zenon, <1>0, <1>3, <2>0, <3>1, StartStep
  <2>3. QED
    BY <2>1, <2>2
<1>6. ASSUME VoterCache PROVE IInv'
  <2>1. /\ pc[Voter] = "v_ws" /\ pc' = [pc EXCEPT ![Voter] = "idle"]
        /\ UNCHANGED <<kind, msgs, k, tcs, live, compl, in_use, req, busy, irq_status,
                       at, todo, done_tcs, done_req, rsc>>
    BY Zenon, <1>6 DEF VoterCache, reqVars, drvVars, hwVars, isr
  <2>2. QED
    BY <1>2, <1>3, <2>1, VoterMoves DEF Step0, Listed
<1>7. QED
  BY <1>1, <1>4, <1>5, <1>6

\* The steps of a thread inside a call.
LEMMA CallStep ==
    ASSUME IInv, NEW t \in Thread, Step(t)
    PROVE  IInv'
<1>1. CASE SendInvalidate(t)
  <2>0. pc[t] \in Sending /\ UNCHANGED <<tcs, live, compl>> /\ TcsSame
    BY <1>1 DEF SendInvalidate, Sending, TcsSame, reqVars, drvVars, hwVars, isr
  <2>1. \/ /\ \E q \in Sending : pc' = [pc EXCEPT ![t] = q]
           /\ UNCHANGED <<kind, msgs, k>>
        \/ Fail(t)
    BY <1>1 DEF SendInvalidate, Sending
  <2>2. QED
    BY <2>0, <2>1, RetryStep, FailStep
<1>2. CASE ClaimRefused(t)
  <2>1. pc[t] \in Sending /\ UNCHANGED <<tcs, live, compl>> /\ TcsSame /\ Fail(t)
    BY <1>2 DEF ClaimRefused, Sending, TcsSame, reqVars, drvVars, hwVars, isr
  <2>2. QED
    BY <2>1, FailStep
<1>3. CASE ClaimBusy(t)
  <2>1. /\ pc[t] \in Sending /\ UNCHANGED <<kind, msgs, k, tcs, live, compl>> /\ TcsSame
        /\ SendEntry \in Sending /\ pc' = [pc EXCEPT ![t] = SendEntry]
    BY <1>3 DEF ClaimBusy, SendEntry, Sending, TcsSame, reqVars, drvVars, hwVars, isr
  <2>2. QED
    BY Zenon, <2>1, RetryStep
<1>4. QED
  BY <1>1, <1>2, <1>3, ClaimStep, ArmStep, ReturnStep DEF Step

\* rpmh_write and rpmh_write_async of an active vote.
LEMMA WriteStep ==
    ASSUME IInv, NEW t \in Thread, NEW v, NEW knd \in {"sync", "async"},
           WriteActive(t, v, knd)
    PROVE  IInv'
<1> DEFINE list == <<<<[addr |-> AddrOf[t], data |-> v]>>>>
<1>1. IsSeq(list) /\ Len(list) = 1
  BY DEF IsSeq
<1> HIDE DEF list
<1>2. Start(t, knd, list)
  BY DEF WriteActive, list
<1>3. pc[t] \in Step0 /\ (knd = "async" => <<t, 0>> \notin live) /\ TcsSame
  BY DEF WriteActive, Step0, TcsSame, drvVars, hwVars, isr
<1>4. QED
  BY <1>1, <1>2, <1>3, StartStep

\* The invariant is inductive.
LEMMA InvStep ==
    ASSUME RpmhAssumption, IInv, [Next]_vars
    PROVE  IInv'
<1>1. CASE UNCHANGED vars
  BY <1>1, Unrelated DEF vars, threadVars, reqVars, drvVars, hwVars, isr, invVars
<1>2. ASSUME NEW t \in Writer, NEW v \in Val, NEW state \in {"sleep", "wake"},
             WriteCached(t, state, v)
      PROVE  IInv'
  BY <1>2, Unrelated DEF WriteCached, threadVars, reqVars, drvVars, hwVars, isr, invVars
<1>3. ASSUME NEW t \in Writer, NEW v \in Val, NEW knd \in {"sync", "async"},
             WriteActive(t, v, knd)
      PROVE  IInv'
  BY <1>3, WriteStep DEF Thread
<1>4. CASE SolverSet \/ Flush
  BY Zenon, <1>4, Unrelated DEF SolverSet, Flush, threadVars, reqVars, drvVars, hwVars, isr, invVars
<1>5. QED
  BY <1>1, <1>2, <1>3, <1>4, VoterStep, CallStep, StatusStep, ReclaimStep, FinishStep
     DEF Next, Step

\* What tcs_tx_done signals or frees is a request in memory that is still
\* there and has not been completed, for every number of threads and TCSs: no
\* completion of a call that has returned, no second kfree.
THEOREM RequestsAlive == Spec => []NoStaleRequest
<1>1. IInv => NoStaleRequest
  <2>1. SUFFICES ASSUME IInv PROVE NoStaleRequest
    OBVIOUS
  <2>2. TcsInv /\ ReqInv
    BY <2>1 DEF IInv
  <2>3. ASSUME at \in {"disable", "reclaim"} PROVE done_req \in live \ compl
    <3>1. done_tcs \in irq_status /\ irq_status \subseteq in_use /\ done_req = req[done_tcs]
      BY <2>2, <2>3 DEF TcsInv
    <3>2. QED
      BY <2>2, <3>1 DEF ReqInv
  <2>4. at \in {"idle", "disable", "reclaim", "done"}
    BY <2>2 DEF TcsInv
  <2>5. QED
    BY <2>2, <2>3, <2>4 DEF ReqInv, NoStaleRequest
<1>2. QED
  BY <1>1, InvInit, InvStep, RpmhAssumption, PTL DEF Spec

\* A call that waits in rpmh_write or rpmh_write_batch waits for requests that
\* have been completed, are at a TCS in use, or are with the handler.
THEOREM WaitersServed == Spec => []WaitIsServed
<1>1. IInv => WaitIsServed
  <2>1. SUFFICES ASSUME IInv, NEW t \in Thread, pc[t] = "wait",
                        NEW i \in 1 .. Len(msgs[t])
                 PROVE  Pending(<<t, i>>) \/ <<t, i>> \in compl
    BY Zenon DEF WaitIsServed, Pending
  <2>2. BatchInv(t) /\ Len(msgs[t]) \in Nat /\ Calling(t)
    BY Zenon, <2>1 DEF IInv, ThreadInv, ThreadType, AsyncInv, Calling
  <2>3. i \in Nat \ {0} /\ i \in Sent(t)
    BY <2>1, <2>2 DEF Sent
  <2>4. QED
    BY <2>2, <2>3 DEF BatchInv
<1>2. QED
  BY <1>1, InvInit, InvStep, RpmhAssumption, PTL DEF Spec

-----------------------------------------------------------------------------
(* No resource is in flight twice. *)

\* No command of a TCS is for a resource of the message.
Apart(cmds, msg) ==
    \A j \in DOMAIN cmds, i \in DOMAIN msg : cmds[j].addr # msg[i].addr

MsgInts(list) == \A i \in DOMAIN list : DOMAIN list[i] \subseteq Int

\* A TCS that is not in use and holds no cached vote has no command enabled:
\* what a thread finds in the TCS it claims is nothing.
CleanInv ==
    /\ rsc \in Rscs
    /\ regs = [m \in AllTcs |-> regs[m]] /\ slots = [g \in Group |-> slots[g]]
    /\ in_use \subseteq Tcs(ActiveGroup)
    /\ \A m \in Tcs("active") \ in_use : DOMAIN regs[m] = {}
    /\ slots["wake"] = {} => \A m \in Tcs("wake") \ in_use : DOMAIN regs[m] = {}

\* Between the claim and the trigger, the check of the TCSs in use still holds.
ClaimInv(t) ==
    /\ pc[t] \in {"claim", "arm"} /\ ActiveGroup = "wake" => slots["wake"] = {}
    /\ pc[t] = "arm" =>
         /\ DOMAIN regs[tcs[t]] = {}
         /\ \A n \in in_use : n # tcs[t] => Apart(regs[n], msgs[t][k[t]])
    /\ MsgInts(msgs[t])

\* The lists that rpmh_flush walks.
ListInv ==
    /\ IsSeq(cached)
    /\ IsSeq(batch)
    /\ \A i \in DOMAIN batch :
          batch[i].state \in {"sleep", "wake"} /\ Len(batch[i].msgs) \in Nat

FlightInv ==
    /\ CleanInv
    /\ \A t \in Thread : ClaimInv(t)
    /\ ListInv
    /\ OneInflight

\* The empty list.
LEMMA EmptyList == IsSeq(<<>>) /\ DOMAIN <<>> = {} /\ MsgInts(<<>>)
<1>1. DOMAIN <<>> = {} /\ <<>> \in Seq({})
  OBVIOUS
<1>2. {<<>>[i] : i \in DOMAIN <<>>} = {}
  BY Zenon, <1>1
<1>3. QED
  BY Zenon, <1>1, <1>2 DEF IsSeq, MsgInts

\* A sequence over a set.
LEMMA SeqOver ==
    ASSUME NEW T, NEW q \in Seq(T)
    PROVE  IsSeq(q) /\ Len(q) \in Nat /\ DOMAIN q = 1 .. Len(q) /\ \A i \in DOMAIN q : q[i] \in T
  BY DEF IsSeq

\* A thread that has not claimed a TCS.
LEMMA Unarmed ==
    ASSUME NEW t \in Thread, pc'[t] # "arm", MsgInts(msgs'[t]),
           pc'[t] = "claim" => ActiveGroup' # "wake" \/ slots'["wake"] = {}
    PROVE  ClaimInv(t)'
  BY DEF ClaimInv

\* A thread is not concerned when TCSs lose their commands.
LEMMA ClaimFrame ==
    ASSUME NEW u \in Thread, ClaimInv(u), pc[u] = "arm" => tcs[u] \in in_use,
           rsc' = rsc, in_use' = in_use, slots["wake"] = {} => slots'["wake"] = {},
           \A m \in in_use : regs'[m] = regs[m] \/ DOMAIN regs'[m] = {},
           pc'[u] = pc[u], msgs'[u] = msgs[u], k'[u] = k[u], tcs'[u] = tcs[u]
    PROVE  ClaimInv(u)'
<1>1. ActiveGroup' = ActiveGroup
  BY Zenon DEF ActiveGroup
<1>2. pc'[u] \in {"claim", "arm"} /\ ActiveGroup' = "wake" => slots'["wake"] = {}
  BY Zenon, <1>1 DEF ClaimInv
<1>3. ASSUME pc'[u] = "arm"
      PROVE  /\ DOMAIN regs'[tcs'[u]] = {}
             /\ \A n \in in_use' : n # tcs'[u] => Apart(regs'[n], msgs'[u][k'[u]])
  <2>1. /\ tcs[u] \in in_use /\ DOMAIN regs[tcs[u]] = {}
        /\ \A n \in in_use : n # tcs[u] => Apart(regs[n], msgs[u][k[u]])
    BY Zenon, <1>3 DEF ClaimInv
  <2>2. ASSUME NEW n \in in_use, Apart(regs[n], msgs[u][k[u]])
        PROVE  Apart(regs'[n], msgs[u][k[u]])
    <3>1. CASE regs'[n] = regs[n]
      BY Zenon, <2>2, <3>1
    <3>2. CASE DOMAIN regs'[n] = {}
      BY Zenon, <3>2 DEF Apart
    <3>3. QED
      BY Zenon, <3>1, <3>2
  <2>3. DOMAIN regs'[tcs[u]] = {}
    BY Zenon, <2>1
  <2>4. QED
    BY Zenon, <2>1, <2>2, <2>3
<1>4. MsgInts(msgs'[u])
  BY Zenon DEF ClaimInv
<1>5. QED
  BY Zenon, <1>2, <1>3, <1>4 DEF ClaimInv

\* tcs_invalidate leaves the TCSs of a group alone, or without commands; it
\* marks the slots free when all are without.
LEMMA Invalidated ==
    ASSUME RpmhAssumption, CleanInv, OneInflight, rsc' = rsc, in_use' = in_use,
           NEW g \in {"sleep", "wake"}, TcsInvalidate(g)
    PROVE  /\ CleanInv' /\ OneInflight'
           /\ slots["wake"] = {} => slots'["wake"] = {}
           /\ g = "wake" /\ CanInvalidate(g) => slots'["wake"] = {}
           /\ \A m \in in_use : regs'[m] = regs[m] \/ DOMAIN regs'[m] = {}
<1>1. /\ AllTcs' = AllTcs /\ ActiveGroup' = ActiveGroup /\ \A h : Tcs(h)' = Tcs(h)
      /\ in_use \subseteq AllTcs /\ "wake" \in Group /\ g \in Group
      /\ Tcs("wake") \subseteq AllTcs /\ Tcs("active") \subseteq AllTcs
  BY DEF AllTcs, Tcs, ActiveGroup, CleanInv, Group
<1>2. /\ \A m \in AllTcs : regs'[m] = regs[m] \/ DOMAIN regs'[m] = {}
      /\ regs' = [m \in AllTcs |-> regs'[m]]
  <2>1. CASE slots[g] = {}
    BY <2>1 DEF TcsInvalidate, CleanInv
  <2>2. CASE slots[g] # {}
    <3> DEFINE R(m) == IF m[1] = g /\ m[2] < FirstInUse(g) THEN Empty ELSE regs[m]
    <3>1. regs' = [m \in AllTcs |-> R(m)]
      BY <2>2 DEF TcsInvalidate
    <3>2. \A m : R(m) = regs[m] \/ DOMAIN R(m) = {}
      BY DEF Empty
    <3> HIDE DEF R
    <3>3. QED
      BY <3>1, <3>2
  <2>3. QED
    BY <2>1, <2>2
<1>3. /\ slots' = [h \in Group |-> slots'[h]]
      /\ \A h \in Group : slots'[h] = IF h = g /\ CanInvalidate(g) THEN {} ELSE slots[h]
  BY Zenon, <1>1 DEF TcsInvalidate, CleanInv
<1>4. ASSUME NEW m \in Tcs("active") \ in_use PROVE DOMAIN regs'[m] = {}
  BY Zenon, <1>1, <1>2 DEF CleanInv
<1>5. ASSUME slots'["wake"] = {}, NEW m \in Tcs("wake") \ in_use PROVE DOMAIN regs'[m] = {}
  <2>1. CASE slots["wake"] = {}
    BY Zenon, <1>1, <1>2, <2>1 DEF CleanInv
  <2>2. CASE slots["wake"] # {}
    <3>1. g = "wake" /\ CanInvalidate(g)
      BY <1>1, <1>3, <1>5, <2>2
    <3>2. FirstInUse(g) = rsc[g] /\ slots[g] # {}
      BY <2>2, <3>1 DEF CanInvalidate
    <3>3. rsc[g] \in Nat
      BY <1>1 DEF RpmhAssumption, CleanInv
    <3>4. m[1] = g /\ m[2] < rsc[g]
      BY <1>5, <3>1, <3>3 DEF Tcs
    <3>5. regs'[m] = Empty
      BY <1>1, <3>2, <3>4 DEF TcsInvalidate
    <3>6. QED
      BY <3>5 DEF Empty
  <2>3. QED
    BY <2>1, <2>2
<1>6. CleanInv'
  <2>1. rsc' \in Rscs /\ in_use' \subseteq Tcs(ActiveGroup)'
    BY <1>1 DEF CleanInv
  <2>2. QED
    BY <1>1, <1>2, <1>3, <1>4, <1>5, <2>1 DEF CleanInv
<1>7. OneInflight'
  BY <1>1, <1>2 DEF OneInflight
<1>8. QED
  BY <1>1, <1>2, <1>3, <1>6, <1>7

\* The state the invariant is about, apart from the threads.
LEMMA CleanFrame ==
    ASSUME CleanInv, OneInflight, UNCHANGED <<rsc, in_use, slots, regs>>
    PROVE  CleanInv' /\ OneInflight'
<1>1. /\ AllTcs' = AllTcs /\ ActiveGroup' = ActiveGroup /\ \A h : Tcs(h)' = Tcs(h)
  BY DEF AllTcs, Tcs, ActiveGroup
<1>2. Tcs(ActiveGroup)' = Tcs(ActiveGroup)
  BY Zenon, <1>1 DEF Tcs
<1>3. OneInflight'
  BY DEF OneInflight
<1>4. /\ rsc' \in Rscs /\ in_use' \subseteq Tcs(ActiveGroup)'
      /\ regs' = [m \in AllTcs' |-> regs'[m]] /\ slots' = [g \in Group |-> slots'[g]]
  BY <1>1, <1>2 DEF CleanInv
<1>5. /\ \A m \in Tcs("active")' \ in_use' : DOMAIN regs'[m] = {}
      /\ slots'["wake"] = {} => \A m \in Tcs("wake")' \ in_use' : DOMAIN regs'[m] = {}
  BY <1>1 DEF CleanInv
<1>6. QED
  BY Zenon, <1>3, <1>4, <1>5 DEF CleanInv

\* A thread that begins to send a message.
LEMMA EntryUnarmed ==
    ASSUME rsc' = rsc
    PROVE  /\ SendEntry # "arm"
           /\ SendEntry = "claim" => ActiveGroup' # "wake"
  BY DEF SendEntry, ActiveGroup

\* The other threads, when the TCSs stay as they are.
Others(t) ==
    \A u \in Thread \ {t} :
        pc'[u] = pc[u] /\ msgs'[u] = msgs[u] /\ k'[u] = k[u] /\ tcs'[u] = tcs[u]

\* A step of one thread that leaves the TCSs alone.
LEMMA OneThread ==
    ASSUME TcsInv, FlightInv, NEW t \in Thread, Others(t), ClaimInv(t)',
           UNCHANGED <<rsc, in_use, slots, regs>>, ListInv'
    PROVE  FlightInv'
<1>1. CleanInv' /\ OneInflight'
  BY Zenon, CleanFrame DEF FlightInv
<1>2. ASSUME NEW u \in Thread, u # t PROVE ClaimInv(u)'
  <2>1. pc'[u] = pc[u] /\ msgs'[u] = msgs[u] /\ k'[u] = k[u] /\ tcs'[u] = tcs[u]
    BY Zenon, <1>2 DEF Others
  <2>2. ClaimInv(u) /\ (pc[u] = "arm" => tcs[u] \in in_use)
    BY <1>2 DEF FlightInv, TcsInv
  <2>3. QED
    BY <2>1, <2>2, ClaimFrame
<1>3. \A u \in Thread : ClaimInv(u)'
  BY Zenon, <1>2
<1>4. QED
  BY Zenon, <1>1, <1>3 DEF FlightInv

\* A call that begins.
LEMMA StartUnarmed ==
    ASSUME FunType, NEW t \in Thread, NEW knd, NEW list, MsgInts(list), rsc' = rsc,
           Start(t, knd, list)
    PROVE  ClaimInv(t)' /\ Others(t)
<1>1. pc'[t] = SendEntry /\ msgs'[t] = list
  BY DEF Start, FunType
<1>2. ClaimInv(t)'
  BY Zenon, <1>1, EntryUnarmed, Unarmed
<1>3. Others(t)
  BY Zenon DEF Start, FunType, Others
<1>4. QED
  BY <1>2, <1>3

\* A list of messages; the messages of the voter, and the one of a writer.
LEMMA MessagesInts ==
    ASSUME NEW S, NEW vt, NEW bucket, NEW count \in Nat
    PROVE  /\ MsgInts(Messages(S, vt, bucket, count))
           /\ Len(Messages(S, vt, bucket, count)) = count
<1>1. \A i : DOMAIN Message(S, vt, bucket, i) \subseteq Int
  <2>1. SUFFICES ASSUME NEW i PROVE DOMAIN Message(S, vt, bucket, i) \subseteq Int
    OBVIOUS
  <2> DEFINE n == TcsListGen(Sorted(S))
  <2>2. DOMAIN Message(S, vt, bucket, i) = 1 .. n[i]
    BY Zenon DEF Message
  <2> HIDE DEF n
  <2>3. QED
    BY <2>2
<1>2. QED
  BY <1>1 DEF Messages, MsgInts

\* What Fail leaves is not at a TCS.
LEMMA Failed ==
    ASSUME IInv, NEW t \in Thread, Calling(t), pc[t] # "wait", MsgInts(msgs[t]), Fail(t)
    PROVE  pc'[t] # "arm" /\ pc'[t] # "claim" /\ MsgInts(msgs'[t])
           /\ \A u \in Thread \ {t} : pc'[u] = pc[u] /\ msgs'[u] = msgs[u] /\ k'[u] = k[u]
<1>1. FunType /\ ThreadInv(t)
  BY DEF IInv
<1>2. CASE kind[t] = "async"
  BY <1>1, <1>2 DEF Fail, EndCall, FunType, MsgInts
<1>3. CASE kind[t] # "async"
  <2>1. /\ pc' = [pc EXCEPT ![t] = "wait"] /\ k' = k
        /\ msgs' = [msgs EXCEPT ![t] = [i \in 1 .. k[t] - 1 |-> msgs[t][i]]]
    BY <1>3 DEF Fail
  <2>2. k[t] \in 1 .. Len(msgs[t]) /\ DOMAIN msgs[t] = 1 .. Len(msgs[t]) /\ Len(msgs[t]) \in Nat
    <3>1. BatchInv(t) /\ IsSeq(msgs[t]) /\ Len(msgs[t]) \in Nat
      BY Zenon, <1>1, <1>3 DEF ThreadInv, ThreadType
    <3>2. k[t] \in 1 .. Len(msgs[t])
      BY Zenon, <3>1 DEF BatchInv
    <3>3. QED
      BY Zenon, <3>1, <3>2, Places1
  <2>3. msgs'[t] = [i \in 1 .. k[t] - 1 |-> msgs[t][i]]
    BY <1>1, <2>1 DEF FunType
  <2>4. MsgInts(msgs'[t])
    <3> DEFINE list == msgs[t]
               n == Len(list)
               h == k[t]
    <3> HIDE DEF list, n, h
    <3>1. h \in 1 .. n /\ DOMAIN list = 1 .. n /\ n \in Nat /\ MsgInts(list)
          /\ msgs'[t] = [i \in 1 .. h - 1 |-> list[i]]
      BY Zenon, <2>2, <2>3 DEF list, n, h
    <3>2. 1 .. h - 1 \subseteq 1 .. n
      BY Zenon, <3>1, Prefix
    <3>3. QED
      BY Zenon, <3>1, <3>2 DEF MsgInts
  <2>5. QED
    BY <1>1, <2>1, <2>4 DEF FunType
<1>4. QED
  BY <1>2, <1>3

\* What is added to the lists.
LEMMA ListAdd ==
    ASSUME NEW q, IsSeq(q), NEW x
    PROVE  IsSeq(Append(q, x))
<1> DEFINE T == {q[i] : i \in DOMAIN q} \union {x}
<1>1. q \in Seq(T) /\ x \in T
  BY SMTT(20) DEF IsSeq
<1> HIDE DEF T
<1>2. Append(q, x) \in Seq(T)
  BY <1>1
<1>3. QED
  BY Zenon, <1>2, SeqOver

\* A request that is cached is put on the list once.
LEMMA CacheAdded ==
    ASSUME ListInv, NEW x, cached' = CacheAdd(x), batch' = batch
    PROVE  ListInv'
<1>1. IsSeq(cached')
  BY ListAdd DEF CacheAdd, ListInv
<1>2. QED
  BY Zenon, <1>1 DEF ListInv

\* ... and the batches of a commit are added to theirs.
LEMMA BatchAdded ==
    ASSUME ListInv, cached' = cached, NEW x, NEW y, batch' = batch \o <<x, y>>,
           \A r \in {x, y} : r.state \in {"sleep", "wake"} /\ Len(r.msgs) \in Nat
    PROVE  ListInv'
<1> DEFINE T == {batch[i] : i \in DOMAIN batch} \union {x, y}
<1>1. batch \in Seq(T) /\ x \in T /\ y \in T
  BY DEF ListInv, IsSeq
<1>2. \A r \in T : r.state \in {"sleep", "wake"} /\ Len(r.msgs) \in Nat
  BY DEF ListInv
<1> HIDE DEF T
<1>3. batch' \in Seq(T)
  BY <1>1
<1>4. IsSeq(batch') /\ \A i \in DOMAIN batch' : batch'[i] \in T
  BY Zenon, <1>3, SeqOver
<1>5. QED
  BY Zenon, <1>2, <1>4 DEF ListInv

\* A step that touches neither a TCS nor a thread.
LEMMA FlightKept ==
    ASSUME TcsInv, FlightInv, ListInv',
           UNCHANGED <<rsc, in_use, slots, regs, pc, msgs, k, tcs>>
    PROVE  FlightInv'
<1>1. CleanInv' /\ OneInflight'
  BY Zenon, CleanFrame DEF FlightInv
<1>2. ASSUME NEW u \in Thread PROVE ClaimInv(u)'
  <2>1. ClaimInv(u) /\ (pc[u] = "arm" => tcs[u] \in in_use)
    BY <1>2 DEF FlightInv, TcsInv
  <2>2. QED
    BY <2>1, ClaimFrame
<1>3. QED
  BY Zenon, <1>1, <1>2 DEF FlightInv

\* The calls that begin, and the voter.
LEMMA CallsKeepFlight ==
    ASSUME RpmhAssumption, IInv, FlightInv,
           \/ \E t \in Writer, v \in Val :
                 \/ \E state \in {"sleep", "wake"} : WriteCached(t, state, v)
                 \/ \E knd \in {"sync", "async"} : WriteActive(t, v, knd)
           \/ \E S \in Changes, vote \in Votes : Commit(S, vote)
           \/ VoterActive \/ VoterCache
    PROVE  FlightInv'
<1>1. TcsInv /\ FunType /\ ListInv /\ Voter \in Thread /\ \A t \in Thread : ClaimInv(t)
  BY DEF IInv, FlightInv, Thread
<1>2. ASSUME cached' = cached, batch' = batch PROVE ListInv'
  BY Zenon, <1>1, <1>2 DEF ListInv
<1>3. ASSUME NEW t \in Writer, NEW v \in Val, NEW state \in {"sleep", "wake"},
             WriteCached(t, state, v)
      PROVE  FlightInv'
  <2>1. ListInv'
    BY <1>1, <1>3, CacheAdded DEF WriteCached
  <2>2. QED
    BY Zenon, <1>1, <1>3, <2>1, FlightKept DEF WriteCached, threadVars, drvVars, bufVars
<1>4. ASSUME NEW t \in Writer, NEW v \in Val, NEW knd \in {"sync", "async"},
             WriteActive(t, v, knd)
      PROVE  FlightInv'
  <2> DEFINE list == <<<<[addr |-> AddrOf[t], data |-> v]>>>>
  <2>1. /\ cached' = CacheAdd(AddrOf[t]) /\ batch' = batch /\ Start(t, knd, list)
        /\ UNCHANGED <<rsc, in_use, slots, regs>> /\ t \in Thread
    BY Zenon, <1>4 DEF WriteActive, drvVars, bufVars, Thread
  <2>2. MsgInts(list)
    BY DEF MsgInts
  <2> HIDE DEF list
  <2>3. ListInv'
    BY <1>1, <2>1, CacheAdded
  <2>4. ClaimInv(t)' /\ Others(t)
    BY <1>1, <2>1, <2>2, StartUnarmed
  <2>5. QED
    BY <1>1, <2>1, <2>3, <2>4, OneThread
<1>5. ASSUME NEW S \in Changes, NEW vote \in Votes, Commit(S, vote) PROVE FlightInv'
  <2>1. /\ pc' = [pc EXCEPT ![Voter] = "v_sleep"]
        /\ \E count \in 1 .. Len(Bcm) :
             msgs' = [msgs EXCEPT ![Voter] = Messages(S, votes', 1, count)]
        /\ cached' = cached /\ batch' = <<>> /\ k' = k /\ tcs' = tcs
        /\ UNCHANGED <<rsc, in_use, slots, regs>>
    BY Zenon, <1>5 DEF Commit, drvVars, bufVars
  <2>2. MsgInts(msgs'[Voter])
    BY <1>1, <2>1, MessagesInts DEF FunType
  <2>3. ClaimInv(Voter)' /\ Others(Voter)
    BY <1>1, <2>1, <2>2, Unarmed DEF FunType, Others
  <2>4. ListInv'
    <3>1. IsSeq(cached') /\ IsSeq(batch') /\ DOMAIN batch' = {}
      BY Zenon, <1>1, <2>1, EmptyList DEF ListInv
    <3>2. QED
      BY Zenon, <3>1 DEF ListInv
  <2>5. QED
    BY <1>1, <2>1, <2>3, <2>4, OneThread
<1>6. CASE VoterActive
  <2>1. UNCHANGED <<rsc, in_use, slots, regs>> /\ ListInv'
    BY <1>2, <1>6 DEF VoterActive, drvVars, bufVars, cacheVars
  <2>2. ClaimInv(Voter)' /\ Others(Voter)
    <3>1. CASE solver
      <4>1. /\ pc' = [pc EXCEPT ![Voter] = "v_ws"] /\ msgs' = [msgs EXCEPT ![Voter] = <<>>]
            /\ k' = k /\ tcs' = tcs
        BY <1>6, <3>1 DEF VoterActive
      <4>2. MsgInts(msgs'[Voter]) /\ pc'[Voter] = "v_ws" /\ Others(Voter)
        BY <1>1, <4>1 DEF FunType, MsgInts, Others
      <4>3. QED
        BY Zenon, <1>1, <4>2, Unarmed
    <3>2. CASE ~solver
      <4>1. MsgInts(msgs[Voter]) /\ Start(Voter, "commit", msgs[Voter])
        BY <1>1, <1>6, <3>2 DEF VoterActive, ClaimInv
      <4>2. QED
        BY <1>1, <2>1, <4>1, StartUnarmed
    <3>3. QED
      BY <3>1, <3>2
  <2>3. QED
    BY <1>1, <2>1, <2>2, OneThread
<1>7. CASE VoterCache
  <2>1. /\ pc' = [pc EXCEPT ![Voter] = "idle"] /\ msgs' = msgs /\ k' = k /\ tcs' = tcs
        /\ UNCHANGED <<rsc, in_use, slots, regs>> /\ cached' = cached
    BY Zenon, <1>7 DEF VoterCache, drvVars, bufVars
  <2>2. ListInv'
    <3>1. CASE batch' = batch
      BY <1>2, <2>1, <3>1
    <3>2. CASE batch' # batch
      <4> DEFINE S == {b \in ws : votes[b][1] # votes[b][2]}
                 x(i) == [state |-> "wake", msgs |-> Messages(S, votes, 1, i)]
                 y(i) == [state |-> "sleep", msgs |-> Messages(S, votes, 2, i)]
      <4>1. PICK count \in 1 .. Len(Bcm) : batch' = batch \o <<x(count), y(count)>>
        BY Zenon, <1>7, <3>2 DEF VoterCache
      <4>2. count \in Nat /\ \A i : Len(Messages(S, votes, i, count)) \in Nat
        BY MessagesInts
      <4>3. \A r \in {x(count), y(count)} : r.state \in {"sleep", "wake"} /\ Len(r.msgs) \in Nat
        BY Zenon, <4>2, Entries
      <4> HIDE DEF x, y
      <4>4. QED
        BY Zenon, <1>1, <2>1, <4>1, <4>3, BatchAdded
    <3>3. QED
      BY <3>1, <3>2
  <2>3. ClaimInv(Voter)' /\ Others(Voter)
    <3>1. pc'[Voter] = "idle" /\ Others(Voter) /\ MsgInts(msgs'[Voter])
      BY <1>1, <2>1 DEF FunType, Others, ClaimInv
    <3>2. QED
      BY <1>1, <3>1, Unarmed
  <2>4. QED
    BY <1>1, <2>1, <2>2, <2>3, OneThread
<1>8. QED
  BY <1>3, <1>4, <1>5, <1>6, <1>7

\* The invalidations: of the voter, and of a thread that is about to send.
LEMMA InvalidateKeepsFlight ==
    ASSUME RpmhAssumption, IInv, FlightInv,
           VoterInvalidate \/ \E t \in Thread : SendInvalidate(t)
    PROVE  FlightInv'
<1>1. /\ TcsInv /\ FunType /\ CleanInv /\ OneInflight /\ ListInv /\ Voter \in Thread
      /\ \A t \in Thread : ClaimInv(t)
  BY DEF IInv, FlightInv, Thread
<1>2. ASSUME NEW t \in Thread, NEW g \in {"sleep", "wake"}, TcsInvalidate(g),
             UNCHANGED <<rsc, in_use, tcs, cached, batch>>,
             pc'[t] # "arm", MsgInts(msgs'[t]),
             pc'[t] = "claim" => g = "wake" /\ CanInvalidate(g),
             \A u \in Thread \ {t} : pc'[u] = pc[u] /\ msgs'[u] = msgs[u] /\ k'[u] = k[u]
      PROVE  FlightInv'
  <2>1. /\ CleanInv' /\ OneInflight'
        /\ slots["wake"] = {} => slots'["wake"] = {}
        /\ g = "wake" /\ CanInvalidate(g) => slots'["wake"] = {}
        /\ \A m \in in_use : regs'[m] = regs[m] \/ DOMAIN regs'[m] = {}
    BY Zenon, <1>1, <1>2, Invalidated
  <2>2. ClaimInv(t)'
    BY <1>2, <2>1, Unarmed
  <2>3. ASSUME NEW u \in Thread, u # t PROVE ClaimInv(u)'
    <3>1. ClaimInv(u) /\ (pc[u] = "arm" => tcs[u] \in in_use)
      BY <1>1, <2>3 DEF TcsInv
    <3>2. QED
      BY <1>2, <2>1, <2>3, <3>1, ClaimFrame
  <2>4. ListInv'
    BY Zenon, <1>1, <1>2 DEF ListInv
  <2>5. \A u \in Thread : ClaimInv(u)'
    BY Zenon, <2>2, <2>3
  <2>6. QED
    BY Zenon, <2>1, <2>4, <2>5 DEF FlightInv
<1>3. CASE VoterInvalidate
  <2> DEFINE g == IF pc[Voter] = "v_sleep" THEN "sleep" ELSE "wake"
  <2>1. /\ TcsInvalidate(g) /\ g \in {"sleep", "wake"}
        /\ pc' = [pc EXCEPT ![Voter] = IF ~CanInvalidate(g) THEN "v_sleep"
                                       ELSE IF g = "sleep" THEN "v_wake" ELSE "v_active"]
        /\ UNCHANGED <<rsc, in_use, tcs, cached, batch>> /\ msgs' = msgs /\ k' = k
    BY <1>3 DEF VoterInvalidate, drvVars, cacheVars
  <2> HIDE DEF g
  <2>2. /\ pc'[Voter] # "arm" /\ pc'[Voter] # "claim" /\ MsgInts(msgs'[Voter])
        /\ \A u \in Thread \ {Voter} : pc'[u] = pc[u]
    BY <1>1, <2>1 DEF FunType, ClaimInv
  <2>3. QED
    BY Zenon, <1>1, <1>2, <2>1, <2>2
<1>4. ASSUME NEW t \in Thread, SendInvalidate(t) PROVE FlightInv'
  <2>1. /\ pc[t] \in {"sleep", "wake"} /\ TcsInvalidate(pc[t])
        /\ UNCHANGED <<rsc, in_use, tcs, cached, batch>>
    BY <1>4 DEF SendInvalidate, drvVars, cacheVars
  <2>2. CASE CanInvalidate(pc[t])
    <3>1. /\ pc' = [pc EXCEPT ![t] = IF pc[t] = "sleep" THEN "wake" ELSE "claim"]
          /\ msgs' = msgs /\ k' = k
      BY <1>4, <2>2 DEF SendInvalidate
    <3>2. /\ pc'[t] # "arm" /\ (pc'[t] = "claim" => pc[t] = "wake") /\ MsgInts(msgs'[t])
          /\ \A u \in Thread \ {t} : pc'[u] = pc[u]
      BY <1>1, <2>1, <3>1 DEF FunType, ClaimInv
    <3>3. QED
      BY Zenon, <1>2, <2>1, <2>2, <3>1, <3>2
  <2>3. CASE ~CanInvalidate(pc[t])
    <3>1. Fail(t)
      BY Zenon, <1>4, <2>3 DEF SendInvalidate
    <3>2. Calling(t) /\ pc[t] # "wait" /\ MsgInts(msgs[t])
      BY <1>1, <2>1 DEF Calling, Sending, ClaimInv
    <3>3. /\ pc'[t] # "arm" /\ pc'[t] # "claim" /\ MsgInts(msgs'[t])
          /\ \A u \in Thread \ {t} : pc'[u] = pc[u] /\ msgs'[u] = msgs[u] /\ k'[u] = k[u]
      BY <3>1, <3>2, Failed
    <3>4. QED
      BY <1>2, <2>1, <3>3
  <2>4. QED
    BY <2>2, <2>3
<1>5. QED
  BY <1>3, <1>4

\* A thread that is refused, that retries, or that returns.
LEMMA WaitKeepsFlight ==
    ASSUME IInv, FlightInv, NEW t \in Thread,
           ClaimRefused(t) \/ ClaimBusy(t) \/ Return(t)
    PROVE  FlightInv'
<1>1. TcsInv /\ FunType /\ MsgInts(msgs[t]) /\ ListInv
  BY DEF IInv, FlightInv, ClaimInv
<1>2. /\ UNCHANGED <<rsc, in_use, slots, regs, tcs>> /\ ListInv'
  <2>1. UNCHANGED <<rsc, in_use, slots, regs, tcs>> /\ cached' = cached /\ batch' = batch
    BY Zenon DEF ClaimRefused, ClaimBusy, Return, drvVars, bufVars, cacheVars
  <2>2. QED
    BY Zenon, <1>1, <2>1 DEF ListInv
<1>3. ClaimInv(t)' /\ Others(t)
  <2>1. CASE ClaimRefused(t)
    <3>1. Fail(t) /\ Calling(t) /\ pc[t] # "wait"
      BY <2>1 DEF ClaimRefused, Calling, Sending
    <3>2. /\ pc'[t] # "arm" /\ pc'[t] # "claim" /\ MsgInts(msgs'[t])
          /\ \A u \in Thread \ {t} : pc'[u] = pc[u] /\ msgs'[u] = msgs[u] /\ k'[u] = k[u]
      BY Zenon, <1>1, <3>1, Failed
    <3>3. QED
      BY Zenon, <1>2, <3>2, Unarmed DEF Others
  <2>2. CASE ClaimBusy(t)
    <3>1. pc' = [pc EXCEPT ![t] = SendEntry] /\ msgs' = msgs /\ k' = k
      BY <2>2 DEF ClaimBusy
    <3>2. pc'[t] = SendEntry /\ Others(t)
      BY <1>1, <1>2, <3>1 DEF FunType, Others
    <3>3. QED
      BY <1>1, <1>2, <3>1, <3>2, EntryUnarmed, Unarmed
  <2>3. CASE Return(t)
    <3>1. /\ pc' = [pc EXCEPT ![t] = IF kind[t] = "commit" THEN "v_ws" ELSE "idle"]
          /\ msgs' = [msgs EXCEPT ![t] = <<>>] /\ k' = [k EXCEPT ![t] = 0]
      BY <2>3 DEF Return, EndCall
    <3>2. pc'[t] \in {"v_ws", "idle"} /\ Others(t) /\ MsgInts(msgs'[t])
      BY <1>1, <1>2, <3>1 DEF FunType, Others, MsgInts
    <3>3. QED
      BY <3>2, Unarmed
  <2>4. QED
    BY <2>1, <2>2, <2>3
<1>4. QED
  BY <1>1, <1>2, <1>3, OneThread

\* The TCSs are what they were.
LEMMA FixedTcs ==
    ASSUME rsc' = rsc
    PROVE  /\ AllTcs' = AllTcs /\ ActiveGroup' = ActiveGroup /\ (\A g : Tcs(g)' = Tcs(g))
           /\ Tcs(ActiveGroup)' = Tcs(ActiveGroup)
           /\ Tcs("wake") \subseteq AllTcs /\ Tcs("active") \subseteq AllTcs
           /\ ActiveGroup \in {"active", "wake"}
<1>1. ActiveGroup' = ActiveGroup /\ \A g : Tcs(g)' = Tcs(g)
  BY Zenon DEF Tcs, ActiveGroup
<1>2. Tcs(ActiveGroup)' = Tcs(ActiveGroup) /\ ActiveGroup \in {"active", "wake"}
  BY Zenon DEF Tcs, ActiveGroup
<1>3. Tcs("wake") \subseteq AllTcs /\ Tcs("active") \subseteq AllTcs
  BY Zenon DEF AllTcs, Group
<1>4. QED
  BY Zenon, <1>1, <1>2, <1>3, SameTcs

\* A thread that has not claimed a TCS is not concerned by the steps of others
\* that leave the slots alone.
LEMMA UnarmedFrame ==
    ASSUME NEW u \in Thread, ClaimInv(u), pc[u] # "arm", rsc' = rsc, slots' = slots,
           pc'[u] = pc[u], msgs'[u] = msgs[u]
    PROVE  ClaimInv(u)'
  BY FixedTcs, Unarmed DEF ClaimInv

\* find_free_tcs gives a TCS without commands, and check_for_req_inflight has
\* seen every command of the others.
LEMMA ClaimKeepsFlight ==
    ASSUME IInv, FlightInv, NEW t \in Thread, Claim(t)
    PROVE  FlightInv'
<1>1. /\ TcsInv /\ FunType /\ CleanInv /\ OneInflight /\ ListInv
      /\ \A u \in Thread : ClaimInv(u)
  BY DEF IInv, FlightInv
<1>2. /\ pc[t] = "claim" /\ pc' = [pc EXCEPT ![t] = "arm"]
      /\ UNCHANGED <<rsc, slots, regs, msgs, k, cached, batch>>
      /\ ~Inflight(msgs[t][k[t]]) /\ \A u \in Thread : pc[u] # "arm"
  BY DEF Claim, bufVars, cacheVars, MustRetry, LockFree
<1>3. PICK m \in Free : in_use' = in_use \union {m} /\ tcs' = [tcs EXCEPT ![t] = m]
  BY Zenon DEF Claim
<1>4. m \in Tcs(ActiveGroup) /\ m \notin in_use
  BY <1>3 DEF Free
<1>5. ActiveGroup = "wake" => slots["wake"] = {}
  BY <1>1, <1>2 DEF ClaimInv
<1>6. DOMAIN regs[m] = {}
  BY <1>1, <1>4, <1>5, FixedTcs, <1>2 DEF CleanInv
<1>7. CleanInv'
  <2>1. in_use' \subseteq Tcs(ActiveGroup)'
    BY <1>1, <1>2, <1>3, <1>4, FixedTcs DEF CleanInv
  <2>2. /\ rsc' \in Rscs /\ regs' = [n \in AllTcs' |-> regs'[n]]
        /\ slots' = [g \in Group |-> slots'[g]]
    BY <1>1, <1>2, FixedTcs DEF CleanInv
  <2>3. \A n \in Tcs("active")' \ in_use' : DOMAIN regs'[n] = {}
    BY <1>1, <1>2, <1>3, FixedTcs DEF CleanInv
  <2>4. slots'["wake"] = {} => \A n \in Tcs("wake")' \ in_use' : DOMAIN regs'[n] = {}
    BY <1>1, <1>2, <1>3, FixedTcs DEF CleanInv
  <2>5. QED
    BY Zenon, <2>1, <2>2, <2>3, <2>4 DEF CleanInv
<1>8. OneInflight'
  <2>1. SUFFICES ASSUME NEW o \in in_use', NEW n \in in_use', o # n,
                        NEW i \in DOMAIN regs'[o], NEW j \in DOMAIN regs'[n]
                 PROVE  regs'[o][i].addr # regs'[n][j].addr
    BY Zenon DEF OneInflight
  <2>2. o \in in_use /\ n \in in_use /\ regs' = regs
    BY <1>2, <1>3, <1>6, <2>1
  <2>3. QED
    BY Zenon, <1>1, <2>1, <2>2 DEF OneInflight
<1>9. ClaimInv(t)'
  <2>1. pc'[t] = "arm" /\ tcs'[t] = m /\ MsgInts(msgs'[t])
    BY <1>1, <1>2, <1>3 DEF FunType, ClaimInv
  <2>2. ASSUME NEW n \in in_use PROVE Apart(regs[n], msgs[t][k[t]])
    <3>1. n \in Tcs(ActiveGroup) \intersect in_use
      BY Zenon, <1>1, <2>2 DEF CleanInv
    <3>2. QED
      BY Zenon, <1>2, <3>1 DEF Inflight, Apart
  <2>3. \A n \in in_use' : n # tcs'[t] => Apart(regs'[n], msgs'[t][k'[t]])
    BY Zenon, <1>2, <1>3, <2>1, <2>2
  <2>4. ActiveGroup' = "wake" => slots'["wake"] = {}
    BY Zenon, <1>2, <1>5, FixedTcs
  <2>5. DOMAIN regs'[tcs'[t]] = {}
    BY <1>2, <1>6, <2>1
  <2>6. QED
    BY Zenon, <2>1, <2>3, <2>4, <2>5 DEF ClaimInv
<1>10. ASSUME NEW u \in Thread, u # t PROVE ClaimInv(u)'
  <2>1. pc'[u] = pc[u] /\ msgs'[u] = msgs[u]
    BY <1>1, <1>2, <1>10 DEF FunType
  <2>2. QED
    BY <1>1, <1>2, <2>1, UnarmedFrame
<1>11. ListInv'
  BY Zenon, <1>1, <1>2 DEF ListInv
<1>12. \A u \in Thread : ClaimInv(u)'
  BY Zenon, <1>9, <1>10
<1>13. QED
  BY Zenon, <1>7, <1>8, <1>11, <1>12 DEF FlightInv

\* The commands that are triggered are for resources no other TCS in use has.
LEMMA ArmKeepsFlight ==
    ASSUME IInv, FlightInv, NEW t \in Thread, Arm(t)
    PROVE  FlightInv'
<1>1. /\ TcsInv /\ FunType /\ CleanInv /\ OneInflight /\ ListInv /\ ThreadInv(t)
      /\ \A u \in Thread : ClaimInv(u)
  BY DEF IInv, FlightInv
<1>2. /\ pc[t] = "arm" /\ UNCHANGED <<rsc, slots, in_use, cached, batch>>
      /\ regs' = BufferWrite(regs, tcs[t], 0, msgs[t][k[t]])
      /\ tcs' = [tcs EXCEPT ![t] = None]
  BY DEF Arm, cacheVars
<1> DEFINE msg == msgs[t][k[t]]
           m == tcs[t]
<1>3. m \in in_use /\ \A u \in Thread : u # t => pc[u] # "arm"
  BY <1>1, <1>2 DEF TcsInv
<1>4. DOMAIN msg \subseteq Int
  <2>1. k[t] \in DOMAIN msgs[t]
    <3>1. k[t] \in 1 .. Len(msgs[t])
      <4>1. CASE kind[t] = "async"
        <5>1. k[t] = 1 /\ Len(msgs[t]) = 1
          BY Zenon, <1>1, <4>1 DEF ThreadInv, AsyncInv
        <5>2. QED
          BY Zenon, <5>1, Places1
      <4>2. CASE kind[t] # "async"
        BY Zenon, <1>1, <1>2, <4>2 DEF ThreadInv, BatchInv, Calling
      <4>3. QED
        BY Zenon, <4>1, <4>2
    <3>2. QED
      BY Zenon, <1>1, <3>1, Places1 DEF ThreadInv, ThreadType
  <2>2. QED
    BY Zenon, <1>1, <2>1 DEF ClaimInv, MsgInts
<1>5. /\ DOMAIN regs[m] = {}
      /\ \A n \in in_use : n # m => Apart(regs[n], msg)
  BY <1>1, <1>2 DEF ClaimInv
<1>6. in_use \subseteq AllTcs
  BY <1>1 DEF TcsInv
<1> HIDE DEF msg, m
<1>7. /\ regs' = [n \in AllTcs |-> regs'[n]]
      /\ \A n \in AllTcs : n # m => regs'[n] = regs[n]
      /\ \A x \in DOMAIN regs'[m] : \E j \in DOMAIN msg : regs'[m][x] = msg[j]
  <2> DEFINE new == Places(0, msg)
             c == [j \in new \union DOMAIN regs[m] |->
                      IF j \in new THEN msg[j - 0 + 1] ELSE regs[m][j]]
  <2>1. regs' = [regs EXCEPT ![m] = c]
    BY <1>2 DEF BufferWrite, m, msg
  <2>2. DOMAIN c = new
    BY <1>5
  <2>3. \A x \in new : \E j \in DOMAIN msg : c[x] = msg[j]
    BY <1>4 DEF Places
  <2> HIDE DEF c, new
  <2>4. regs'[m] = c
    BY <1>1, <1>3, <1>6, <2>1 DEF CleanInv
  <2>5. QED
    BY <1>1, <2>1, <2>2, <2>3, <2>4 DEF CleanInv
<1>8. CleanInv'
  <2>1. /\ rsc' \in Rscs /\ in_use' \subseteq Tcs(ActiveGroup)'
        /\ regs' = [n \in AllTcs' |-> regs'[n]] /\ slots' = [g \in Group |-> slots'[g]]
    BY Zenon, <1>1, <1>2, <1>7, FixedTcs DEF CleanInv
  <2>2. \A n \in Tcs("active")' \ in_use' : DOMAIN regs'[n] = {}
    BY Zenon, <1>1, <1>2, <1>3, <1>7, FixedTcs DEF CleanInv
  <2>3. slots'["wake"] = {} => \A n \in Tcs("wake")' \ in_use' : DOMAIN regs'[n] = {}
    <3>1. SUFFICES ASSUME slots["wake"] = {}, NEW n \in Tcs("wake"), n \notin in_use
                   PROVE  DOMAIN regs'[n] = {}
      BY Zenon, <1>2, FixedTcs
    <3>2. DOMAIN regs[n] = {}
      BY Zenon, <1>1, <3>1 DEF CleanInv
    <3>3. n # m /\ n \in AllTcs
      BY Zenon, <1>2, <1>3, <3>1, FixedTcs
    <3>4. QED
      BY Zenon, <1>7, <3>2, <3>3
  <2>4. QED
    BY Zenon, <2>1, <2>2, <2>3 DEF CleanInv
<1>9. OneInflight'
  <2>1. SUFFICES ASSUME NEW o \in in_use, NEW n \in in_use, o # n,
                        NEW i \in DOMAIN regs'[o], NEW j \in DOMAIN regs'[n]
                 PROVE  regs'[o][i].addr # regs'[n][j].addr
    BY Zenon, <1>2 DEF OneInflight
  <2>2. CASE o # m /\ n # m
    BY <1>1, <1>6, <1>7, <2>1, <2>2 DEF OneInflight
  <2>3. CASE o = m
    BY <1>5, <1>6, <1>7, <2>1, <2>3 DEF Apart
  <2>4. CASE n = m
    BY <1>5, <1>6, <1>7, <2>1, <2>4 DEF Apart
  <2>5. QED
    BY <2>2, <2>3, <2>4
<1>10. /\ pc'[t] \in {SendEntry, "idle", "wait"} /\ MsgInts(msgs'[t])
       /\ \A u \in Thread \ {t} : pc'[u] = pc[u] /\ msgs'[u] = msgs[u]
  <2>1. \/ pc' = [pc EXCEPT ![t] = SendEntry] /\ msgs' = msgs
        \/ pc' = [pc EXCEPT ![t] = "idle"] /\ msgs' = [msgs EXCEPT ![t] = <<>>]
        \/ pc' = [pc EXCEPT ![t] = "wait"] /\ msgs' = msgs
    BY DEF Arm, EndCall
  <2>2. MsgInts(<<>>) /\ MsgInts(msgs[t])
    BY Zenon, <1>1, EmptyList DEF ClaimInv
  <2>3. QED
    BY <1>1, <2>1, <2>2 DEF FunType
<1>11. ClaimInv(t)'
  BY <1>2, <1>10, EntryUnarmed, Unarmed
<1>12. ASSUME NEW u \in Thread, u # t PROVE ClaimInv(u)'
  BY Zenon, <1>1, <1>2, <1>3, <1>10, <1>12, UnarmedFrame
<1>13. ListInv'
  BY Zenon, <1>1, <1>2 DEF ListInv
<1>14. \A u \in Thread : ClaimInv(u)'
  BY Zenon, <1>11, <1>12
<1>15. QED
  BY Zenon, <1>8, <1>9, <1>13, <1>14 DEF FlightInv

\* A TCS is reclaimed without commands.
LEMMA ReclaimKeepsFlight ==
    ASSUME IInv, FlightInv, TxReclaim
    PROVE  FlightInv'
<1>1. /\ TcsInv /\ CleanInv /\ OneInflight /\ ListInv
      /\ \A u \in Thread : ClaimInv(u)
  BY DEF IInv, FlightInv
<1>2. /\ regs' = [regs EXCEPT ![done_tcs] = Empty] /\ in_use' = in_use \ {done_tcs}
      /\ UNCHANGED <<rsc, slots, pc, msgs, cached, batch>>
      /\ \A u \in Thread : pc[u] # "arm"
  BY DEF TxReclaim, LockFree, cacheVars, threadVars
<1>3. /\ regs' = [m \in AllTcs |-> regs'[m]]
      /\ \A m \in AllTcs : m # done_tcs => regs'[m] = regs[m]
      /\ done_tcs \in AllTcs => DOMAIN regs'[done_tcs] = {}
  BY <1>1, <1>2 DEF CleanInv, Empty
<1>4. CleanInv'
  <2>1. /\ rsc' \in Rscs /\ in_use' \subseteq Tcs(ActiveGroup)'
        /\ regs' = [m \in AllTcs' |-> regs'[m]] /\ slots' = [g \in Group |-> slots'[g]]
    BY <1>1, <1>2, <1>3, FixedTcs DEF CleanInv
  <2>2. \A m \in Tcs("active")' \ in_use' : DOMAIN regs'[m] = {}
    BY <1>1, <1>2, <1>3, FixedTcs DEF CleanInv
  <2>3. slots'["wake"] = {} => \A m \in Tcs("wake")' \ in_use' : DOMAIN regs'[m] = {}
    BY <1>1, <1>2, <1>3, FixedTcs DEF CleanInv
  <2>4. QED
    BY Zenon, <2>1, <2>2, <2>3 DEF CleanInv
<1>5. OneInflight'
  <2>1. in_use \subseteq AllTcs
    BY <1>1 DEF TcsInv
  <2>2. QED
    BY <1>1, <1>2, <1>3, <2>1 DEF OneInflight
<1>6. ASSUME NEW u \in Thread PROVE ClaimInv(u)'
  BY <1>1, <1>2, UnarmedFrame
<1>7. ListInv'
  BY Zenon, <1>1, <1>2 DEF ListInv
<1>8. QED
  BY Zenon, <1>4, <1>5, <1>6, <1>7 DEF FlightInv

-----------------------------------------------------------------------------
(* What rpmh_flush writes. *)

LOCAL WF == INSTANCE WellFoundedInduction

\* Induction over the natural numbers, for a set.
LEMMA SetInduction ==
    ASSUME NEW S, 0 \in S, \A n \in Nat : n \in S => n + 1 \in S
    PROVE  Nat \subseteq S
<1> DEFINE T == Nat \ S
<1>1. SUFFICES ASSUME T # {} PROVE FALSE
  OBVIOUS
<1>2. PICK x \in T : \A y \in T : ~ (<<y, x>> \in WF!OpToRel(<, Nat))
  BY <1>1, WF!NatLessThanWellFounded, WF!WFMin, Zenon
<1>3. x \in Nat /\ x # 0 /\ x \notin S
  OBVIOUS
<1>4. x - 1 \in Nat /\ x - 1 < x /\ (x - 1) + 1 = x
  BY <1>3
<1>5. <<x - 1, x>> \in WF!OpToRel(<, Nat)
  BY <1>3, <1>4 DEF WF!OpToRel
<1>6. x - 1 \in S
  BY Zenon, <1>2, <1>4, <1>5
<1>7. QED
  BY <1>3, <1>4, <1>6

\* The buffers while they are being filled: the TCSs of active votes have no
\* command, and the wake TCSs have none as long as no slot is taken.
Good(b) ==
    /\ b = [ok |-> b.ok, slots |-> b.slots, regs |-> b.regs]
    /\ b.regs = [m \in AllTcs |-> b.regs[m]] /\ b.slots = [g \in Group |-> b.slots[g]]
    /\ \A m \in Tcs("active") : DOMAIN b.regs[m] = {}
    /\ b.slots["wake"] = {} => \A m \in Tcs("wake") : DOMAIN b.regs[m] = {}

\* The result so far is no matter.
LEMMA OkChanged ==
    ASSUME NEW b, Good(b), NEW v
    PROVE  Good([b EXCEPT !.ok = v])
<1> DEFINE c == [b EXCEPT !.ok = v]
           r == [ok |-> b.ok, slots |-> b.slots, regs |-> b.regs]
<1>1. c = [r EXCEPT !.ok = v]
  BY Zenon DEF Good
<1>2. c.slots = b.slots /\ c.regs = b.regs /\ c = [ok |-> v, slots |-> b.slots, regs |-> b.regs]
      /\ c.ok = v
  <2> HIDE DEF c
  <2>1. QED
    BY <1>1
<1> HIDE DEF c
<1>3. c = [ok |-> c.ok, slots |-> c.slots, regs |-> c.regs]
  BY Zenon, <1>2
<1>4. Good(c)
  BY Zenon, <1>2, <1>3 DEF Good
<1>5. QED
  BY Zenon, <1>4 DEF c

\* A message goes into the TCSs of its own group, and takes its slots.
LEMMA CtrlWriteGood ==
    ASSUME NEW b, Good(b), NEW m, m.state \in {"sleep", "wake"}
    PROVE  Good(CtrlWrite(b, m))
<1> DEFINE fit == Fits(b.slots[m.state], m.state, m.msg)
           i == Min(fit)
           n == <<m.state, i \div NCPT>>
           new == Places(i % NCPT, m.msg)
           x == [j \in new \union DOMAIN b.regs[n] |->
                    IF j \in new THEN m.msg[j - (i % NCPT) + 1] ELSE b.regs[n][j]]
           res == [ok |-> TRUE,
                   slots |-> [b.slots EXCEPT ![m.state] = @ \union Places(i, m.msg)],
                   regs |-> [b.regs EXCEPT ![n] = x]]
<1>1. CtrlWrite(b, m) = IF ~b.ok THEN b ELSE IF fit = {} THEN [b EXCEPT !.ok = FALSE] ELSE res
  BY DEF CtrlWrite, BufferWrite
<1>2. Good([b EXCEPT !.ok = FALSE])
  BY OkChanged
<1>3. Good(res)
  <2> HIDE DEF n, x, i, new
  <2>1. /\ res.ok = TRUE
        /\ res.slots = [b.slots EXCEPT ![m.state] = @ \union Places(i, m.msg)]
        /\ res.regs = [b.regs EXCEPT ![n] = x]
        /\ res = [ok |-> res.ok, slots |-> res.slots, regs |-> res.regs]
    OBVIOUS
  <2> HIDE DEF res
  <2>2. res.regs = [o \in AllTcs |-> res.regs[o]] /\ res.slots = [g \in Group |-> res.slots[g]]
    BY Zenon, <2>1 DEF Good
  <2>3. \A o \in AllTcs : res.regs[o] = IF o = n THEN x ELSE b.regs[o]
    BY <2>1 DEF Good
  <2>4. ASSUME NEW o \in Tcs("active") PROVE DOMAIN res.regs[o] = {}
    <3>1. o \in AllTcs /\ o # n
      BY <2>4 DEF AllTcs, Tcs, Group, n
    <3>2. QED
      BY <2>3, <3>1 DEF Good
  <2>5. ASSUME res.slots["wake"] = {}, NEW o \in Tcs("wake") PROVE DOMAIN res.regs[o] = {}
    <3>1. o \in AllTcs /\ "wake" \in Group
      BY <2>5 DEF AllTcs, Group
    <3>2. b.slots["wake"] \subseteq res.slots["wake"]
      BY <2>1, <3>1 DEF Good
    <3>3. DOMAIN b.regs[o] = {}
      BY <2>5, <3>2 DEF Good
    <3>4. CASE o # n
      BY <2>3, <3>1, <3>3, <3>4
    <3>5. CASE o = n
      <4>1. m.state = "wake"
        BY <3>5 DEF n, Tcs
      <4>2. Places(i, m.msg) = {}
        BY <2>1, <2>5, <3>1, <4>1 DEF Good
      <4>3. DOMAIN x = {}
        BY <3>3, <3>5, <4>2 DEF x, new, Places
      <4>4. QED
        BY <2>3, <3>1, <3>3, <3>5, <4>3
    <3>6. QED
      BY <3>4, <3>5
  <2>6. QED
    BY Zenon, <2>1, <2>2, <2>4, <2>5 DEF Good
<1>4. QED
  BY Zenon, <1>1, <1>2, <1>3

\* The same for a message as rpmh_flush makes it.
LEMMA MsgWriteGood ==
    ASSUME NEW b, Good(b), NEW state \in {"sleep", "wake"}, NEW c
    PROVE  Good(CtrlWrite(b, [state |-> state, msg |-> c]))
<1> DEFINE m == [state |-> state, msg |-> c]
<1>1. m.state = state
  BY Zenon, Fields
<1> HIDE DEF m
<1>2. Good(CtrlWrite(b, m))
  BY <1>1, CtrlWriteGood
<1>3. QED
  BY Zenon, <1>2 DEF m

\* ... and so do the messages of a batch.
LEMMA WriteAllGood ==
    ASSUME NEW b, Good(b), NEW state \in {"sleep", "wake"}, NEW list, Len(list) \in Nat
    PROVE  Good(WriteAll(b, state, list))
<1> DEFINE N == Len(list)
           Then(x, i) == CtrlWrite(x, [state |-> state, msg |-> list[i]])
           Is(w, n) == w = [i \in 0 .. n |-> IF i = 0 THEN b ELSE Then(w[i - 1], i)]
           S == {n \in Nat : n <= N => (\E w : Is(w, n)) /\ \A w : Is(w, n) => Good(w[n])}
<1>1. ASSUME NEW x, Good(x), NEW i \in 1 .. N PROVE Good(Then(x, i))
  BY Zenon, <1>1, MsgWriteGood
<1>2. WriteAll(b, state, list) = (CHOOSE w : Is(w, N))[N]
  BY Zenon DEF WriteAll
<1> HIDE DEF N, Then
<1>3. N \in Nat
  BY DEF N
<1>4. 0 \in S
  <2> DEFINE w0 == [i \in 0 .. 0 |-> b]
  <2>1. Is(w0, 0)
    OBVIOUS
  <2>2. \A w : Is(w, 0) => w[0] = b
    OBVIOUS
  <2>3. QED
    BY Zenon, <2>1, <2>2
<1>5. ASSUME NEW n \in Nat, n \in S PROVE n + 1 \in S
  <2>1. SUFFICES ASSUME n + 1 <= N
                 PROVE  (\E w : Is(w, n + 1)) /\ \A w : Is(w, n + 1) => Good(w[n + 1])
    OBVIOUS
  <2>2. n <= N /\ n + 1 \in 1 .. N
    BY <1>3, <2>1
  <2>3. PICK v : Is(v, n)
    BY <1>5, <2>2
  <2>4. \E w : Is(w, n + 1)
    <3> DEFINE w == [i \in 0 .. n + 1 |-> IF i = n + 1 THEN Then(v[n], n + 1) ELSE v[i]]
    <3>1. \A i \in 0 .. n + 1 : i # 0 => w[i - 1] = v[i - 1]
      OBVIOUS
    <3>2. \A i \in 0 .. n + 1 : w[i] = IF i = 0 THEN b ELSE Then(w[i - 1], i)
      BY <2>3, <3>1
    <3>3. Is(w, n + 1)
      BY <3>2
    <3>4. QED
      BY Zenon, <3>3
  <2>5. ASSUME NEW w, Is(w, n + 1) PROVE Good(w[n + 1])
    <3> DEFINE u == [i \in 0 .. n |-> w[i]]
    <3>1. \A i \in 0 .. n : u[i] = w[i] /\ (i # 0 => w[i - 1] = u[i - 1])
      OBVIOUS
    <3>2. Is(u, n) /\ u[n] = w[n]
      BY <2>5, <3>1
    <3>3. Good(w[n])
      BY Zenon, <1>5, <2>2, <3>2
    <3>4. w[n + 1] = Then(w[n], n + 1)
      BY <2>5
    <3>5. QED
      BY <1>1, <2>2, <3>3, <3>4
  <2>6. QED
    BY <2>4, <2>5
<1>6. N \in S
  <2> HIDE DEF S
  <2>1. QED
    BY <1>3, <1>4, <1>5, SetInduction
<1>7. N <= N
  BY <1>3
<1>8. (\E w : Is(w, N)) /\ \A w : Is(w, N) => Good(w[N])
  BY <1>6, <1>7
<1>9. QED
  <2> HIDE DEF Is
  <2>1. QED
    BY Zenon, <1>2, <1>8

\* flush_batch writes the batches one after the other.
LEMMA FlushBatchGood ==
    ASSUME NEW b, Good(b), ListInv
    PROVE  Good(FlushBatch(b))
<1> DEFINE N == Len(batch)
           Then(x, i) == WriteAll([x EXCEPT !.ok = TRUE], batch[i].state, batch[i].msgs)
           Is(w, n) == w = [i \in 0 .. n |-> IF i = 0 THEN b ELSE Then(w[i - 1], i)]
           S == {n \in Nat : n <= N => (\E w : Is(w, n)) /\ \A w : Is(w, n) => Good(w[n])}
<1>1. ASSUME NEW x, Good(x), NEW i \in 1 .. N PROVE Good(Then(x, i))
  <2>1. i \in DOMAIN batch
    BY <1>1 DEF ListInv, IsSeq
  <2>2. batch[i].state \in {"sleep", "wake"} /\ Len(batch[i].msgs) \in Nat
    BY <2>1 DEF ListInv
  <2>3. QED
    BY Zenon, <1>1, <2>2, OkChanged, WriteAllGood
<1>2. FlushBatch(b) = (CHOOSE w : Is(w, N))[N]
  BY Zenon DEF FlushBatch
<1> HIDE DEF N, Then
<1>3. N \in Nat
  BY DEF N, ListInv, IsSeq
<1>4. 0 \in S
  <2> DEFINE w0 == [i \in 0 .. 0 |-> b]
  <2>1. Is(w0, 0)
    OBVIOUS
  <2>2. \A w : Is(w, 0) => w[0] = b
    OBVIOUS
  <2>3. QED
    BY Zenon, <2>1, <2>2
<1>5. ASSUME NEW n \in Nat, n \in S PROVE n + 1 \in S
  <2>1. SUFFICES ASSUME n + 1 <= N
                 PROVE  (\E w : Is(w, n + 1)) /\ \A w : Is(w, n + 1) => Good(w[n + 1])
    OBVIOUS
  <2>2. n <= N /\ n + 1 \in 1 .. N
    BY <1>3, <2>1
  <2>3. PICK v : Is(v, n)
    BY <1>5, <2>2
  <2>4. \E w : Is(w, n + 1)
    <3> DEFINE w == [i \in 0 .. n + 1 |-> IF i = n + 1 THEN Then(v[n], n + 1) ELSE v[i]]
    <3>1. \A i \in 0 .. n + 1 : i # 0 => w[i - 1] = v[i - 1]
      OBVIOUS
    <3>2. \A i \in 0 .. n + 1 : w[i] = IF i = 0 THEN b ELSE Then(w[i - 1], i)
      BY <2>3, <3>1
    <3>3. Is(w, n + 1)
      BY <3>2
    <3>4. QED
      BY Zenon, <3>3
  <2>5. ASSUME NEW w, Is(w, n + 1) PROVE Good(w[n + 1])
    <3> DEFINE u == [i \in 0 .. n |-> w[i]]
    <3>1. \A i \in 0 .. n : u[i] = w[i] /\ (i # 0 => w[i - 1] = u[i - 1])
      OBVIOUS
    <3>2. Is(u, n) /\ u[n] = w[n]
      BY <2>5, <3>1
    <3>3. Good(w[n])
      BY Zenon, <1>5, <2>2, <3>2
    <3>4. w[n + 1] = Then(w[n], n + 1)
      BY <2>5
    <3>5. QED
      BY <1>1, <2>2, <3>3, <3>4
  <2>6. QED
    BY <2>4, <2>5
<1>6. N \in S
  <2> HIDE DEF S
  <2>1. QED
    BY <1>3, <1>4, <1>5, SetInduction
<1>7. N <= N
  BY <1>3
<1>8. (\E w : Is(w, N)) /\ \A w : Is(w, N) => Good(w[N])
  BY <1>6, <1>7
<1>9. QED
  <2> HIDE DEF Is
  <2>1. QED
    BY Zenon, <1>2, <1>8

\* rpmh_flush goes through the cached requests.
LEMMA FlushSinglesGood ==
    ASSUME NEW b, Good(b), ListInv
    PROVE  Good(FlushSingles(b))
<1> DEFINE N == Len(cached)
           Then(x, i) == 
               IF ~Valid(cached[i]) THEN x
               ELSE SendSingle(SendSingle(x, "sleep", cached[i]), "wake", cached[i])
           Is(w, n) == w = [i \in 0 .. n |-> IF i = 0 THEN b ELSE Then(w[i - 1], i)]
           S == {n \in Nat : n <= N => (\E w : Is(w, n)) /\ \A w : Is(w, n) => Good(w[n])}
<1>1. ASSUME NEW x, Good(x), NEW i \in 1 .. N PROVE Good(Then(x, i))
  <2>1. ASSUME NEW y, Good(y), NEW state \in {"sleep", "wake"}, NEW a
        PROVE  Good(SendSingle(y, state, a))
    BY Zenon, <2>1, MsgWriteGood DEF SendSingle
  <2>2. QED
    BY <1>1, <2>1
<1>2. FlushSingles(b) = (CHOOSE w : Is(w, N))[N]
  BY Zenon DEF FlushSingles
<1> HIDE DEF N, Then
<1>3. N \in Nat
  BY DEF N, ListInv, IsSeq
<1>4. 0 \in S
  <2> DEFINE w0 == [i \in 0 .. 0 |-> b]
  <2>1. Is(w0, 0)
    OBVIOUS
  <2>2. \A w : Is(w, 0) => w[0] = b
    OBVIOUS
  <2>3. QED
    BY Zenon, <2>1, <2>2
<1>5. ASSUME NEW n \in Nat, n \in S PROVE n + 1 \in S
  <2>1. SUFFICES ASSUME n + 1 <= N
                 PROVE  (\E w : Is(w, n + 1)) /\ \A w : Is(w, n + 1) => Good(w[n + 1])
    OBVIOUS
  <2>2. n <= N /\ n + 1 \in 1 .. N
    BY <1>3, <2>1
  <2>3. PICK v : Is(v, n)
    BY <1>5, <2>2
  <2>4. \E w : Is(w, n + 1)
    <3> DEFINE w == [i \in 0 .. n + 1 |-> IF i = n + 1 THEN Then(v[n], n + 1) ELSE v[i]]
    <3>1. \A i \in 0 .. n + 1 : i # 0 => w[i - 1] = v[i - 1]
      OBVIOUS
    <3>2. \A i \in 0 .. n + 1 : w[i] = IF i = 0 THEN b ELSE Then(w[i - 1], i)
      BY <2>3, <3>1
    <3>3. Is(w, n + 1)
      BY <3>2
    <3>4. QED
      BY Zenon, <3>3
  <2>5. ASSUME NEW w, Is(w, n + 1) PROVE Good(w[n + 1])
    <3> DEFINE u == [i \in 0 .. n |-> w[i]]
    <3>1. \A i \in 0 .. n : u[i] = w[i] /\ (i # 0 => w[i - 1] = u[i - 1])
      OBVIOUS
    <3>2. Is(u, n) /\ u[n] = w[n]
      BY <2>5, <3>1
    <3>3. Good(w[n])
      BY Zenon, <1>5, <2>2, <3>2
    <3>4. w[n + 1] = Then(w[n], n + 1)
      BY <2>5
    <3>5. QED
      BY <1>1, <2>2, <3>3, <3>4
  <2>6. QED
    BY <2>4, <2>5
<1>6. N \in S
  <2> HIDE DEF S
  <2>1. QED
    BY <1>3, <1>4, <1>5, SetInduction
<1>7. N <= N
  BY <1>3
<1>8. (\E w : Is(w, N)) /\ \A w : Is(w, N) => Good(w[N])
  BY <1>6, <1>7
<1>9. QED
  <2> HIDE DEF Is
  <2>1. QED
    BY Zenon, <1>2, <1>8

\* rpmh_flush finds no TCS in use, and leaves the ones it does not fill clean.
LEMMA FlushKeepsFlight ==
    ASSUME FlightInv, Flush
    PROVE  FlightInv'
<1>1. /\ CleanInv /\ ListInv /\ \A u \in Thread : ClaimInv(u)
  BY DEF FlightInv
<1> DEFINE clear == [m \in AllTcs |-> IF slots[m[1]] = {} THEN regs[m] ELSE Empty]
           free == [g \in Group |-> {}]
           b0 == [ok |-> TRUE, slots |-> free, regs |-> clear]
           b == FlushSingles(FlushBatch(b0))
<1>2. /\ slots' = b.slots /\ regs' = b.regs
      /\ Free = Tcs(ActiveGroup) /\ \A u \in Thread : pc[u] = "idle"
      /\ UNCHANGED <<rsc, in_use, pc, msgs, cached, batch>>
  BY Zenon DEF Flush, drvVars, threadVars
<1>3. in_use = {}
  BY <1>1, <1>2 DEF Free, CleanInv
<1>4. Good(b0)
  <2>0. DOMAIN Empty = {}
    BY SMTT(20) DEF Empty
  <2>1. \A m \in AllTcs : clear[m] = IF slots[m[1]] = {} THEN regs[m] ELSE Empty
    OBVIOUS
  <2>2. /\ clear = [m \in AllTcs |-> clear[m]] /\ free = [g \in Group |-> free[g]]
        /\ b0.slots = free /\ b0.regs = clear /\ b0.ok = TRUE
    OBVIOUS
  <2>3. ASSUME NEW m \in Tcs("active") PROVE DOMAIN clear[m] = {}
    <3>1. DOMAIN regs[m] = {} /\ m \in AllTcs
      BY <1>1, <1>2, <1>3, <2>3, FixedTcs DEF CleanInv
    <3>2. QED
      BY <2>0, <2>1, <3>1
  <2>4. ASSUME NEW m \in Tcs("wake") PROVE DOMAIN clear[m] = {}
    <3>1. m \in AllTcs /\ m[1] = "wake"
      <4>1. Tcs("wake") \subseteq AllTcs
        BY Zenon, <1>2, FixedTcs
      <4>2. m[1] = "wake"
        BY Zenon, <2>4, TcsGroup
      <4>3. QED
        BY Zenon, <2>4, <4>1, <4>2
    <3>2. slots["wake"] = {} => DOMAIN regs[m] = {}
      BY <1>1, <1>3, <2>4 DEF CleanInv
    <3>3. QED
      BY Zenon, <2>0, <2>1, <3>1, <3>2
  <2>5. b0 = [ok |-> b0.ok, slots |-> b0.slots, regs |-> b0.regs]
    OBVIOUS
  <2> HIDE DEF clear, free, b0
  <2>6. QED
    BY <2>2, <2>3, <2>4, <2>5 DEF Good
<1>5. Good(b)
  <2> HIDE DEF b0
  <2>1. Good(FlushBatch(b0))
    BY <1>1, <1>4, FlushBatchGood
  <2>2. QED
    BY <1>1, <2>1, FlushSinglesGood
<1> HIDE DEF b
<1>6. CleanInv'
  <2>1. /\ rsc' \in Rscs /\ in_use' \subseteq Tcs(ActiveGroup)'
        /\ regs' = [m \in AllTcs' |-> regs'[m]] /\ slots' = [g \in Group |-> slots'[g]]
    BY <1>1, <1>2, <1>3, <1>5, FixedTcs DEF CleanInv, Good
  <2>2. /\ \A m \in Tcs("active")' \ in_use' : DOMAIN regs'[m] = {}
        /\ slots'["wake"] = {} => \A m \in Tcs("wake")' \ in_use' : DOMAIN regs'[m] = {}
    BY <1>2, <1>5, FixedTcs DEF Good
  <2>3. QED
    BY Zenon, <2>1, <2>2 DEF CleanInv
<1>7. OneInflight'
  BY <1>2, <1>3 DEF OneInflight
<1>8. ASSUME NEW u \in Thread PROVE ClaimInv(u)'
  <2>1. pc'[u] = "idle" /\ MsgInts(msgs'[u])
    BY <1>1, <1>2, <1>8 DEF ClaimInv
  <2>2. QED
    BY <2>1, Unarmed
<1>9. ListInv'
  BY Zenon, <1>1, <1>2 DEF ListInv
<1>10. QED
  BY Zenon, <1>6, <1>7, <1>8, <1>9 DEF FlightInv

\* The invariant is inductive, given the one of the requests.
LEMMA FlightStep ==
    ASSUME RpmhAssumption, IInv, FlightInv, [Next]_vars
    PROVE  FlightInv'
<1>1. ASSUME UNCHANGED <<rsc, in_use, slots, regs, pc, msgs, k, tcs, cached, batch>>
      PROVE  FlightInv'
  <2>1. TcsInv /\ ListInv
    BY DEF IInv, FlightInv
  <2>2. ListInv'
    BY Zenon, <1>1, <2>1 DEF ListInv
  <2>3. QED
    BY <1>1, <2>1, <2>2, FlightKept
<1>2. CASE \E m \in AllTcs : TcsComplete(m) \/ TxDone(m)
  BY <1>1, <1>2 DEF TcsComplete, TxDone, threadVars, drvVars, bufVars, cacheVars
<1>3. CASE TxDisable \/ TxFinish \/ SolverSet \/ UNCHANGED vars
  BY Zenon, <1>1, <1>3 DEF TxDisable, TxFinish, SolverSet, vars, threadVars, drvVars, bufVars, cacheVars
<1>4. QED
  BY Zenon, <1>2, <1>3, CallsKeepFlight, InvalidateKeepsFlight, WaitKeepsFlight,
     ClaimKeepsFlight, ArmKeepsFlight, ReclaimKeepsFlight, FlushKeepsFlight DEF Next

\* It holds before any call.
LEMMA FlightInit ==
    ASSUME Init
    PROVE  FlightInv
<1>1. CleanInv
  <2>1. /\ rsc \in Rscs /\ in_use = {} /\ regs = [m \in AllTcs |-> Empty]
        /\ slots = [g \in Group |-> {}]
    BY Zenon DEF Init
  <2>2. Tcs("wake") \subseteq AllTcs /\ Tcs("active") \subseteq AllTcs
    BY DEF AllTcs, Group
  <2>3. QED
    BY <2>1, <2>2 DEF CleanInv, Empty
<1>2. ASSUME NEW t \in Thread PROVE ClaimInv(t)
  <2>1. pc = [u \in Thread |-> "idle"] /\ msgs = [u \in Thread |-> <<>>]
    BY Zenon DEF Init
  <2>2. pc[t] = "idle" /\ msgs[t] = <<>>
    BY <2>1
  <2>3. pc[t] \notin {"claim", "arm"}
    BY <2>2
  <2>4. QED
    BY Zenon, <2>2, <2>3, EmptyList DEF ClaimInv
<1>3. ListInv /\ OneInflight
  <2>1. cached = <<>> /\ batch = <<>> /\ in_use = {}
    BY Zenon DEF Init
  <2>2. QED
    BY Zenon, <2>1, EmptyList DEF ListInv, OneInflight
<1>4. QED
  BY <1>1, <1>2, <1>3 DEF FlightInv

\* No resource is the target of two requests in flight: tcs_write looks through
\* the TCSs in use before it claims one, and what it has seen holds until the
\* commands are written and triggered.
THEOREM NeverTwiceInflight == Spec => []OneInflight
<1>1. FlightInv => OneInflight
  BY DEF FlightInv
<1>2. QED
  BY <1>1, FlightInit, FlightStep, InvInit, InvStep, RpmhAssumption, PTL DEF Spec
=============================================================================
