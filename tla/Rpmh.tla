-------------------------------- MODULE Rpmh --------------------------------
(***************************************************************************)
(* Votes for shared resources of the SoC (drivers/soc/qcom/rpmh.c and      *)
(* rpmh-rsc.c), with the interconnect voter that sends most of them        *)
(* (drivers/interconnect/qcom/bcm-voter.c).                                *)
(*                                                                         *)
(* A resource state coordinator (RSC) has groups of trigger command sets   *)
(* (TCS).  Threads send active votes through a free TCS and wait for its   *)
(* interrupt; sleep and wake votes are cached, and rpmh_flush writes them  *)
(* into the sleep and wake TCSs when the last CPU goes down.  An RSC       *)
(* without active TCSs sends active votes through its wake TCSs.           *)
(*                                                                         *)
(* A step is a critical section of a lock, or what an unlocked stretch     *)
(* does between two accesses another CPU can interleave with.  A command   *)
(* is an address and a value.  A request is named by its thread and its    *)
(* place in the thread's batch; place 0 is the heap request of             *)
(* rpmh_write_async.                                                       *)
(***************************************************************************)
EXTENDS Naturals, Sequences, FiniteSets, FiniteSetsExt

CONSTANTS
    Writer,     \* threads of drivers that call rpmh_write and rpmh_write_async
    Voter,      \* the thread that commits for the interconnect voter
    AddrOf,     \* AddrOf[t]: the resource writer t votes for
    Bcm,        \* interconnect resources, as a sequence sorted by VCD
    Vcd,        \* Vcd[b]: the clock domain of resource b
    Changes,    \* the sets of BCMs that change together
    Val,        \* values of a vote
    Votes,      \* <<wake, sleep>> votes of a BCM
    Rscs,       \* the controllers: number of TCSs in each group
    NCPT,       \* commands per TCS
    MAX_RPMH_PAYLOAD,
    MAXOPS      \* bound: active votes and commits started

Group == {"active", "wake", "sleep"}

ASSUME RpmhAssumption ==
    /\ Voter \notin Writer /\ Bcm \in Seq(DOMAIN Vcd)
    /\ Rscs \subseteq [Group -> Nat]
    /\ \A r \in Rscs : r["active"] + r["wake"] > 0
    /\ MAX_RPMH_PAYLOAD \in Nat \ {0} /\ MAX_RPMH_PAYLOAD <= NCPT
    /\ MAXOPS \in Nat

VARIABLES
    rsc,      \* the controller at hand, fixed by the device tree
    cache,    \* ctrlr->cache: sleep and wake vote of an address
    cached,   \* ... the addresses on the list, in its order
    batch,    \* ctrlr->batch_cache: the batches, each a state and its messages
    dirty,    \* ctrlr->dirty
    solver,   \* in_solver_mode of the controller and of the driver
    votes,    \* <<wake, sleep>> vote of a BCM, the AMC vote being the wake one
    commit,   \* voter->commit_list
    ws,       \* voter->ws_list
    pc,       \* where a thread is
    kind,     \* the call it is in: "sync", "async" or "commit"; "failed" on an error
    msgs,     \* the messages of that call
    k,        \* the message it is sending
    tcs,      \* the TCS it has claimed for it
    irq_copy, \* IRQ_ENABLE as it read it
    live,     \* requests whose memory is not freed
    compl,    \* requests whose completion is done
    in_use,   \* drv->tcs_in_use
    req,      \* tcs->req: the request last sent from a TCS
    slots,    \* tcs->slots: the occupied slots of a group
    regs,     \* enabled commands of a TCS
    busy,     \* triggered TCSs the hardware has not finished
    irq_status,
    irq_enable,
    at,       \* tcs_tx_done: what it does next
    todo,     \* ... the TCSs of the IRQ_STATUS it has read that it has not come to
    done_tcs, done_req, \* ... the TCS it is at, and the request of it
    done_copy, \* ... IRQ_ENABLE as it read it
    ops       \* active votes and commits started

cacheVars  == <<cache, cached, batch, dirty>>
voterVars  == <<votes, commit, ws>>
threadVars == <<pc, kind, msgs, k, tcs, irq_copy>>
reqVars    == <<live, compl>>
drvVars    == <<in_use, req, irq_enable>>
hwVars     == <<busy, irq_status>>
bufVars    == <<slots, regs>>
isr        == <<at, todo, done_tcs, done_req, done_copy>>
vars == <<rsc, solver, cacheVars, voterVars, threadVars, reqVars, drvVars,
          hwVars, bufVars, isr, ops>>

Thread == Writer \union {Voter}
Bcms == Range(Bcm)
Addr == {AddrOf[t] : t \in Writer} \union Bcms
Cmd == [addr : Addr, data : Nat]
Tcs(g) == {<<g, i>> : i \in 0 .. rsc[g] - 1}
AllTcs == UNION {Tcs(g) : g \in Group}
Slot(g) == 0 .. rsc[g] * NCPT - 1
Req == Thread \X (0 .. Len(Bcm))
NoVal == 0          \* UINT_MAX: no vote
None == <<>>
Empty == <<>>       \* a TCS with no command enabled

\* get_tcs_for_msg: the TCSs an active vote goes through.
ActiveGroup == IF rsc["active"] > 0 THEN "active" ELSE "wake"

\* The request of thread t that is being sent.
Cur(t) == <<t, IF kind[t] = "async" THEN 0 ELSE k[t]>>
Owned(t) == {t} \X (Nat \ {0})

TypeOK ==
    /\ rsc \in Rscs
    /\ cache \in [{AddrOf[t] : t \in Writer} -> [sleep : Nat, wake : Nat]]
    /\ cached \in Seq(DOMAIN cache) /\ dirty \in BOOLEAN /\ solver \in BOOLEAN
    /\ commit \subseteq Bcms /\ ws \subseteq Bcms
    /\ pc \in [Thread -> {"idle", "sleep", "wake", "claim", "arm", "wait",
                         "v_sleep", "v_wake", "v_active", "v_ws"}]
    /\ kind \in [Thread -> {"sync", "async", "commit", "failed"}]
    /\ live \subseteq Req /\ compl \subseteq Req
    /\ in_use \subseteq AllTcs
    /\ irq_enable \subseteq AllTcs
    /\ busy \subseteq in_use /\ irq_status \subseteq in_use /\ todo \subseteq irq_status
    /\ at \in {"idle", "disable", "reclaim", "done"}
    /\ \A m \in AllTcs : DOMAIN regs[m] \subseteq 0 .. NCPT - 1
    /\ \A g \in Group : slots[g] \subseteq Slot(g)
    /\ ops \in 0 .. MAXOPS

Init ==
    /\ rsc \in Rscs
    /\ cache = [x \in {AddrOf[t] : t \in Writer} |-> [sleep |-> NoVal, wake |-> NoVal]]
    /\ cached = <<>> /\ batch = <<>> /\ dirty = FALSE /\ solver = FALSE
    /\ votes = [b \in Bcms |-> <<NoVal, NoVal>>] /\ commit = {} /\ ws = {}
    /\ pc = [t \in Thread |-> "idle"]
    /\ kind = [t \in Thread |-> "sync"]
    /\ msgs = [t \in Thread |-> <<>>]
    /\ k = [t \in Thread |-> 0]
    /\ tcs = [t \in Thread |-> None]
    /\ irq_copy = [t \in Thread |-> {}]
    /\ live = {} /\ compl = {}
    /\ in_use = {} /\ req = [m \in AllTcs |-> None]
    /\ slots = [g \in Group |-> {}]
    /\ regs = [m \in AllTcs |-> Empty]
    /\ busy = {} /\ irq_status = {}
    /\ irq_enable = Tcs("active")
    /\ at = "idle" /\ todo = {} /\ done_tcs = None /\ done_req = None /\ done_copy = {}
    /\ ops = 0

-----------------------------------------------------------------------------
(* The TCS buffers. *)

\* tcs_invalidate: it gives up at the first TCS in use, having cleared those
\* before it.
FirstInUse(g) == Min({rsc[g]} \union {m[2] : m \in Tcs(g) \intersect in_use})
CanInvalidate(g) == slots[g] = {} \/ FirstInUse(g) = rsc[g]
TcsInvalidate(g) ==
    /\ slots' = IF CanInvalidate(g) THEN [slots EXCEPT ![g] = {}] ELSE slots
    /\ regs' = IF slots[g] = {} THEN regs
               ELSE [m \in AllTcs |-> IF m[1] = g /\ m[2] < FirstInUse(g)
                                      THEN Empty ELSE regs[m]]

\* __tcs_buffer_write: msg written from command cmd_id on.
Places(i, msg) == {i + j - 1 : j \in DOMAIN msg}
BufferWrite(rg, m, cmd_id, msg) ==
    LET new == Places(cmd_id, msg)
    IN [rg EXCEPT ![m] = [j \in new \union DOMAIN @ |->
                             IF j \in new THEN msg[j - cmd_id + 1] ELSE @[j]]]

\* find_slots: the first free area that lies within one TCS.  The messages of
\* one flush have distinct addresses and start from empty slots, so find_match
\* never finds one of them there.
Fits(taken, g, msg) ==
    {i \in Slot(g) : (i % NCPT) + Len(msg) <= NCPT /\ Places(i, msg) \intersect taken = {}}

\* tcs_ctrl_write: one sleep or wake message into the buffers b, unless an
\* earlier one of the same list failed (-ENOMEM).
CtrlWrite(b, m) ==
    LET fit == Fits(b.slots[m.state], m.state, m.msg)
        i == Min(fit)
    IN IF ~b.ok THEN b
       ELSE IF fit = {} THEN [b EXCEPT !.ok = FALSE]
       ELSE [ok |-> TRUE,
             slots |-> [b.slots EXCEPT ![m.state] = @ \union Places(i, m.msg)],
             regs |-> BufferWrite(b.regs, <<m.state, i \div NCPT>>, i % NCPT, m.msg)]

WriteAll(b, state, list) ==
    LET w[i \in 0 .. Len(list)] ==
            IF i = 0 THEN b ELSE CtrlWrite(w[i - 1], [state |-> state, msg |-> list[i]])
    IN w[Len(list)]

\* flush_batch: an error ends its batch, and what is returned is the result of
\* the last one.
FlushBatch(b) ==
    LET w[i \in 0 .. Len(batch)] ==
            IF i = 0 THEN b
            ELSE WriteAll([w[i - 1] EXCEPT !.ok = TRUE], batch[i].state, batch[i].msgs)
    IN w[Len(batch)]

\* is_req_valid, and the send_single calls of rpmh_flush.
Valid(x) == /\ cache[x].sleep # NoVal /\ cache[x].wake # NoVal
            /\ cache[x].sleep # cache[x].wake
SendSingle(b, state, x) ==
    CtrlWrite(b, [state |-> state, msg |-> <<[addr |-> x, data |-> cache[x][state]]>>])
FlushSingles(b) ==
    LET w[i \in 0 .. Len(cached)] ==
            IF i = 0 THEN b
            ELSE IF ~Valid(cached[i]) THEN w[i - 1]
            ELSE SendSingle(SendSingle(w[i - 1], "sleep", cached[i]), "wake", cached[i])
    IN w[Len(cached)]

-----------------------------------------------------------------------------
(* The command lists of the voter. *)

\* tcs_list_gen: the numbers of commands per message, for a list of BCMs
\* sorted by VCD.  n has one entry per message begun so far.
TcsListGen(list) ==
    LET Ends(i) == i = Len(list) \/ Vcd[list[i]] # Vcd[list[i + 1]]
        Add(g, i) ==
            LET b == Len(g.n)
                full == g.n[b] + 1 >= MAX_RPMH_PAYLOAD
                size == g.vcd_size + 1
            IN [vcd_size |-> IF Ends(i) THEN 0 ELSE size,
                n |-> IF ~full THEN [g.n EXCEPT ![b] = @ + 1]
                      ELSE IF Ends(i) THEN Append([g.n EXCEPT ![b] = @ + 1], 0)
                      ELSE Append([g.n EXCEPT ![b] = size], size)]
        gen[i \in 0 .. Len(list)] ==
            IF i = 0 THEN [vcd_size |-> 0, n |-> <<0>>] ELSE Add(gen[i - 1], i)
    IN gen[Len(list)].n

\* list_sort by VCD.
Sorted(S) == SelectSeq(Bcm, LAMBDA b : b \in S)

\* rpmh_write_batch counts the messages up to the first n[i] = 0, which comes
\* last, and cuts the list into messages of n[i] commands.  The votes are those
\* of bucket 1 (AMC and WAKE) or 2 (SLEEP).
Count(S) == LET n == TcsListGen(Sorted(S)) IN Cardinality({i \in DOMAIN n : n[i] > 0})
Message(S, vt, bucket, i) ==
    LET list == Sorted(S)
        n == TcsListGen(list)
        pos[j \in 0 .. Len(n)] == IF j = 0 THEN 0 ELSE pos[j - 1] + n[j]
        Vote(b) == [addr |-> b, data |-> vt[b][bucket]]
    IN [j \in 1 .. n[i] |-> Vote(list[pos[i - 1] + j])]
Messages(S, vt, bucket, count) == [i \in 1 .. count |-> Message(S, vt, bucket, i)]

-----------------------------------------------------------------------------
(* Calls that begin. *)

\* cache_rpm_request adds an address to the list the first time it is voted for.
CacheAdd(x) == IF x \in Range(cached) THEN cached ELSE Append(cached, x)

\* Mutant: a vote that does not change anything clears dirty.
WriteCachedClears(t, state, v) ==
    /\ pc[t] = "idle" /\ t \in Writer
    /\ LET x == AddrOf[t]
       IN /\ cache' = [cache EXCEPT ![x][state] = v] /\ cached' = CacheAdd(x)
          /\ dirty' = (cache[x][state] # v)
    /\ UNCHANGED <<rsc, solver, batch, voterVars, threadVars, reqVars, drvVars, hwVars,
                   bufVars, isr, ops>>

\* cache_rpm_request for a sleep or wake vote; rpmh_write and rpmh_write_async
\* end here, tx_done being spoofed.
WriteCached(t, state, v) ==
    /\ pc[t] = "idle" /\ t \in Writer
    /\ LET x == AddrOf[t]
       IN /\ cache' = [cache EXCEPT ![x][state] = v] /\ cached' = CacheAdd(x)
          /\ dirty' = (dirty \/ cache[x][state] # v)
    /\ UNCHANGED <<rsc, solver, batch, voterVars, threadVars, reqVars, drvVars, hwVars,
                   bufVars, isr, ops>>

\* Where a thread begins to send a message: get_tcs_for_msg invalidates the
\* sleep and wake TCSs first when there is no active one.
SendEntry == IF ActiveGroup = "active" THEN "claim" ELSE "sleep"

Start(t, knd, list) ==
    /\ pc' = [pc EXCEPT ![t] = SendEntry]
    /\ kind' = [kind EXCEPT ![t] = knd]
    /\ msgs' = [msgs EXCEPT ![t] = list]
    /\ k' = [k EXCEPT ![t] = 1]
    /\ live' = live \union (IF knd = "async" THEN {<<t, 0>>}
                            ELSE {<<t, i>> : i \in 1 .. Len(list)})
    /\ UNCHANGED <<tcs, irq_copy, compl>>

\* rpmh_write or rpmh_write_async of an active vote, up to the send.  In solver
\* mode check_ctrlr_state returns -EBUSY and nothing happens.
WriteActive(t, v, knd) ==
    /\ pc[t] = "idle" /\ t \in Writer
    /\ ops < MAXOPS /\ ops' = ops + 1
    /\ ~solver
    /\ knd = "async" => <<t, 0>> \notin live
    /\ LET x == AddrOf[t]
           slept == cache[x].sleep # NoVal
       IN /\ cache' = IF slept THEN [cache EXCEPT ![x].wake = v] ELSE cache
          /\ cached' = CacheAdd(x)
          /\ dirty' = (dirty \/ slept)
          /\ Start(t, knd, <<<<[addr |-> x, data |-> v]>>>>)
    /\ UNCHANGED <<rsc, solver, batch, voterVars, drvVars, hwVars, bufVars, isr>>

\* qcom_icc_bcm_voter_add of the BCMs of S, whose votes change, then
\* qcom_icc_bcm_voter_commit up to the invalidation of the TCSs, which begins
\* when tcs_list_gen has given it something to send.
Commit(S, vote) ==
    /\ pc[Voter] = "idle"
    /\ ops < MAXOPS /\ ops' = ops + 1
    /\ votes' = [b \in Bcms |-> IF b \in S THEN vote ELSE votes[b]]
    /\ commit' = S /\ ws' = ws \union S
    /\ \E count \in 1 .. Len(Bcm) :
          /\ count = Count(S)
          /\ msgs' = [msgs EXCEPT ![Voter] = Messages(S, votes', 1, count)]
    /\ batch' = <<>> /\ dirty' = TRUE
    /\ pc' = [pc EXCEPT ![Voter] = "v_sleep"]
    /\ UNCHANGED <<rsc, solver, cache, cached, kind, k, tcs, irq_copy, reqVars, drvVars,
                   hwVars, bufVars, isr>>

\* rpmh_invalidate: sleep, then wake TCSs, from the start again on -EAGAIN.
VoterInvalidate ==
    /\ pc[Voter] \in {"v_sleep", "v_wake"}
    /\ LET g == IF pc[Voter] = "v_sleep" THEN "sleep" ELSE "wake"
       IN /\ TcsInvalidate(g)
          /\ pc' = [pc EXCEPT ![Voter] =
                      IF ~CanInvalidate(g) THEN "v_sleep"
                      ELSE IF g = "sleep" THEN "v_wake" ELSE "v_active"]
    /\ UNCHANGED <<rsc, solver, cacheVars, voterVars, kind, msgs, k, tcs, irq_copy, reqVars,
                   drvVars, hwVars, isr, ops>>

\* rpmh_write_batch of the AMC votes; -EBUSY (solver mode) is ignored.
VoterActive ==
    /\ pc[Voter] = "v_active"
    /\ IF solver THEN /\ pc' = [pc EXCEPT ![Voter] = "v_ws"]
                      /\ msgs' = [msgs EXCEPT ![Voter] = <<>>]
                      /\ UNCHANGED <<kind, k, tcs, irq_copy, reqVars>>
       ELSE Start(Voter, "commit", msgs[Voter])
    /\ UNCHANGED <<rsc, solver, cacheVars, voterVars, drvVars, hwVars, bufVars, isr, ops>>

\* The rest of the commit: wake and sleep votes of the BCMs that change with
\* the power state, as one batch each.
VoterCache ==
    /\ pc[Voter] = "v_ws"
    /\ LET S == {b \in ws : votes[b][1] # votes[b][2]}
       IN /\ ws' = S
          /\ IF S = {} THEN UNCHANGED <<batch, dirty>>
             ELSE /\ \E count \in 1 .. Len(Bcm) :
                       /\ count = Count(S)
                       /\ batch' = batch \o
                            <<[state |-> "wake", msgs |-> Messages(S, votes, 1, count)],
                              [state |-> "sleep", msgs |-> Messages(S, votes, 2, count)]>>
                  /\ dirty' = TRUE
    /\ commit' = {}
    /\ pc' = [pc EXCEPT ![Voter] = "idle"]
    /\ UNCHANGED <<rsc, solver, cache, cached, votes, kind, msgs, k, tcs, irq_copy, reqVars,
                   drvVars, hwVars, bufVars, isr, ops>>

-----------------------------------------------------------------------------
(* rpmh_rsc_send_data: tcs_write until it does not return -EBUSY. *)

\* The locals of a call that returns are gone.
EndCall(t) ==
    /\ kind' = [kind EXCEPT ![t] = "sync"]
    /\ msgs' = [msgs EXCEPT ![t] = <<>>]
    /\ k' = [k EXCEPT ![t] = 0]

\* Mutant: the batch waits for the message that failed, too.
FailWaitsAll(t) ==
    IF kind[t] = "async"
    THEN /\ pc' = [pc EXCEPT ![t] = "idle"]
         /\ EndCall(t)
    ELSE /\ pc' = [pc EXCEPT ![t] = "wait"]
         /\ kind' = [kind EXCEPT ![t] = "failed"]
         /\ UNCHANGED <<msgs, k>>

\* An error of tcs_write: a batch still waits for the messages it has sent.
\* The heap request of rpmh_write_async is not freed.
Fail(t) ==
    IF kind[t] = "async"
    THEN /\ pc' = [pc EXCEPT ![t] = "idle"]
         /\ EndCall(t)
    ELSE /\ pc' = [pc EXCEPT ![t] = "wait"]
         /\ kind' = [kind EXCEPT ![t] = "failed"]
         /\ msgs' = [msgs EXCEPT ![t] = [i \in 1 .. k[t] - 1 |-> @[i]]]
         /\ UNCHANGED k

\* get_tcs_for_msg on an RSC without active TCSs; -EAGAIN is not retried.
SendInvalidate(t) ==
    /\ pc[t] \in {"sleep", "wake"}
    /\ TcsInvalidate(pc[t])
    /\ IF CanInvalidate(pc[t])
       THEN /\ pc' = [pc EXCEPT ![t] = IF @ = "sleep" THEN "wake" ELSE "claim"]
            /\ UNCHANGED <<kind, msgs, k>>
       ELSE Fail(t)
    /\ UNCHANGED <<rsc, solver, cacheVars, voterVars, tcs, irq_copy, reqVars, drvVars,
                   hwVars, isr, ops>>

\* tcs->lock is held from the claim of a TCS until it is triggered.
LockFree == \A t \in Thread : pc[t] # "arm"

\* Mutant: a TCS that has finished but is not reclaimed is passed over.
InflightBusy(msg) ==
    \E m \in Tcs(ActiveGroup) \intersect busy : \E j \in DOMAIN regs[m] :
        \E i \in DOMAIN msg : regs[m][j].addr = msg[i].addr

\* check_for_req_inflight
Inflight(msg) ==
    \E m \in Tcs(ActiveGroup) \intersect in_use : \E j \in DOMAIN regs[m] :
        \E i \in DOMAIN msg : regs[m][j].addr = msg[i].addr
Free == Tcs(ActiveGroup) \ in_use
MustRetry(t) == Inflight(msgs[t][k[t]]) \/ Free = {}

\* tcs_write in solver mode: -EINVAL.
ClaimRefused(t) ==
    /\ pc[t] = "claim" /\ LockFree
    /\ solver
    /\ Fail(t)
    /\ UNCHANGED <<rsc, solver, cacheVars, voterVars, tcs, irq_copy, reqVars, drvVars,
                   hwVars, bufVars, isr, ops>>

\* -EBUSY: rpmh_rsc_send_data calls tcs_write again, from its beginning.
ClaimBusy(t) ==
    /\ pc[t] = "claim" /\ LockFree
    /\ ~solver /\ MustRetry(t)
    /\ pc' = [pc EXCEPT ![t] = SendEntry]
    /\ UNCHANGED <<rsc, solver, cacheVars, voterVars, kind, msgs, k, tcs, irq_copy, reqVars,
                   drvVars, hwVars, bufVars, isr, ops>>

\* find_free_tcs and the claim of the TCS, under drv->lock.  IRQ_ENABLE is read
\* here and written back in Arm.
Claim(t) ==
    /\ pc[t] = "claim" /\ LockFree
    /\ ~solver /\ ~MustRetry(t)
    /\ \E m \in Free : /\ \A n \in Free : m[2] <= n[2]
                       /\ in_use' = in_use \union {m}
                       /\ req' = [req EXCEPT ![m] = Cur(t)]
                       /\ tcs' = [tcs EXCEPT ![t] = m]
    /\ irq_copy' = [irq_copy EXCEPT ![t] = irq_enable]
    /\ pc' = [pc EXCEPT ![t] = "arm"]
    /\ UNCHANGED <<rsc, solver, cacheVars, voterVars, kind, msgs, k, reqVars, irq_enable,
                   hwVars, bufVars, isr, ops>>

\* The rest of tcs_write: enable_tcs_irq for a wake TCS, __tcs_buffer_write and
\* __tcs_trigger.  A batch goes on with its next message.
Arm(t) ==
    /\ pc[t] = "arm"
    /\ irq_enable' = IF ActiveGroup = "active" THEN irq_enable
                     ELSE irq_copy[t] \union {tcs[t]}
    /\ regs' = BufferWrite(regs, tcs[t], 0, msgs[t][k[t]])
    /\ busy' = busy \union {tcs[t]}
    /\ tcs' = [tcs EXCEPT ![t] = None]
    /\ irq_copy' = [irq_copy EXCEPT ![t] = {}]
    /\ IF k[t] < Len(msgs[t])
       THEN /\ pc' = [pc EXCEPT ![t] = SendEntry]
            /\ k' = [k EXCEPT ![t] = @ + 1]
            /\ UNCHANGED <<kind, msgs>>
       ELSE IF kind[t] = "async"
       THEN /\ pc' = [pc EXCEPT ![t] = "idle"]
            /\ EndCall(t)
       ELSE /\ pc' = [pc EXCEPT ![t] = "wait"]
            /\ UNCHANGED <<kind, msgs, k>>
    /\ UNCHANGED <<rsc, solver, cacheVars, voterVars, reqVars, in_use, req,
                   irq_status, slots, isr, ops>>

\* Mutant: only the completion of the last message is waited for.
ReturnOnLast(t) ==
    /\ pc[t] = "wait"
    /\ Len(msgs[t]) > 0 => <<t, Len(msgs[t])>> \in compl
    /\ live' = live \ Owned(t) /\ compl' = compl \ Owned(t)
    /\ pc' = [pc EXCEPT ![t] = IF kind[t] = "commit" THEN "v_ws" ELSE "idle"]
    /\ commit' = IF t = Voter /\ kind[t] = "failed" THEN {} ELSE commit
    /\ EndCall(t)
    /\ UNCHANGED <<rsc, solver, cacheVars, votes, ws, tcs, irq_copy, drvVars,
                   hwVars, bufVars, isr, ops>>

\* The completions a call waits for have come: it returns, and its requests,
\* on the stack or in the batch, are gone.  A commit whose active votes failed
\* drops its list.
Return(t) ==
    /\ pc[t] = "wait"
    /\ \A i \in 1 .. Len(msgs[t]) : <<t, i>> \in compl
    /\ live' = live \ Owned(t) /\ compl' = compl \ Owned(t)
    /\ pc' = [pc EXCEPT ![t] = IF kind[t] = "commit" THEN "v_ws" ELSE "idle"]
    /\ commit' = IF t = Voter /\ kind[t] = "failed" THEN {} ELSE commit
    /\ EndCall(t)
    /\ UNCHANGED <<rsc, solver, cacheVars, votes, ws, tcs, irq_copy, drvVars,
                   hwVars, bufVars, isr, ops>>

-----------------------------------------------------------------------------
(* The hardware, the interrupt handler, solver mode and the flush. *)

\* The RSC has sent the commands of TCS m.
TcsComplete(m) ==
    /\ m \in busy
    /\ busy' = busy \ {m}
    /\ irq_status' = irq_status \union {m}
    /\ UNCHANGED <<rsc, solver, cacheVars, voterVars, threadVars, reqVars, drvVars, bufVars,
                   isr, ops>>

\* tcs_tx_done turns to the next TCS of the IRQ_STATUS it has read, which it
\* reads when an interrupt is raised.  Where wake TCSs carry active votes, it
\* reads IRQ_ENABLE (enable_tcs_irq, not under drv->lock).
Raised == IF todo # {} THEN todo
          ELSE IF irq_status \intersect irq_enable # {} THEN irq_status ELSE {}
TxDone(m) ==
    /\ at = "idle"
    /\ m \in Raised /\ \A n \in Raised : m[2] <= n[2]
    /\ todo' = Raised \ {m}
    /\ done_tcs' = m /\ done_req' = req[m]
    /\ IF ActiveGroup = "active" THEN at' = "reclaim" /\ done_copy' = {}
       ELSE at' = "disable" /\ done_copy' = irq_enable
    /\ UNCHANGED <<rsc, solver, cacheVars, voterVars, threadVars, reqVars, drvVars, hwVars,
                   bufVars, ops>>

\* ... and writes it back without the bit of m.
TxDisable ==
    /\ at = "disable"
    /\ irq_enable' = done_copy \ {done_tcs}
    /\ at' = "reclaim" /\ done_copy' = {}
    /\ UNCHANGED <<rsc, solver, cacheVars, voterVars, threadVars, reqVars, in_use, req,
                   hwVars, bufVars, todo, done_tcs, done_req, ops>>

\* Mutant: the TCS stays marked in use.
TxReclaimKeeps ==
    /\ at = "reclaim" /\ LockFree
    /\ regs' = [regs EXCEPT ![done_tcs] = Empty]
    /\ irq_status' = irq_status \ {done_tcs}
    /\ at' = "done"
    /\ UNCHANGED <<rsc, solver, cacheVars, voterVars, threadVars, reqVars, drvVars,
                   busy, slots, todo, done_tcs, done_req, done_copy, ops>>

\* Mutant: the interrupt is not cleared.
TxReclaimRaised ==
    /\ at = "reclaim" /\ LockFree
    /\ regs' = [regs EXCEPT ![done_tcs] = Empty]
    /\ in_use' = in_use \ {done_tcs}
    /\ at' = "done"
    /\ UNCHANGED <<rsc, solver, cacheVars, voterVars, threadVars, reqVars, req, irq_enable,
                   hwVars, slots, todo, done_tcs, done_req, done_copy, ops>>

\* Reclaim the TCS: commands and interrupt cleared, then tcs_in_use, which
\* takes drv->lock.
TxReclaim ==
    /\ at = "reclaim" /\ LockFree
    /\ regs' = [regs EXCEPT ![done_tcs] = Empty]
    /\ irq_status' = irq_status \ {done_tcs}
    /\ in_use' = in_use \ {done_tcs}
    /\ at' = "done"
    /\ UNCHANGED <<rsc, solver, cacheVars, voterVars, threadVars, reqVars, req, irq_enable,
                   busy, slots, todo, done_tcs, done_req, done_copy, ops>>

\* rpmh_tx_done: wake the caller, or free the heap request.
TxFinish ==
    /\ at = "done"
    /\ IF done_req[2] = 0
       THEN live' = live \ {done_req} /\ UNCHANGED compl
       ELSE compl' = compl \union {done_req} /\ UNCHANGED live
    /\ at' = "idle" /\ done_tcs' = None /\ done_req' = None
    /\ UNCHANGED <<rsc, solver, cacheVars, voterVars, threadVars, drvVars, hwVars, bufVars,
                   todo, done_copy, ops>>

\* rpmh_mode_solver_set: spins until the TCSs of active votes are free.  The
\* display RSC is the one that is put in solver mode (sde_rsc.c).
SolverSet ==
    /\ ActiveGroup = "wake"
    /\ Free = Tcs(ActiveGroup)
    /\ solver' = ~solver
    /\ UNCHANGED <<rsc, cacheVars, voterVars, threadVars, reqVars, drvVars, hwVars, bufVars,
                   isr, ops>>

\* rpmh_flush, by the last CPU once rpmh_ctrlr_idle holds, or by the display
\* driver once its TCSs are idle: "no other RPMH API would be executing".
Flush ==
    /\ dirty
    /\ \A t \in Thread : pc[t] = "idle"
    /\ Free = Tcs(ActiveGroup) /\ at = "idle"
    /\ LET b0 == [ok |-> TRUE, slots |-> [g \in Group |-> {}],
                  regs |-> [m \in AllTcs |-> IF slots[m[1]] = {} THEN regs[m] ELSE Empty]]
           b == FlushSingles(FlushBatch(b0))
       IN /\ slots' = b.slots /\ regs' = b.regs
          /\ dirty' = ~b.ok
    /\ UNCHANGED <<rsc, solver, cache, cached, batch, voterVars, threadVars, reqVars, drvVars,
                   hwVars, isr, ops>>

Next ==
    \/ \E t \in Writer, v \in Val :
          \/ \E state \in {"sleep", "wake"} : WriteCached(t, state, v)
          \/ \E knd \in {"sync", "async"} : WriteActive(t, v, knd)
    \/ \E S \in Changes, vote \in Votes : Commit(S, vote)
    \/ VoterInvalidate \/ VoterActive \/ VoterCache
    \/ \E t \in Thread : \/ SendInvalidate(t) \/ ClaimRefused(t) \/ ClaimBusy(t)
                         \/ Claim(t) \/ Arm(t) \/ Return(t)
    \/ \E m \in AllTcs : TcsComplete(m) \/ TxDone(m)
    \/ TxDisable \/ TxReclaim \/ TxFinish
    \/ SolverSet \/ Flush

Spec == Init /\ [][Next]_vars

-----------------------------------------------------------------------------
(* Fairness: threads that are in a call run on (udelay and the completions   *)
(* are all they wait for), the RSC finishes a triggered TCS, and an          *)
(* interrupt that is raised is handled.                                      *)

Step(t) ==
    \/ SendInvalidate(t) \/ ClaimRefused(t) \/ ClaimBusy(t) \/ Claim(t)
    \/ Arm(t) \/ Return(t)
Handler == TxDisable \/ TxReclaim \/ TxFinish \/ \E m \in AllTcs : TxDone(m)

FairSpec ==
    /\ Spec
    /\ \A t \in Thread : WF_vars(Step(t))
    /\ WF_vars(VoterInvalidate \/ VoterActive \/ VoterCache)
    /\ WF_vars(\E m \in AllTcs : TcsComplete(m))
    /\ WF_vars(Handler)

-----------------------------------------------------------------------------
(* Properties. *)

\* No resource is the target of two requests that are in flight at once: "the
\* h/w does not like if we send a request to the same address, when one is
\* already in-flight or being processed" (tcs_write).
OneInflight ==
    \A m, n \in in_use : m # n =>
        \A i \in DOMAIN regs[m], j \in DOMAIN regs[n] :
            regs[m][i].addr # regs[n][j].addr

\* The request a TCS in use, or the interrupt handler, points to is in memory
\* that has not been freed or left, and has not been completed before: the
\* handler never signals a completion of a call that has returned.
NoStaleRequest ==
    /\ \A m \in in_use : req[m] \in live \ compl
    /\ at # "idle" => done_req \in live \ compl
    /\ \A m, n \in in_use : m # n => req[m] # req[n]
    /\ at = "done" => \A m \in in_use : req[m] # done_req

\* A call that waits (rpmh_write, rpmh_write_batch) waits for requests that
\* are completed or on their way: sent from a TCS in use, or with the handler.
WaitIsServed ==
    \A t \in Thread : pc[t] = "wait" =>
        \A i \in 1 .. Len(msgs[t]) :
            \/ <<t, i>> \in compl
            \/ \E m \in in_use : req[m] = <<t, i>>
            \/ at = "done" /\ done_req = <<t, i>>

\* The sleep and wake votes clients have asked for: of the drivers, those of
\* is_req_valid; of the voter, those of BCMs whose two votes differ.
Wanted(g) ==
    {[addr |-> x, data |-> cache[x][g]] : x \in {y \in DOMAIN cache : Valid(y)}}
    \union {[addr |-> b, data |-> votes[b][IF g = "wake" THEN 1 ELSE 2]] :
             b \in {c \in ws : votes[c][1] # votes[c][2]}}
Programmed(g) == UNION {Range(regs[m]) : m \in Tcs(g)}

\* When dirty is clear, so that rpmh_flush skips ("TCS has latest data"), the
\* sleep and the wake TCSs hold the votes the clients last asked for, all of
\* them and no other, on an RSC that has active TCSs.
FlushedLatest ==
    ~dirty /\ ActiveGroup = "active" =>
        \A g \in {"sleep", "wake"} : Programmed(g) = Wanted(g)

\* The active votes of a commit are those of every BCM on the list, each once:
\* tcs_list_gen cuts the list "to ensure that every BCM is committed".
EveryBcmCommitted ==
    kind[Voter] = "commit" =>
        LET sent == {p \in (DOMAIN msgs[Voter]) \X (1 .. Len(Bcm)) :
                        p[2] \in DOMAIN msgs[Voter][p[1]]}
        IN /\ Cardinality(sent) = Cardinality(commit)
           /\ \A b \in commit : \E p \in sent :
                msgs[Voter][p[1]][p[2]] = [addr |-> b, data |-> votes[b][1]]

\* Every call returns: a thread that sends a vote, or commits, is through with
\* it in the end.
CallReturns == \A t \in Thread : []<>(pc[t] = "idle")
==============================================================================
