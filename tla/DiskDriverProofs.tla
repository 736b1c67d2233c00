-------------------------- MODULE DiskDriverProofs --------------------------
(* Proofs about DiskDriver.  The inductive invariant IInv and the theorems *)
(* are at the end; before them one lemma per part of IInv says that every  *)
(* step keeps it.                                                          *)
EXTENDS DiskDriver, QueueLemmas

\* redeem_voucher's loop condition, an "or" of two ranges, holds of every int.
LEMMA StillWaitingForever == \A s \in Int : StillWaiting(s)
  BY DEF StillWaiting

\* An application thread has a descriptor exactly while it is busy with a
\* request; it is not in the store and no other thread has it.
SdInv ==
  /\ \A a \in Apps : sd[a] = NULL <=> pc[a] = "idle"
  /\ \A a \in Apps : sd[a] \notin fsds
  /\ \A a, b \in Apps : sd[a] = sd[b] /\ sd[a] # NULL => a = b

\* initFreeVoucher and the creation of the buffers establish the types and
\* that no thread has a descriptor.
LEMMA TypeInit == Init => TypeOK /\ SdInv
  BY DriverAssumption DEF Init, TypeOK, SdInv, Vouchers, AppPC, WorkerPC

\* The test of the loop always leads to the wait.
LEMMA TestWaits ==
  ASSUME TypeOK, NEW a \in Apps, TestStatus(a)
  PROVE  /\ pc[a] = "test"
         /\ waiting' = [waiting EXCEPT ![v[a]] = @ \cup {a}]
         /\ pc' = [pc EXCEPT ![a] = "wait"]
         /\ v_lock' = [v_lock EXCEPT ![v[a]] = NULL]
         /\ UNCHANGED <<pool, data, fsds, v, sd, tmp, ret, work>>
<1>1. StillWaiting(status[v[a]])
  BY StillWaitingForever DEF TypeOK
<1> QED
  BY <1>1 DEF TestStatus

\* No step of an application thread, in the driver or between two calls,
\* leaves the types.
LEMMA TypeApp ==
  ASSUME TypeOK, SdInv, NEW a \in Apps,
         \/ AcquireSd(a) \/ Release(a) \/ SpuriousWake(a)
         \/ QueueStep(a) \/ RedeemStep(a) \/ RecycleStep(a)
  PROVE  TypeOK'
<1> USE DEF TypeOK, pool, data, sync, app, work
<1>0. v[a] \in Vouchers /\ Dir(a) \in Dirs
  BY DEF Dir, Dirs
<1>1. CASE AcquireSd(a)
  BY <1>1 DEF AcquireSd, AppPC
<1>2. CASE Release(a)
  BY <1>2 DEF Release, AppPC, SdInv
<1>3. CASE SpuriousWake(a)
  BY <1>3 DEF SpuriousWake
<1>4. CASE AssignVoucher(a)
  BY <1>4, TailElems DEF AssignVoucher, AppPC
<1>5. CASE FillVoucher(a)
  BY <1>5, <1>0 DEF FillVoucher, AppPC
<1>6. CASE Enqueue(a)
  BY <1>6, <1>0, AppendElems DEF Enqueue, AppPC
<1>7. CASE QueueFull(a)
  BY <1>7 DEF QueueFull, AppPC
<1>8. CASE LoadStatus(a)
  BY <1>8, <1>0 DEF LoadStatus, AppPC
<1>9. CASE StoreStatus(a)
  BY <1>9, <1>0 DEF StoreStatus, AppPC
<1>10. CASE LockForRedeem(a)
  BY <1>10, <1>0 DEF LockForRedeem, AppPC
<1>11. CASE TestStatus(a)
  <2>1. waiting' = [waiting EXCEPT ![v[a]] = waiting[v[a]] \cup {a}]
    BY <1>11, TestWaits
  <2>2. waiting' \in [Vouchers -> SUBSET Apps]
    BY <1>0, <2>1
  <2> QED
    BY <1>11, <1>0, <2>2, TestWaits DEF AppPC
<1>12. CASE LockAndReset(a)
  BY <1>12, <1>0 DEF LockAndReset, AppPC
<1>13. CASE PutVoucher(a)
  BY <1>13, <1>0, AppendElems DEF PutVoucher, AppPC
<1>14. CASE UnlockVoucher(a)
  BY <1>14, <1>0 DEF UnlockVoucher, AppPC
<1> QED
  BY <1>1, <1>2, <1>3, <1>4, <1>5, <1>6, <1>7, <1>8, <1>9, <1>10, <1>11,
     <1>12, <1>13, <1>14
  DEF QueueStep, RedeemStep, RecycleStep, BlockingWrite, NonblockingWrite

\* No step of a worker thread leaves the types.
LEMMA TypeWorker ==
  ASSUME TypeOK, NEW d \in Dirs, WorkerStep(d)
  PROVE  TypeOK'
<1> USE DEF TypeOK, pool, data, sync, app, work
<1>0. wv[d] \in Vouchers /\ bb[d] \in Seq(Vouchers)
  OBVIOUS
<1>1. CASE Take(d)
  BY <1>1, <1>0, TailElems DEF Take, WorkerPC
<1>2. CASE LockForDevice(d)
  BY <1>2, <1>0 DEF LockForDevice, WorkerPC
<1>3. CASE DeviceReturns(d)
  BY <1>3, <1>0 DEF DeviceReturns, WorkerPC
<1>4. CASE UnlockAfterDevice(d)
  BY <1>4, <1>0 DEF UnlockAfterDevice, WorkerPC
<1>5. CASE Broadcast(d)
  BY <1>5, <1>0 DEF Broadcast, WorkerPC
<1> QED
  BY <1>1, <1>2, <1>3, <1>4, <1>5 DEF WorkerStep

\* Every step keeps descriptors with one thread: only the application takes
\* and releases them, whatever the driver does.
LEMMA SdStep ==
  ASSUME TypeOK, SdInv, Next
  PROVE  SdInv'
<1> USE DEF TypeOK, SdInv, pool, data, sync, app, work
<1>1. ASSUME NEW a \in Apps, AcquireSd(a)
      PROVE  SdInv'
  BY <1>1, DriverAssumption DEF AcquireSd
<1>2. ASSUME NEW a \in Apps, Release(a)
      PROVE  SdInv'
  BY <1>2, DriverAssumption DEF Release
<1>3. ASSUME NEW a \in Apps, QueueStep(a)
      PROVE  SdInv'
  BY <1>3 DEF QueueStep, AssignVoucher, FillVoucher, BlockingWrite, NonblockingWrite,
              Enqueue, QueueFull, LoadStatus, StoreStatus
<1>4. ASSUME NEW a \in Apps, RedeemStep(a) \/ SpuriousWake(a)
      PROVE  SdInv'
  BY <1>4, TestWaits DEF RedeemStep, LockForRedeem, SpuriousWake
<1>5. ASSUME NEW a \in Apps, RecycleStep(a)
      PROVE  SdInv'
  BY <1>5 DEF RecycleStep, LockAndReset, PutVoucher, UnlockVoucher
<1>6. ASSUME NEW d \in Dirs, WorkerStep(d)
      PROVE  SdInv'
  BY <1>6 DEF WorkerStep, Take, LockForDevice, DeviceReturns, UnlockAfterDevice, Broadcast
<1> QED
  BY <1>1, <1>2, <1>3, <1>4, <1>5, <1>6 DEF Next

\* A step that moves no voucher between bbVoucher and its holder keeps the
\* accounts.
LEMMA SameHolders ==
  ASSUME VoucherConservation, UNCHANGED <<bbVoucher, v>>,
         \A b \in Apps : Holds(b)' <=> Holds(b)
  PROVE  VoucherConservation'
  BY DEF VoucherConservation

\* Every step keeps the accounts of vouchers: voucherAssignment takes one out
\* of bbVoucher, voucherRecyle and a refused call put the holder's back.
LEMMA ConservationStep ==
  ASSUME TypeOK, VoucherConservation, Next
  PROVE  VoucherConservation'
<1> USE DEF pool, data, sync, app, work
<1>0. /\ bbVoucher \in Seq(Vouchers)
      /\ pc \in [Apps -> AppPC]
      /\ v \in [Apps -> Vouchers]
  BY DEF TypeOK
<1>1. ASSUME NEW a \in Apps, AssignVoucher(a)
      PROVE  VoucherConservation'
  <2>1. /\ Head(bbVoucher) \in Vouchers
        /\ Range(bbVoucher) = {Head(bbVoucher)} \cup Range(bbVoucher')
        /\ IsInjective(bbVoucher') /\ Head(bbVoucher) \notin Range(bbVoucher')
    BY <1>0, <1>1, TailElems DEF AssignVoucher, VoucherConservation
  <2>2. /\ v' = [v EXCEPT ![a] = Head(bbVoucher)]
        /\ ~ Holds(a) /\ Holds(a)'
        /\ \A b \in Apps \ {a} : Holds(b)' <=> Holds(b)
    BY <1>0, <1>1 DEF AssignVoucher, Holds
  <2> QED
    BY <1>0, <2>1, <2>2 DEF VoucherConservation
<1>2. ASSUME NEW a \in Apps, PutVoucher(a)
      PROVE  VoucherConservation'
  <2>1. Holds(a) /\ ~ Holds(a)' /\ v' = v /\ \A b \in Apps \ {a} : Holds(b)' <=> Holds(b)
    BY <1>0, <1>2 DEF PutVoucher, Holds
  <2>2. /\ Range(bbVoucher') = Range(bbVoucher) \cup {v[a]}
        /\ IsInjective(bbVoucher')
    BY <1>0, <1>2, <2>1, AppendElems DEF PutVoucher, VoucherConservation
  <2> QED
    BY <1>0, <2>1, <2>2 DEF VoucherConservation
<1>3. ASSUME NEW a \in Apps, AcquireSd(a) \/ Release(a) \/ SpuriousWake(a)
      PROVE  VoucherConservation'
  BY <1>0, <1>3, SameHolders DEF AcquireSd, Release, SpuriousWake, Holds
<1>4. ASSUME NEW a \in Apps, QueueStep(a), ~ AssignVoucher(a)
      PROVE  VoucherConservation'
  BY <1>0, <1>4, SameHolders
  DEF QueueStep, FillVoucher, BlockingWrite, NonblockingWrite, Enqueue,
      QueueFull, LoadStatus, StoreStatus, Holds
<1>5. ASSUME NEW a \in Apps, RedeemStep(a)
      PROVE  VoucherConservation'
  BY <1>0, <1>5, SameHolders, TestWaits DEF RedeemStep, LockForRedeem, Holds
<1>6. ASSUME NEW a \in Apps, LockAndReset(a) \/ UnlockVoucher(a)
      PROVE  VoucherConservation'
  BY <1>0, <1>6, SameHolders DEF LockAndReset, UnlockVoucher, Holds
<1>7. ASSUME NEW d \in Dirs, WorkerStep(d)
      PROVE  VoucherConservation'
  BY <1>7, SameHolders
  DEF WorkerStep, Take, LockForDevice, DeviceReturns, UnlockAfterDevice, Broadcast, Holds
<1> QED
  BY <1>1, <1>2, <1>3, <1>4, <1>5, <1>6, <1>7 DEF Next, RecycleStep

\* A thread between lock and unlock of a voucher is the owner of its v_lock;
\* LockExclusion alone is not inductive, for it does not say who owns it.
LockInv ==
  /\ \A a \in Apps : AppLocked(a) => v_lock[v[a]] = a
  /\ \A d \in Dirs : WorkerLocked(d) => v_lock[wv[d]] = d

\* Two threads that both own one v_lock are one thread.
LEMMA LockInvExcludes == LockInv => LockExclusion
  BY DriverAssumption DEF LockInv, LockExclusion

\* Every step keeps the owners of the locks, a wake-up from the condition
\* variable (which takes the lock again) included.
LEMMA LockStep ==
  ASSUME TypeOK, LockInv, Next
  PROVE  LockInv'
<1> USE DriverAssumption DEF LockInv, AppLocked, WorkerLocked, pool, data, sync, app, work
<1>0. /\ pc \in [Apps -> AppPC] /\ wpc \in [Dirs -> WorkerPC]
      /\ v \in [Apps -> Vouchers] /\ wv \in [Dirs -> Vouchers]
      /\ v_lock \in [Vouchers -> Apps \cup Dirs \cup {NULL}]
  BY DEF TypeOK
<1>1. ASSUME NEW a \in Apps, AcquireSd(a) \/ Release(a) \/ SpuriousWake(a)
      PROVE  LockInv'
  BY <1>0, <1>1 DEF AcquireSd, Release, SpuriousWake
<1>2. ASSUME NEW a \in Apps, QueueStep(a)
      PROVE  LockInv'
  BY <1>0, <1>2
  DEF QueueStep, AssignVoucher, FillVoucher, BlockingWrite, NonblockingWrite, Enqueue,
      QueueFull, LoadStatus, StoreStatus
<1>3. ASSUME NEW a \in Apps, LockForRedeem(a)
      PROVE  LockInv'
  BY <1>0, <1>3 DEF LockForRedeem
<1>4. ASSUME NEW a \in Apps, TestStatus(a)
      PROVE  LockInv'
  BY <1>0, <1>4, TestWaits
<1>5. ASSUME NEW a \in Apps, LockAndReset(a)
      PROVE  LockInv'
  BY <1>0, <1>5 DEF LockAndReset
<1>6. ASSUME NEW a \in Apps, PutVoucher(a)
      PROVE  LockInv'
  BY <1>0, <1>6 DEF PutVoucher
<1>7. ASSUME NEW a \in Apps, UnlockVoucher(a)
      PROVE  LockInv'
  BY <1>0, <1>7 DEF UnlockVoucher
<1>8. ASSUME NEW d \in Dirs, Take(d) \/ DeviceReturns(d) \/ Broadcast(d)
      PROVE  LockInv'
  BY <1>0, <1>8 DEF Take, DeviceReturns, Broadcast
<1>9. ASSUME NEW d \in Dirs, LockForDevice(d)
      PROVE  LockInv'
  BY <1>0, <1>9 DEF LockForDevice
<1>10. ASSUME NEW d \in Dirs, UnlockAfterDevice(d)
       PROVE  LockInv'
  BY <1>0, <1>10 DEF UnlockAfterDevice
<1> QED
  BY <1>1, <1>2, <1>3, <1>4, <1>5, <1>6, <1>7, <1>8, <1>9, <1>10
  DEF Next, RedeemStep, RecycleStep, WorkerStep

\* A filled voucher carries its holder's request.
Filled ==
  \A a \in Apps : pc[a] \in {"blockingWrite", "nonblockingWrite"} =>
    vsd[v[a]] = sd[a] /\ request_t[v[a]] = Dir(a)

\* The request that u stands for is still a's.
Owner(a, u, d) ==
  Outstanding(a) /\ v[a] = u /\ Dir(a) = d /\ vsd[u] = sd[a] /\ request_t[u] = d

\* A voucher whose holder is not waiting for an outcome is not pending.
LEMMA NotPending ==
  ASSUME VoucherConservation, DeviceServesOwner, TypeOK,
         NEW a \in Apps, Holds(a), ~ Outstanding(a), NEW d \in Dirs
  PROVE  ~ Pending(v[a], d)
<1> SUFFICES ASSUME Pending(v[a], d)
             PROVE  FALSE
  OBVIOUS
<1>1. v[a] \in Vouchers
  BY DEF TypeOK
<1>2. PICK b \in Apps : Outstanding(b) /\ v[b] = v[a]
  BY <1>1 DEF DeviceServesOwner
<1>3. Holds(b)
  BY <1>2 DEF Outstanding, Holds
<1> QED
  BY <1>2, <1>3 DEF VoucherConservation

\* A step of application thread a that leaves queues and workers alone and
\* writes at most to a voucher that is not pending keeps every owner.
LEMMA SamePending ==
  ASSUME DeviceServesOwner, NEW a \in Apps, UNCHANGED <<bb, work>>,
         \A b \in Apps, u \in Vouchers, d \in Dirs :
            Pending(u, d) /\ Owner(b, u, d) => Owner(b, u, d)'
  PROVE  DeviceServesOwner'
<1>1. \A u \in Vouchers, d \in Dirs : Pending(u, d)' <=> Pending(u, d)
  BY DEF Pending, InHand, work
<1>2. \A u \in Vouchers, d \in Dirs :
        Pending(u, d) => \E b \in Apps : Owner(b, u, d)
  BY DEF DeviceServesOwner, Owner
<1>3. \A u \in Vouchers, d \in Dirs :
        Pending(u, d)' => \E b \in Apps : Owner(b, u, d)'
  BY <1>1, <1>2
<1>4. \A d \in Dirs : IsInjective(bb[d])' /\ (InHand(d)' => (wv[d] \notin Range(bb[d]))')
  BY DEF DeviceServesOwner, InHand, work
<1> QED
  BY <1>3, <1>4 DEF DeviceServesOwner, Owner

\* Every step keeps the requests that are queued or with the device equal to
\* what their holders asked for: blocking and nonblocking writes queue a filled
\* voucher, and nobody writes to one that is pending.
LEMMA DeviceStep ==
  ASSUME TypeOK, SdInv, VoucherConservation, DeviceServesOwner, Filled, Next
  PROVE  DeviceServesOwner'
<1> USE DEF pool, data, sync, app
<1>0. /\ pc \in [Apps -> AppPC] /\ v \in [Apps -> Vouchers]
      /\ bb \in [Dirs -> Seq(Vouchers)]
      /\ sd \in [Apps -> Sectors \cup {NULL}]
      /\ vsd \in [Vouchers -> Sectors \cup {NULL}]
      /\ request_t \in [Vouchers -> Dirs \cup {"none"}]
      /\ wpc \in [Dirs -> WorkerPC] /\ wv \in [Dirs -> Vouchers]
  BY DEF TypeOK
<1>a. \A a \in Apps : Dir(a) \in Dirs
  BY DEF Dir, Dirs
<1>1. ASSUME NEW a \in Apps, AcquireSd(a) \/ Release(a) \/ SpuriousWake(a) \/ AssignVoucher(a)
      PROVE  DeviceServesOwner'
  <2>1. UNCHANGED <<bb, work>>
    BY <1>1 DEF AcquireSd, Release, SpuriousWake, AssignVoucher
  <2>2. ASSUME NEW b \in Apps, NEW u \in Vouchers, NEW d \in Dirs, Owner(b, u, d)
        PROVE  Owner(b, u, d)'
    BY <1>0, <1>1, <2>2
    DEF AcquireSd, Release, SpuriousWake, AssignVoucher, Owner, Outstanding
  <2> QED
    BY <2>1, <2>2, SamePending
<1>2. ASSUME NEW a \in Apps, FillVoucher(a) \/ LockAndReset(a)
      PROVE  DeviceServesOwner'
  <2>1. \A d \in Dirs : ~ Pending(v[a], d)
    BY <1>2, NotPending DEF FillVoucher, LockAndReset, Holds, Outstanding
  <2>2. ASSUME NEW b \in Apps, NEW u \in Vouchers, NEW d \in Dirs,
               Pending(u, d), Owner(b, u, d)
        PROVE  Owner(b, u, d)'
    <3>1. u # v[a] /\ b # a
      BY <2>1, <2>2 DEF Owner
    <3> QED
      BY <1>0, <1>2, <2>2, <3>1 DEF FillVoucher, LockAndReset, Owner, Outstanding
  <2> QED
    BY <1>2, <2>2, SamePending DEF FillVoucher, LockAndReset
<1>3. ASSUME NEW a \in Apps, \/ QueueFull(a) \/ LoadStatus(a) \/ StoreStatus(a)
                            \/ PutVoucher(a) \/ UnlockVoucher(a)
      PROVE  DeviceServesOwner'
  <2>1. UNCHANGED <<bb, work>>
    BY <1>3 DEF QueueFull, LoadStatus, StoreStatus, PutVoucher, UnlockVoucher
  <2>2. ASSUME NEW b \in Apps, NEW u \in Vouchers, NEW d \in Dirs, Owner(b, u, d)
        PROVE  Owner(b, u, d)'
    BY <1>0, <1>3, <2>2
    DEF QueueFull, LoadStatus, StoreStatus, PutVoucher, UnlockVoucher, Owner, Outstanding
  <2> QED
    BY <2>1, <2>2, SamePending
<1>4. ASSUME NEW a \in Apps, RedeemStep(a)
      PROVE  DeviceServesOwner'
  BY <1>0, <1>4, SamePending, TestWaits DEF RedeemStep, LockForRedeem, Owner, Outstanding
<1>5. ASSUME NEW a \in Apps, BlockingWrite(a) \/ NonblockingWrite(a)
      PROVE  DeviceServesOwner'
  <2> DEFINE q == bb[Dir(a)]
  <2>1. /\ pc[a] \in {"blockingWrite", "nonblockingWrite"}
        /\ bb' = [bb EXCEPT ![Dir(a)] = Append(q, v[a])]
        /\ pc' = [pc EXCEPT ![a] = "load"]
        /\ UNCHANGED <<vsd, request_t, v, sd, work>>
    BY <1>5 DEF BlockingWrite, NonblockingWrite, Enqueue
  <2>2. \A d \in Dirs : ~ Pending(v[a], d)
    BY <2>1, NotPending DEF Holds, Outstanding
  <2>3. Range(Append(q, v[a])) = Range(q) \cup {v[a]} /\ IsInjective(Append(q, v[a]))
    BY <1>0, <1>a, <2>2, AppendElems DEF Pending, DeviceServesOwner
  <2>4. \A d \in Dirs : bb'[d] = IF d = Dir(a) THEN Append(q, v[a]) ELSE bb[d]
    BY <1>0, <1>a, <2>1
  <2>5. ASSUME NEW d \in Dirs
        PROVE  IsInjective(bb'[d]) /\ (InHand(d)' => wv'[d] \notin Range(bb'[d]))
    BY <2>1, <2>2, <2>3, <2>4 DEF DeviceServesOwner, Pending, InHand, work
  <2>6. ASSUME NEW d \in Dirs, NEW u \in Vouchers, Pending(u, d)'
        PROVE  \E b \in Apps : Owner(b, u, d)'
    <3>1. CASE Pending(u, d)
      <4>1. PICK b \in Apps : Owner(b, u, d)
        BY <3>1 DEF DeviceServesOwner, Owner
      <4>2. Owner(b, u, d)'
        BY <1>0, <2>1, <4>1 DEF Owner, Outstanding
      <4> QED
        BY <4>2
    <3>2. CASE ~ Pending(u, d)
      <4>1. u = v[a] /\ d = Dir(a)
        BY <2>1, <2>3, <2>4, <2>6, <3>2 DEF Pending, InHand, work
      <4>2. Owner(a, u, d)'
        BY <1>0, <2>1, <4>1 DEF Owner, Outstanding, Filled, Dir
      <4> QED
        BY <4>2
    <3> QED
      BY <3>1, <3>2
  <2> QED
    BY <2>5, <2>6 DEF DeviceServesOwner, Owner
<1>6. ASSUME NEW d \in Dirs, WorkerStep(d)
      PROVE  DeviceServesOwner'
  <2>1. /\ UNCHANGED <<vsd, request_t, v, sd, pc>>
        /\ \A e \in Dirs \ {d} : UNCHANGED <<bb[e], wpc[e], wv[e]>>
    BY <1>0, <1>6
    DEF WorkerStep, Take, LockForDevice, DeviceReturns, UnlockAfterDevice, Broadcast
  <2>2. /\ \A u \in Vouchers : Pending(u, d)' => Pending(u, d)
        /\ IsInjective(bb'[d])
        /\ InHand(d)' => wv'[d] \notin Range(bb'[d])
    <3>1. CASE Take(d)
      <4>1. /\ Range(bb[d]) = {wv'[d]} \cup Range(bb'[d])
            /\ IsInjective(bb'[d]) /\ wv'[d] \notin Range(bb'[d])
        BY <1>0, <3>1, TailElems DEF Take, DeviceServesOwner
      <4> QED
        BY <1>0, <3>1, <4>1 DEF Take, Pending, InHand
    <3>2. CASE LockForDevice(d) \/ DeviceReturns(d) \/ UnlockAfterDevice(d) \/ Broadcast(d)
      BY <1>0, <3>2
      DEF LockForDevice, DeviceReturns, UnlockAfterDevice, Broadcast, Pending, InHand,
          DeviceServesOwner
    <3> QED
      BY <1>6, <3>1, <3>2 DEF WorkerStep
  <2>3. ASSUME NEW e \in Dirs, NEW u \in Vouchers, Pending(u, e)'
        PROVE  \E b \in Apps : Owner(b, u, e)'
    <3>1. Pending(u, e)
      BY <2>1, <2>2, <2>3 DEF Pending, InHand
    <3>2. PICK b \in Apps : Owner(b, u, e)
      BY <3>1 DEF DeviceServesOwner, Owner
    <3>3. Owner(b, u, e)'
      BY <2>1, <3>2 DEF Owner, Outstanding
    <3> QED
      BY <3>3
  <2>4. \A e \in Dirs : IsInjective(bb'[e]) /\ (InHand(e)' => wv'[e] \notin Range(bb'[e]))
    BY <2>1, <2>2 DEF DeviceServesOwner, InHand
  <2> QED
    BY <2>3, <2>4 DEF DeviceServesOwner, Owner
<1> QED
  BY <1>1, <1>2, <1>3, <1>4, <1>5, <1>6 DEF Next, QueueStep, RecycleStep

\* A voucher stays as its holder filled it until it is queued or refused.
LEMMA FilledStep ==
  ASSUME TypeOK, SdInv, VoucherConservation, Filled, Next
  PROVE  Filled'
<1> USE DEF Filled, pool, data, sync, app, work
<1>0. /\ pc \in [Apps -> AppPC] /\ v \in [Apps -> Vouchers]
      /\ sd \in [Apps -> Sectors \cup {NULL}]
      /\ vsd \in [Vouchers -> Sectors \cup {NULL}]
      /\ request_t \in [Vouchers -> Dirs \cup {"none"}]
  BY DEF TypeOK
<1>a. \A a, b \in Apps : Holds(a) /\ Holds(b) /\ v[a] = v[b] => a = b
  BY DEF VoucherConservation
<1>1. ASSUME NEW a \in Apps, AcquireSd(a) \/ Release(a) \/ SpuriousWake(a)
      PROVE  Filled'
  BY <1>0, <1>1 DEF AcquireSd, Release, SpuriousWake, Dir
<1>2. ASSUME NEW a \in Apps, FillVoucher(a)
      PROVE  Filled'
  BY <1>0, <1>a, <1>2 DEF FillVoucher, Holds, Dir
<1>3. ASSUME NEW a \in Apps, LockAndReset(a)
      PROVE  Filled'
  BY <1>0, <1>a, <1>3 DEF LockAndReset, Holds, Dir
<1>4. ASSUME NEW a \in Apps, QueueStep(a), ~ FillVoucher(a)
      PROVE  Filled'
  BY <1>0, <1>4
  DEF QueueStep, AssignVoucher, BlockingWrite, NonblockingWrite, Enqueue, QueueFull,
      LoadStatus, StoreStatus, Dir
<1>5. ASSUME NEW a \in Apps, RedeemStep(a) \/ PutVoucher(a) \/ UnlockVoucher(a)
      PROVE  Filled'
  BY <1>0, <1>5, TestWaits DEF RedeemStep, LockForRedeem, PutVoucher, UnlockVoucher, Dir
<1>6. ASSUME NEW d \in Dirs, WorkerStep(d)
      PROVE  Filled'
  BY <1>6
  DEF WorkerStep, Take, LockForDevice, DeviceReturns, UnlockAfterDevice, Broadcast, Dir
<1> QED
  BY <1>1, <1>2, <1>3, <1>4, <1>5, <1>6 DEF Next, RecycleStep

\* No step gives a redeemer an outcome: the test of the status always leads
\* back to the wait.
LEMMA NoOutcomeStep ==
  ASSUME TypeOK, NoOutcomeRedeemed, Next
  PROVE  NoOutcomeRedeemed'
<1> USE DEF NoOutcomeRedeemed, TypeOK, pool, data, sync, app, work
<1>1. ASSUME NEW a \in Apps, AcquireSd(a) \/ Release(a) \/ SpuriousWake(a)
      PROVE  NoOutcomeRedeemed'
  BY <1>1 DEF AcquireSd, Release, SpuriousWake
<1>2. ASSUME NEW a \in Apps, QueueStep(a)
      PROVE  NoOutcomeRedeemed'
  BY <1>2
  DEF QueueStep, AssignVoucher, FillVoucher, BlockingWrite, NonblockingWrite, Enqueue,
      QueueFull, LoadStatus, StoreStatus
<1>3. ASSUME NEW a \in Apps, RedeemStep(a)
      PROVE  NoOutcomeRedeemed'
  BY <1>3, TestWaits DEF RedeemStep, LockForRedeem
<1>4. ASSUME NEW a \in Apps, RecycleStep(a)
      PROVE  NoOutcomeRedeemed'
  BY <1>4 DEF RecycleStep, LockAndReset, PutVoucher, UnlockVoucher
<1>5. ASSUME NEW d \in Dirs, WorkerStep(d)
      PROVE  NoOutcomeRedeemed'
  BY <1>5 DEF WorkerStep, Take, LockForDevice, DeviceReturns, UnlockAfterDevice, Broadcast
<1> QED
  BY <1>1, <1>2, <1>3, <1>4, <1>5 DEF Next

-----------------------------------------------------------------------------
(* The inductive invariant and what follows from it.                       *)

\* The inductive invariant: the properties themselves, what descriptors and
\* locks add, and that a voucher is filled before it is queued.
IInv ==
  /\ TypeOK /\ SdInv /\ NoOutcomeRedeemed
  /\ VoucherConservation /\ LockInv
  /\ DeviceServesOwner /\ Filled

\* The invariant holds when init_disk_driver returns.
LEMMA InitIInv == Init => IInv
<1> SUFFICES ASSUME Init
             PROVE  IInv
  OBVIOUS
<1>1. TypeOK /\ SdInv
  BY TypeInit
<1>2. NoOutcomeRedeemed /\ Filled
  BY DEF Init, NoOutcomeRedeemed, Filled
<1>3. LockInv
  BY DEF Init, LockInv, AppLocked, WorkerLocked
<1>4. DeviceServesOwner
  BY DEF Init, DeviceServesOwner, Pending, InHand, Range, IsInjective
<1>5. VoucherConservation
  <2>1. \A u \in Vouchers : u + 1 \in 1 .. NVOUCHERS /\ bbVoucher[u + 1] = u
    BY DriverAssumption DEF Init, Vouchers
  <2>2. \A u \in Vouchers : u \in Range(bbVoucher)
    BY <2>1, DriverAssumption DEF Init, Range
  <2>3. DOMAIN bbVoucher = 1 .. NVOUCHERS /\ \A i \in 1 .. NVOUCHERS : bbVoucher[i] = i - 1
    BY DEF Init
  <2>4. IsInjective(bbVoucher)
    BY <2>3, DriverAssumption DEF IsInjective
  <2> QED
    BY <2>2, <2>4 DEF Init, VoucherConservation, Holds
<1> QED
  BY <1>1, <1>2, <1>3, <1>4, <1>5 DEF IInv

\* Every step of an application thread or a worker keeps the invariant.
LEMMA StepIInv == IInv /\ [Next]_vars => IInv'
<1> SUFFICES ASSUME IInv, [Next]_vars
             PROVE  IInv'
  OBVIOUS
<1>1. CASE Next
  <2>1. TypeOK'
    BY <1>1, TypeApp, TypeWorker DEF IInv, Next
  <2> QED
    BY <1>1, <2>1, SdStep, NoOutcomeStep, ConservationStep, LockStep, DeviceStep, FilledStep
    DEF IInv
<1>2. CASE UNCHANGED vars
  BY <1>2
  DEF IInv, TypeOK, SdInv, NoOutcomeRedeemed, VoucherConservation, LockInv, DeviceServesOwner,
      Filled, Holds, AppLocked, WorkerLocked, Pending, InHand, Outstanding, vars, pool, data,
      sync, app, work
<1> QED
  BY <1>1, <1>2

\* The invariant holds in every reachable state, for any number of threads,
\* vouchers, descriptors and queue places.
THEOREM InductiveInvariant == Spec => []IInv
  BY InitIInv, StepIInv, PTL DEF Spec

\* Types: in particular a voucher's fields stay in their ranges.
THEOREM TypeCorrect == Spec => []TypeOK
<1>1. IInv => TypeOK
  BY DEF IInv
<1> QED
  BY <1>1, InductiveInvariant, PTL

\* No voucher is lost or handed out twice (voucherAssignment, voucherRecyle).
THEOREM VouchersConserved == Spec => []VoucherConservation
<1>1. IInv => VoucherConservation
  BY DEF IInv
<1> QED
  BY <1>1, InductiveInvariant, PTL

\* The device is only ever given a voucher that carries its holder's request.
THEOREM DeviceGetsOwnersRequest == Spec => []DeviceServesOwner
<1>1. IInv => DeviceServesOwner
  BY DEF IInv
<1> QED
  BY <1>1, InductiveInvariant, PTL

\* v_lock excludes: no two threads are in sections it guards on one voucher.
THEOREM LocksExclude == Spec => []LockExclusion
<1>1. IInv => LockExclusion
  BY LockInvExcludes DEF IInv
<1> QED
  BY <1>1, InductiveInvariant, PTL

\* One request per descriptor, and none in the store is pending.
THEOREM DescriptorsExclusive == Spec => []DescriptorExclusive
<1>1. IInv => DescriptorExclusive
  BY DEF IInv, SdInv, DescriptorExclusive, DeviceServesOwner, Outstanding
<1> QED
  BY <1>1, InductiveInvariant, PTL

\* redeem_voucher never gives an outcome: with any number of threads,
\* vouchers and descriptors its loop is never left.
THEOREM RedeemNeverAnswers == Spec => []NoOutcomeRedeemed
<1>1. IInv => NoOutcomeRedeemed
  BY DEF IInv
<1> QED
  BY <1>1, InductiveInvariant, PTL
=============================================================================
