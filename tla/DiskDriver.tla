----------------------------- MODULE DiskDriver -----------------------------
(***************************************************************************)
(* The disk driver of project 2, P2/diskdriver.c (P2/P2startINTEL holds    *)
(* the same driver).  Application threads queue a sector descriptor under  *)
(* a voucher, one worker thread per direction serves the vouchers, and the *)
(* application redeems its voucher for the outcome.                        *)
(*                                                                         *)
(* A step is an access to memory that other threads read or write: a call  *)
(* of a bounded buffer, a load or a store of status outside v_lock, a      *)
(* critical section's entry, body or exit.  Code between two such accesses *)
(* that touches nothing shared is part of the step before it.              *)
(*                                                                         *)
(* External (only their headers and binaries exist): the bounded buffer,   *)
(* the descriptor store, the device, and the application threads, whose    *)
(* loop is that of writer_fn and reader_fn in the demo binary: acquire a   *)
(* descriptor, queue it with the blocking or the nonblocking call, release *)
(* it if that was refused, else redeem; a reader then releases it.         *)
(***************************************************************************)
EXTENDS Integers, Sequences, Functions

CONSTANTS Readers,    (* the reader_fn threads, one per application         *)
          Writers,    (* the writer_fn threads, one per application         *)
          Sectors,    (* the sector descriptors of the store                *)
          NVOUCHERS,  (* size of vouchers[] and capacity of bbVoucher       *)
          BBSIZE,     (* capacity of bbRead and of bbWrite                  *)
          NULL

Apps     == Readers \cup Writers
Dirs     == {"read", "write"}          \* one worker thread each
Vouchers == 0 .. NVOUCHERS - 1
Dir(a)   == IF a \in Readers THEN "read" ELSE "write"

ASSUME DriverAssumption ==
  /\ NVOUCHERS \in Nat \ {0}
  /\ BBSIZE \in Nat \ {0}
  /\ Readers \cap Writers = {}
  /\ Apps \cap Dirs = {}
  /\ NULL \notin Apps \cup Dirs \cup Sectors

VARIABLES
  bbVoucher,  (* the free vouchers, in the order they will be assigned      *)
  bb,         (* bb["read"] is bbRead, bb["write"] is bbWrite               *)
  vsd,        (* vsd[v]: vouchers[v].sd                                     *)
  status,     (* status[v]: 0 free, 1 assigned, 2 queued, 3 done, -1 failed *)
  request_t,  (* request_t[v]: the direction, or "none" for -1              *)
  v_lock,     (* v_lock[v]: the thread that holds the mutex, or NULL        *)
  waiting,    (* waiting[v]: the threads blocked on status_flag             *)
  fsds,       (* the free descriptors                                       *)
  pc, v,      (* of an application thread: control, and its Voucher *v      *)
  sd, tmp,    (* its descriptor, and the register of v->status++         *)
  ret,        (* the outcome of its last driver call                        *)
  wpc, wv     (* of a worker thread: control, and its Voucher *v            *)

pool == <<bbVoucher, bb>>
data == <<vsd, status, request_t>>
sync == <<v_lock, waiting>>
app  == <<pc, v, sd, tmp, ret>>
work == <<wpc, wv>>
vars == <<pool, data, sync, fsds, app, work>>

Init ==
  /\ bbVoucher = [i \in 1 .. NVOUCHERS |-> i - 1]
  /\ bb        = [d \in Dirs |-> <<>>]
  /\ vsd       = [u \in Vouchers |-> NULL]
  /\ status    = [u \in Vouchers |-> 0]
  /\ request_t = [u \in Vouchers |-> "none"]
  /\ v_lock    = [u \in Vouchers |-> NULL]
  /\ waiting   = [u \in Vouchers |-> {}]
  /\ fsds      = Sectors
  /\ pc        = [a \in Apps |-> "idle"]
  /\ v         = [a \in Apps |-> 0]
  /\ sd        = [a \in Apps |-> NULL]
  /\ tmp       = [a \in Apps |-> 0]
  /\ ret       = [a \in Apps |-> "none"]
  /\ wpc       = [d \in Dirs |-> "take"]
  /\ wv        = [d \in Dirs |-> 0]

-----------------------------------------------------------------------------
(* The application's side of the descriptor store (external).              *)

\* fsds->blockingGet; the thread then calls a queueing function.
AcquireSd(a) ==
  /\ pc[a] = "idle"
  /\ \E s \in fsds :
       /\ fsds' = fsds \ {s}
       /\ sd' = [sd EXCEPT ![a] = s]
  /\ pc' = [pc EXCEPT ![a] = "assign"]
  /\ ret' = [ret EXCEPT ![a] = "none"]
  /\ UNCHANGED <<pool, data, sync, v, tmp, work>>

\* fsds->blockingPut after a refused call, or after a reader's redeem; a
\* writer whose request was queued never puts its descriptor back.
Release(a) ==
  /\ pc[a] = "return"
  /\ fsds' = IF a \in Readers \/ ret[a] = "refused"
             THEN fsds \cup {sd[a]} ELSE fsds
  /\ sd' = [sd EXCEPT ![a] = NULL]
  /\ pc' = [pc EXCEPT ![a] = "idle"]
  /\ UNCHANGED <<pool, data, sync, v, tmp, ret, work>>

-----------------------------------------------------------------------------
(* Queueing: {blocking,nonblocking}_{read,write}_sector.                   *)

\* voucherAssignment: blocked while no voucher is free.
AssignVoucher(a) ==
  /\ pc[a] = "assign"
  /\ bbVoucher # <<>>
  /\ v' = [v EXCEPT ![a] = Head(bbVoucher)]
  /\ bbVoucher' = Tail(bbVoucher)
  /\ pc' = [pc EXCEPT ![a] = "fill"]
  /\ UNCHANGED <<bb, data, sync, fsds, sd, tmp, ret, work>>

\* sd, status++ and request_t of a voucher no other thread can reach yet.
\* The two calls differ only in what follows, so which one this is appears
\* here first.
FillVoucher(a) ==
  /\ pc[a] = "fill"
  /\ vsd' = [vsd EXCEPT ![v[a]] = sd[a]]
  /\ status' = [status EXCEPT ![v[a]] = @ + 1]
  /\ request_t' = [request_t EXCEPT ![v[a]] = Dir(a)]
  /\ \E next \in {"blockingWrite", "nonblockingWrite"} :
       pc' = [pc EXCEPT ![a] = next]
  /\ UNCHANGED <<pool, sync, fsds, v, sd, tmp, ret, work>>

Enqueue(a) ==
  /\ Len(bb[Dir(a)]) < BBSIZE
  /\ bb' = [bb EXCEPT ![Dir(a)] = Append(@, v[a])]
  /\ pc' = [pc EXCEPT ![a] = "load"]
  /\ UNCHANGED <<bbVoucher, data, sync, fsds, v, sd, tmp, ret, work>>

BlockingWrite(a) == pc[a] = "blockingWrite" /\ Enqueue(a)

\* Mutants: the result of nonblockingWrite is not tested, or is returned
\* inverted.
NonblockingWrite_Untested(a) ==
  /\ pc[a] = "nonblockingWrite"
  /\ Len(bb[Dir(a)]) < BBSIZE
  /\ bb' = [bb EXCEPT ![Dir(a)] = Append(@, v[a])]
  /\ pc' = [pc EXCEPT ![a] = "recycle"]
  /\ ret' = [ret EXCEPT ![a] = "refused"]
  /\ UNCHANGED <<bbVoucher, data, sync, fsds, v, sd, tmp, work>>

NonblockingWrite_Returns0(a) ==
  /\ pc[a] = "nonblockingWrite"
  /\ Len(bb[Dir(a)]) < BBSIZE
  /\ bb' = [bb EXCEPT ![Dir(a)] = Append(@, v[a])]
  /\ pc' = [pc EXCEPT ![a] = "return"]
  /\ ret' = [ret EXCEPT ![a] = "refused"]
  /\ UNCHANGED <<bbVoucher, data, sync, fsds, v, sd, tmp, work>>

NonblockingWrite(a) == pc[a] = "nonblockingWrite" /\ Enqueue(a)

\* Mutants: the refused call keeps its voucher, or clears the caller's pointer.
QueueFull_KeepsVoucher(a) ==
  /\ pc[a] = "nonblockingWrite"
  /\ Len(bb[Dir(a)]) >= BBSIZE
  /\ pc' = [pc EXCEPT ![a] = "return"]
  /\ ret' = [ret EXCEPT ![a] = "refused"]
  /\ UNCHANGED <<pool, data, sync, fsds, v, sd, tmp, work>>

QueueFull_ClearsSd(a) ==
  /\ pc[a] = "nonblockingWrite"
  /\ Len(bb[Dir(a)]) >= BBSIZE
  /\ pc' = [pc EXCEPT ![a] = "recycle"]
  /\ ret' = [ret EXCEPT ![a] = "refused"]
  /\ sd' = [sd EXCEPT ![a] = NULL]
  /\ UNCHANGED <<pool, data, sync, fsds, v, tmp, work>>

\* nonblockingWrite returned 0: the voucher goes back, the call returns 0.
QueueFull(a) ==
  /\ pc[a] = "nonblockingWrite"
  /\ Len(bb[Dir(a)]) >= BBSIZE
  /\ pc' = [pc EXCEPT ![a] = "recycle"]
  /\ ret' = [ret EXCEPT ![a] = "refused"]
  /\ UNCHANGED <<pool, data, sync, fsds, v, sd, tmp, work>>

\* The second v->status++ runs unlocked after the voucher is visible to
\* the worker: its load and its store are separate steps.
LoadStatus(a) ==
  /\ pc[a] = "load"
  /\ tmp' = [tmp EXCEPT ![a] = status[v[a]]]
  /\ pc' = [pc EXCEPT ![a] = "store"]
  /\ UNCHANGED <<pool, data, sync, fsds, v, sd, ret, work>>

StoreStatus(a) ==
  /\ pc[a] = "store"
  /\ status' = [status EXCEPT ![v[a]] = tmp[a] + 1]
  /\ pc' = [pc EXCEPT ![a] = "redeem"]
  /\ UNCHANGED <<pool, vsd, request_t, sync, fsds, v, sd, tmp, ret, work>>

-----------------------------------------------------------------------------
(* redeem_voucher.                                                         *)

\* The condition of the while loop, as it is written.
StillWaiting(s) == s > -1 \/ s < 3

\* Mutant: a wake-up goes on without the mutex.
LockForRedeem_Unlocked(a) ==
  /\ \/ pc[a] = "redeem"
     \/ pc[a] = "wait" /\ a \notin waiting[v[a]]
  /\ v_lock' = [v_lock EXCEPT ![v[a]] = a]
  /\ pc' = [pc EXCEPT ![a] = "test"]
  /\ UNCHANGED <<pool, data, waiting, fsds, v, sd, tmp, ret, work>>

\* pthread_mutex_lock, on entry or when pthread_cond_wait returns.
LockForRedeem(a) ==
  /\ \/ pc[a] = "redeem"
     \/ pc[a] = "wait" /\ a \notin waiting[v[a]]
  /\ v_lock[v[a]] = NULL
  /\ v_lock' = [v_lock EXCEPT ![v[a]] = a]
  /\ pc' = [pc EXCEPT ![a] = "test"]
  /\ UNCHANGED <<pool, data, waiting, fsds, v, sd, tmp, ret, work>>

\* POSIX lets pthread_cond_wait return without a broadcast.
SpuriousWake(a) ==
  /\ pc[a] = "wait"
  /\ a \in waiting[v[a]]
  /\ waiting' = [waiting EXCEPT ![v[a]] = @ \ {a}]
  /\ UNCHANGED <<pool, data, v_lock, fsds, app, work>>

\* value is set for status 3 and -1 only, and is uninitialized otherwise.
Outcomes(s) == CASE s = 3 -> {"ok"} [] s = -1 -> {"failed"}
                 [] OTHER -> {"ok", "failed"}

\* Mutant: the thread waits with the mutex held.
TestStatus_KeepsLock(a) ==
  /\ pc[a] = "test"
  /\ StillWaiting(status[v[a]])
  /\ waiting' = [waiting EXCEPT ![v[a]] = @ \cup {a}]
  /\ pc' = [pc EXCEPT ![a] = "wait"]
  /\ UNCHANGED <<pool, data, v_lock, fsds, v, sd, tmp, ret, work>>

TestStatus(a) ==
  LET u == v[a] IN
  /\ pc[a] = "test"
  /\ IF StillWaiting(status[u])
     THEN /\ waiting' = [waiting EXCEPT ![u] = @ \cup {a}]
          /\ pc' = [pc EXCEPT ![a] = "wait"]
          /\ UNCHANGED <<sd, ret>>
     ELSE /\ \E r \in Outcomes(status[u]) : ret' = [ret EXCEPT ![a] = r]
          /\ sd' = [sd EXCEPT ![a] = IF status[u] = 3 /\ request_t[u] = "read"
                                     THEN vsd[u] ELSE @]
          /\ pc' = [pc EXCEPT ![a] = "recycle"]
          /\ UNCHANGED waiting
  /\ v_lock' = [v_lock EXCEPT ![u] = NULL]
  /\ UNCHANGED <<pool, data, fsds, v, tmp, work>>

-----------------------------------------------------------------------------
(* voucherRecyle: resets the voucher and hands it back under its lock.     *)

LockAndReset(a) ==
  /\ pc[a] = "recycle"
  /\ v_lock[v[a]] = NULL
  /\ v_lock' = [v_lock EXCEPT ![v[a]] = a]
  /\ vsd' = [vsd EXCEPT ![v[a]] = NULL]
  /\ status' = [status EXCEPT ![v[a]] = 0]
  /\ request_t' = [request_t EXCEPT ![v[a]] = "none"]
  /\ pc' = [pc EXCEPT ![a] = "put"]
  /\ UNCHANGED <<pool, waiting, fsds, v, sd, tmp, ret, work>>

\* bbVoucher->blockingWrite, while still holding the voucher's lock.
PutVoucher(a) ==
  /\ pc[a] = "put"
  /\ Len(bbVoucher) < NVOUCHERS
  /\ bbVoucher' = Append(bbVoucher, v[a])
  /\ pc' = [pc EXCEPT ![a] = "unlock"]
  /\ UNCHANGED <<bb, data, sync, fsds, v, sd, tmp, ret, work>>

UnlockVoucher(a) ==
  /\ pc[a] = "unlock"
  /\ v_lock' = [v_lock EXCEPT ![v[a]] = NULL]
  /\ pc' = [pc EXCEPT ![a] = "return"]
  /\ UNCHANGED <<pool, data, waiting, fsds, v, sd, tmp, ret, work>>

-----------------------------------------------------------------------------
(* The worker threads, fxn_readThrd and fxn_writeThrd.                     *)

Take(d) ==
  /\ wpc[d] = "take"
  /\ bb[d] # <<>>
  /\ wv' = [wv EXCEPT ![d] = Head(bb[d])]
  /\ bb' = [bb EXCEPT ![d] = Tail(@)]
  /\ wpc' = [wpc EXCEPT ![d] = "lock"]
  /\ UNCHANGED <<bbVoucher, data, sync, fsds, app>>

LockForDevice(d) ==
  /\ wpc[d] = "lock"
  /\ v_lock[wv[d]] = NULL
  /\ v_lock' = [v_lock EXCEPT ![wv[d]] = d]
  /\ wpc' = [wpc EXCEPT ![d] = "device"]
  /\ UNCHANGED <<pool, data, waiting, fsds, app, wv>>

\* read_sector or write_sector returns 1 or 0; the outcome is recorded.
DeviceReturns(d) ==
  /\ wpc[d] = "device"
  /\ \E s \in {3, -1} : status' = [status EXCEPT ![wv[d]] = s]
  /\ wpc' = [wpc EXCEPT ![d] = "unlock"]
  /\ UNCHANGED <<pool, vsd, request_t, sync, fsds, app, wv>>

UnlockAfterDevice(d) ==
  /\ wpc[d] = "unlock"
  /\ v_lock' = [v_lock EXCEPT ![wv[d]] = NULL]
  /\ wpc' = [wpc EXCEPT ![d] = "broadcast"]
  /\ UNCHANGED <<pool, data, waiting, fsds, app, wv>>

Broadcast(d) ==
  /\ wpc[d] = "broadcast"
  /\ waiting' = [waiting EXCEPT ![wv[d]] = {}]
  /\ wpc' = [wpc EXCEPT ![d] = "take"]
  /\ UNCHANGED <<pool, data, v_lock, fsds, app, wv>>

-----------------------------------------------------------------------------
QueueStep(a) == \/ AssignVoucher(a) \/ FillVoucher(a)
                \/ BlockingWrite(a) \/ NonblockingWrite(a) \/ QueueFull(a)
                \/ LoadStatus(a) \/ StoreStatus(a)

RedeemStep(a) == LockForRedeem(a) \/ TestStatus(a)

RecycleStep(a) == LockAndReset(a) \/ PutVoucher(a) \/ UnlockVoucher(a)

WorkerStep(d) == \/ Take(d) \/ LockForDevice(d) \/ DeviceReturns(d)
                 \/ UnlockAfterDevice(d) \/ Broadcast(d)

Next ==
  \/ \E a \in Apps : \/ AcquireSd(a) \/ Release(a)
                     \/ QueueStep(a) \/ RedeemStep(a) \/ RecycleStep(a)
                     \/ SpuriousWake(a)
  \/ \E d \in Dirs : WorkerStep(d)

Spec == Init /\ [][Next]_vars

(***************************************************************************)
(* Every thread keeps running (the scheduler is fair to runnable threads)  *)
(* and a wait returns spuriously only finitely often.  Nothing is assumed  *)
(* about who gets a contended mutex or a full buffer's free slot.          *)
(***************************************************************************)
Fairness ==
  /\ \A a \in Apps : /\ WF_vars(AcquireSd(a) \/ Release(a))
                     /\ WF_vars(QueueStep(a) \/ RedeemStep(a) \/ RecycleStep(a))
                     /\ <>[][~SpuriousWake(a)]_vars
  /\ \A d \in Dirs : WF_vars(WorkerStep(d))

FairSpec == Spec /\ Fairness

-----------------------------------------------------------------------------
(* The invariants.                                                         *)

AppPC == {"idle", "assign", "fill", "blockingWrite", "nonblockingWrite", "load",
          "store", "redeem", "wait", "test", "recycle", "put", "unlock", "return"}
WorkerPC == {"take", "lock", "device", "unlock", "broadcast"}

\* The voucher is assigned to a and not yet back in bbVoucher.
Holds(a) == pc[a] \notin {"idle", "assign", "unlock", "return"}

\* a's request has been queued and a has not been told its outcome.
Outstanding(a) == pc[a] \in {"load", "store", "redeem", "wait", "test"}

\* a or worker d is in a critical section of its voucher's v_lock.
AppLocked(a)    == pc[a] \in {"test", "put", "unlock"}
WorkerLocked(d) == wpc[d] \in {"device", "unlock"}

\* Worker d has taken its voucher from the queue and not recorded an outcome.
InHand(d) == wpc[d] \in {"lock", "device"}

\* u waits for the device: it is in queue d, or worker d is serving it.
Pending(u, d) == u \in Range(bb[d]) \/ (InHand(d) /\ wv[d] = u)

TypeOK ==
  /\ bbVoucher \in Seq(Vouchers)
  /\ bb \in [Dirs -> Seq(Vouchers)]
  /\ vsd \in [Vouchers -> Sectors \cup {NULL}]
  /\ status \in [Vouchers -> Int]
  /\ request_t \in [Vouchers -> Dirs \cup {"none"}]
  /\ v_lock \in [Vouchers -> Apps \cup Dirs \cup {NULL}]
  /\ waiting \in [Vouchers -> SUBSET Apps]
  /\ fsds \subseteq Sectors
  /\ pc \in [Apps -> AppPC]
  /\ v \in [Apps -> Vouchers]
  /\ sd \in [Apps -> Sectors \cup {NULL}]
  /\ tmp \in [Apps -> Int]
  /\ ret \in [Apps -> {"none", "refused", "ok", "failed"}]
  /\ wpc \in [Dirs -> WorkerPC]
  /\ wv \in [Dirs -> Vouchers]

\* No voucher is lost or duplicated: at any moment each one is either once
\* in bbVoucher or held by exactly one application thread, whatever mix of
\* accepted and refused calls went before (voucherAssignment, voucherRecyle).
VoucherConservation ==
  /\ IsInjective(bbVoucher)
  /\ \A a \in Apps : Holds(a) => v[a] \notin Range(bbVoucher)
  /\ \A a, b \in Apps : Holds(a) /\ Holds(b) /\ v[a] = v[b] => a = b
  /\ \A u \in Vouchers : \/ u \in Range(bbVoucher)
                          \/ \E a \in Apps : Holds(a) /\ v[a] = u

\* A voucher reaches the device at most once per call, and when it does it
\* still carries the descriptor and the direction of the thread that queued
\* it: read_sector and write_sector are never given a voucher that was
\* recycled or refilled in the meantime.
DeviceServesOwner ==
  \A d \in Dirs :
    /\ IsInjective(bb[d])
    /\ InHand(d) => wv[d] \notin Range(bb[d])
    /\ \A u \in Vouchers : Pending(u, d) =>
         \E a \in Apps : /\ Outstanding(a) /\ v[a] = u /\ Dir(a) = d
                        /\ vsd[u] = sd[a] /\ request_t[u] = d

\* Two threads inside sections guarded by v_lock are at different vouchers:
\* the device call, redeem's test and voucherRecyle never overlap on one,
\* also when the application enters by waking from pthread_cond_wait.
LockExclusion ==
  /\ \A a, b \in Apps : AppLocked(a) /\ AppLocked(b) /\ v[a] = v[b] => a = b
  /\ \A a \in Apps, d \in Dirs : AppLocked(a) /\ WorkerLocked(d) => v[a] # wv[d]
  /\ \A d, e \in Dirs : WorkerLocked(d) /\ WorkerLocked(e) /\ wv[d] = wv[e] => d = e

\* A descriptor is used by one request: it is in the store or with one
\* thread, never both, and a pending voucher's descriptor is not in the store.
DescriptorExclusive ==
  /\ \A a \in Apps : sd[a] \notin fsds
  /\ \A a, b \in Apps : sd[a] = sd[b] /\ sd[a] # NULL => a = b
  /\ \A d \in Dirs, u \in Vouchers : Pending(u, d) => vsd[u] \notin fsds

\* What redeem_voucher's loop condition amounts to: no call of it ever gives
\* an outcome, however the device answered and however often it is woken.
NoOutcomeRedeemed == \A a \in Apps : ret[a] \notin {"ok", "failed"}

-----------------------------------------------------------------------------
(* Liveness.                                                               *)

\* Every voucher that is queued is taken to the device, by the worker of
\* its direction, whatever the applications do with its lock meanwhile.
EveryRequestServed ==
  \A d \in Dirs, u \in Vouchers :
    u \in Range(bb[d]) ~> wpc[d] = "unlock" /\ wv[d] = u

\* A call that turns out to be a nonblocking one returns: it is not held up
\* by an empty bbVoucher, a full queue or a voucher's lock.
NonblockingReturns ==
  \A a \in Apps :
    pc[a] = "assign" ~> pc[a] \in {"blockingWrite", "redeem", "return"}

-----------------------------------------------------------------------------
(* What the comments promise.                                              *)

\* diskdriver.c:205, "the calling application is blocked until the read/write
\* has completed": redeem_voucher returns.
RedeemReturns == \A a \in Apps : pc[a] = "redeem" ~> pc[a] = "return"

\* diskdriver.c:30, "2 if in w/r queue, 3 succesful write, -1 failure to
\* write": once the worker has finished a request and the queueing call has
\* returned, the status that redeem reads is the outcome.
OutcomeKept ==
  \A a \in Apps :
    /\ pc[a] \in {"redeem", "wait", "test"}
    /\ ~ Pending(v[a], Dir(a))
    => status[v[a]] \in {3, -1}
=============================================================================
