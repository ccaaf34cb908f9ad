------------------------------ MODULE RootLock ------------------------------
(***************************************************************************)
(* rootana/libNetDirectory/RootLock.cxx: how the threads that serve        *)
(* histograms over TCP borrow ROOT from the main thread.                   *)
(*                                                                         *)
(* ROOT is not thread safe.  A server thread posts gWaitSema and waits for *)
(* gRootSema; every 100 ms the main thread's timer looks whether somebody  *)
(* posted gWaitSema, and if so posts gRootSema once and sleeps until       *)
(* gDoneSema is posted.  The guard object LockRootGuard unlocks in its     *)
(* destructor unless Unlock was called before.                             *)
(***************************************************************************)
EXTENDS Naturals, FiniteSets

CONSTANT Servers     \* the server threads, one per connection

ASSUME ServersAssumption == IsFiniteSet(Servers)

VARIABLES
  gRootSema, gWaitSema, gDoneSema,   \* the semaphores' counts
  main,        \* the main thread: in its "loop", or in ServerTimer::Notify
               \* before it posts gRootSema ("yield") or after it ("sleep")
  pc,          \* per server thread, where it is in serving a request
  fLocked      \* per server thread, the fLocked member of its guard

semas == <<gRootSema, gWaitSema, gDoneSema>>
lock == <<semas, main, pc, fLocked>>

LockInit ==
  /\ gRootSema = 0 /\ gWaitSema = 0 /\ gDoneSema = 0
  /\ main = "loop"
  /\ pc = [t \in Servers |-> "recv"]
  /\ fLocked = [t \in Servers |-> FALSE]
-----------------------------------------------------------------------------
Goto(t, from, to) ==
  /\ pc[t] = from
  /\ pc' = [pc EXCEPT ![t] = to]

\* Mutant: LockRoot forgets to post gWaitSema.
AskRootSilently(t) ==
  /\ Goto(t, "recv", "wait")
  /\ fLocked' = [fLocked EXCEPT ![t] = TRUE]
  /\ UNCHANGED <<semas, main>>

\* A request arrived: the guard is constructed and LockRoot posts gWaitSema ...
AskRoot(t) ==
  /\ Goto(t, "recv", "wait")
  /\ fLocked' = [fLocked EXCEPT ![t] = TRUE]
  /\ gWaitSema' = gWaitSema + 1
  /\ UNCHANGED <<gRootSema, gDoneSema, main>>

\* ... and waits for gRootSema.
LockRoot(t) ==
  /\ Goto(t, "wait", "locked")
  /\ gRootSema > 0
  /\ gRootSema' = gRootSema - 1
  /\ UNCHANGED <<gWaitSema, gDoneSema, main, fLocked>>

\* Mutant: Unlock does not clear fLocked, the destructor unlocks once more.
UnlockKeepsFlag(t) ==
  /\ Goto(t, "locked", "send")
  /\ gDoneSema' = gDoneSema + 1
  /\ UNCHANGED <<gRootSema, gWaitSema, main, fLocked>>

\* LockRootGuard::Unlock, before the reply is sent
Unlock(t) ==
  /\ Goto(t, "locked", "send")
  /\ gDoneSema' = gDoneSema + 1
  /\ fLocked' = [fLocked EXCEPT ![t] = FALSE]
  /\ UNCHANGED <<gRootSema, gWaitSema, main>>

\* Mutant: the destructor does not unlock.
DestroyGuardOnly(t) ==
  /\ \/ Goto(t, "send", "recv")
     \/ Goto(t, "locked", "recv")
  /\ fLocked' = [fLocked EXCEPT ![t] = FALSE]
  /\ UNCHANGED <<semas, main>>

\* The request is served: the guard's destructor unlocks if Unlock did not.
\* The reply may be sent by then, or the request needs none.
DestroyGuard(t) ==
  /\ \/ Goto(t, "send", "recv")
     \/ Goto(t, "locked", "recv")
  /\ gDoneSema' = IF fLocked[t] THEN gDoneSema + 1 ELSE gDoneSema
  /\ fLocked' = [fLocked EXCEPT ![t] = FALSE]
  /\ UNCHANGED <<gRootSema, gWaitSema, main>>
-----------------------------------------------------------------------------
\* ServerTimer::Notify: TryWait on gWaitSema.  When it fails, the timer is
\* only started again and the main thread goes on with its loop.
NotifyIdle == main = "loop" /\ gWaitSema = 0 /\ UNCHANGED lock

NotifyTry ==
  /\ main = "loop"
  /\ gWaitSema > 0
  /\ gWaitSema' = gWaitSema - 1
  /\ main' = "yield"
  /\ UNCHANGED <<gRootSema, gDoneSema, pc, fLocked>>

NotifyYield ==
  /\ main = "yield"
  /\ gRootSema' = gRootSema + 1
  /\ main' = "sleep"
  /\ UNCHANGED <<gWaitSema, gDoneSema, pc, fLocked>>

NotifyDone ==
  /\ main = "sleep"
  /\ gDoneSema > 0
  /\ gDoneSema' = gDoneSema - 1
  /\ main' = "loop"
  /\ UNCHANGED <<gRootSema, gWaitSema, pc, fLocked>>

Notify == NotifyTry \/ NotifyYield \/ NotifyDone

Serve(t) == LockRoot(t) \/ Unlock(t) \/ DestroyGuard(t)

LockNext == NotifyIdle \/ Notify \/ \E t \in Servers : AskRoot(t) \/ Serve(t)

LockSpec == LockInit /\ [][LockNext]_lock

\* The main thread runs its event loop, so its timer fires again and again;
\* a server thread goes on with the request it took.  Requests need not come.
LockFairness == WF_lock(Notify) /\ \A t \in Servers : WF_lock(Serve(t))
LockFairSpec == LockSpec /\ LockFairness
-----------------------------------------------------------------------------
\* The semaphores count, and every thread is at one of its places.
LockTypeOK ==
  /\ gRootSema \in Nat /\ gWaitSema \in Nat /\ gDoneSema \in Nat
  /\ main \in {"loop", "yield", "sleep"}
  /\ pc \in [Servers -> {"recv", "wait", "locked", "send"}]
  /\ fLocked \in [Servers -> BOOLEAN]

Holders == {t \in Servers : pc[t] = "locked"}
Waiting == {t \in Servers : pc[t] = "wait"}

\* The guards agree with the lock: a thread that waits for ROOT or holds it
\* will unlock in the destructor, one that called Unlock will not.
GuardsAgree ==
  \A t \in Servers : fLocked[t] <=> pc[t] \in {"wait", "locked"}

\* The main thread's leave to use ROOT is a single token: only while it
\* sleeps in the timer is there one, and then it is in gRootSema, with one
\* server thread, or in gDoneSema.
OneToken ==
  /\ main # "sleep" => gRootSema = 0 /\ gDoneSema = 0 /\ Holders = {}
  /\ main = "sleep" =>
       \/ gRootSema = 1 /\ gDoneSema = 0 /\ Holders = {}
       \/ gRootSema = 0 /\ gDoneSema = 1 /\ Holders = {}
       \/ gRootSema = 0 /\ gDoneSema = 0 /\ \E t \in Servers : Holders = {t}

\* ROOT has one user: while a server thread holds the lock no other one does,
\* and the main thread sleeps in the timer.
RootExclusive ==
  \A t \in Holders : main = "sleep" /\ \A u \in Holders : u = t

\* No wake-up is lost: there are as many threads in LockRoot as posts on
\* their way to them, so no thread waits for a post nobody will make.
NoLostWakeup ==
  Cardinality(Waiting) =
    gWaitSema + gRootSema + (IF main = "yield" THEN 1 ELSE 0)

\* The main thread gets ROOT back each time it gave it away.
MainRegainsRoot == main # "loop" ~> main = "loop"

\* While threads wait for ROOT, again and again one of them gets it.
SomebodyIsServed == Waiting # {} ~> Holders # {}

(***************************************************************************)
(* The semaphores implement the mutex.                                     *)
(***************************************************************************)
Mutex == INSTANCE RootMutex WITH borrower <- Holders, asking <- Waiting

\* Seen from outside, the three semaphores, the timer and the guards behave
\* like a mutex that the main thread lends to one asking thread at a time.
ImplementsMutex == Mutex!Spec
=============================================================================
