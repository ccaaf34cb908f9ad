--------------------------- MODULE HistServersProofs ---------------------------
(***************************************************************************)
(* Proofs about the ROOT lock and about HistServers, for any finite number *)
(* of connections, any requests, any names and any number of runs.         *)
(*                                                                         *)
(* The lock: the semaphores pass one token around (OneToken), which needs  *)
(* the guards not to unlock twice (GuardsAgree).  Mutual exclusion follows *)
(* at once; that no wake-up is lost is a count of the waiting threads that *)
(* each step keeps; and with both the semaphores implement the abstract    *)
(* mutex.                                                                  *)
(*                                                                         *)
(* The servers implement the lock: whatever a thread does with the objects *)
(* it finds, it takes and gives back the lock as RootLock says             *)
(* (LockRefined).  So the lock's single token is theirs too, and a thread  *)
(* that holds it keeps the main thread out of its loop, where histograms   *)
(* are deleted.  An object that a thread found under the lock must then    *)
(* have been found under this lock: a thread that waits for the lock holds *)
(* no object yet (NothingHeld), which the invariant adds.                  *)
(***************************************************************************)
EXTENDS HistServers, FiniteSetTheorems, TLAPS

(***************************************************************************)
(* The ROOT lock                                                           *)
(***************************************************************************)
\* What the lock is for, as an invariant of RootLock's steps: its types, the
\* guards that do not unlock twice, and the single token.
LockInv == LockTypeOK /\ GuardsAgree /\ OneToken

\* A thread that gives the lock back returns the token, and is the only one
\* to have it.
LEMMA TokenReturned ==
  ASSUME LockInv, NEW t \in Servers, pc[t] = "locked",
         NEW to \in {"send", "recv"}, pc' = [pc EXCEPT ![t] = to],
         gDoneSema' = gDoneSema + 1, UNCHANGED <<gRootSema, main>>
  PROVE  OneToken'
<1>1. t \in Holders
  BY DEF Holders
<1>2. main = "sleep" /\ gRootSema = 0 /\ gDoneSema = 0 /\ Holders = {t}
  BY <1>1 DEF LockInv, OneToken
<1>3. Holders' = Holders \ {t}
  BY DEF Holders, LockInv, LockTypeOK
<1>4. Holders' = {}
  BY <1>2, <1>3
<1>5. QED
  BY <1>2, <1>4 DEF OneToken

\* Every step of RootLock keeps the invariant of the lock.
LEMMA LockStep ==
  ASSUME LockInv, [LockNext]_lock
  PROVE  LockInv'
<1>1. CASE UNCHANGED lock \/ NotifyIdle
  BY <1>1 DEF LockInv, lock, semas, NotifyIdle, LockTypeOK,
     GuardsAgree, OneToken, Holders
<1>2. CASE Notify
  <2>1. LockTypeOK' /\ GuardsAgree'
    BY <1>2 DEF LockInv, LockTypeOK, GuardsAgree, Notify,
       NotifyTry, NotifyYield, NotifyDone
  <2>2. Holders' = Holders
    BY <1>2 DEF Holders, Notify,
       NotifyTry, NotifyYield, NotifyDone
  <2>3. CASE NotifyTry \/ NotifyYield
    BY <2>1, <2>2, <2>3
       DEF LockInv, OneToken, NotifyTry, NotifyYield
  <2>4. CASE NotifyDone
    <3>1. gRootSema = 0 /\ gDoneSema = 1 /\ Holders = {}
      BY <2>4 DEF LockInv, OneToken, NotifyDone
    <3>2. QED
      BY <2>1, <2>2, <2>4, <3>1 DEF LockInv, OneToken, NotifyDone
  <2>5. QED
    BY <1>2, <2>1, <2>3, <2>4 DEF LockInv, Notify
<1>3. ASSUME NEW t \in Servers, AskRoot(t) PROVE LockInv'
  <2>1. LockTypeOK' /\ GuardsAgree'
    BY <1>3 DEF LockInv, LockTypeOK, GuardsAgree, AskRoot, Goto
  <2>2. Holders' = Holders
    BY <1>3 DEF LockInv, LockTypeOK, Holders, AskRoot, Goto
  <2>3. QED
    BY <1>3, <2>1, <2>2 DEF LockInv, OneToken, AskRoot
<1>4. ASSUME NEW t \in Servers, LockRoot(t) PROVE LockInv'
  <2>1. LockTypeOK' /\ GuardsAgree'
    BY <1>4 DEF LockInv, LockTypeOK, GuardsAgree, LockRoot, Goto
  <2>2. main = "sleep" /\ gRootSema = 1 /\ gDoneSema = 0 /\ Holders = {}
    BY <1>4 DEF LockInv, LockTypeOK, OneToken, LockRoot
  <2>3. Holders' = Holders \cup {t}
    BY <1>4 DEF LockInv, LockTypeOK, Holders, LockRoot, Goto
  <2>4. Holders' = {t}
    BY <2>2, <2>3
  <2>5. QED
    BY <1>4, <2>1, <2>2, <2>4 DEF LockInv, OneToken, LockRoot
<1>5. ASSUME NEW t \in Servers, Unlock(t) PROVE LockInv'
  <2>1. LockTypeOK' /\ GuardsAgree'
    BY <1>5 DEF LockInv, LockTypeOK, GuardsAgree, Unlock, Goto
  <2>2. QED
    BY <1>5, <2>1, TokenReturned DEF LockInv, Unlock, Goto
<1>6. ASSUME NEW t \in Servers, DestroyGuard(t) PROVE LockInv'
  <2>1. LockTypeOK' /\ GuardsAgree'
    BY <1>6 DEF LockInv, LockTypeOK, GuardsAgree, DestroyGuard, Goto
  <2>2. CASE Goto(t, "locked", "recv")
    <3>1. fLocked[t]
      BY <2>2 DEF LockInv, GuardsAgree, Goto
    <3>2. QED
      BY <1>6, <2>1, <2>2, <3>1, TokenReturned
         DEF LockInv, DestroyGuard, Goto
  <2>3. CASE Goto(t, "send", "recv")
    <3>1. ~fLocked[t]
      BY <2>3 DEF LockInv, GuardsAgree, Goto
    <3>2. Holders' = Holders
      BY <2>3 DEF LockInv, LockTypeOK, Holders, Goto
    <3>3. QED
      BY <1>6, <2>1, <3>1, <3>2 DEF LockInv, OneToken, DestroyGuard
  <2>4. QED
    BY <1>6, <2>2, <2>3 DEF DestroyGuard
<1>7. QED
  BY <1>1, <1>2, <1>3, <1>4, <1>5, <1>6 DEF LockNext, Serve

\* For any finite set of server threads every variable of the lock keeps its
\* type, a guard's fLocked tells whether its thread still has to unlock, and
\* the leave to use ROOT is a single token.
THEOREM LockCorrect == LockSpec => []LockInv
<1>1. LockInit => LockInv
  BY DEF LockInit, LockInv, LockTypeOK, GuardsAgree, OneToken,
     Holders
<1>2. QED
  BY <1>1, LockStep, PTL DEF LockSpec

\* ROOT is never used by two threads that hold the lock, nor by the main
\* thread while one holds it.
THEOREM MutualExclusion == LockSpec => []RootExclusive
<1>1. LockInv => RootExclusive
  BY DEF LockInv, OneToken, RootExclusive
<1>2. QED
  BY <1>1, LockCorrect, PTL

\* Where a step takes a thread determines who waits and who holds the lock.
LEMMA MovedThread ==
  ASSUME LockTypeOK, NEW t \in Servers, NEW from, NEW to, Goto(t, from, to)
  PROVE  /\ Holders' = IF to = "locked" THEN Holders \cup {t} ELSE Holders \ {t}
         /\ Waiting' = IF to = "wait" THEN Waiting \cup {t} ELSE Waiting \ {t}
BY DEF LockTypeOK, Goto, Holders, Waiting

\* The waiting threads are a finite set, so they can be counted.
LEMMA WaitingFinite ==
  ASSUME LockTypeOK
  PROVE  IsFiniteSet(Waiting) /\ Cardinality(Waiting) \in Nat
<1>1. Waiting \in SUBSET Servers
  BY DEF Waiting
<1>2. QED
  BY <1>1, ServersAssumption, FS_Subset, FS_CardinalityType

\* A step of the model keeps the count of waiting threads.
LEMMA WakeupStep ==
  ASSUME LockTypeOK, NoLostWakeup, [LockNext]_lock
  PROVE  NoLostWakeup'
<1> USE DEF NoLostWakeup
<1>1. CASE UNCHANGED lock \/ NotifyIdle
  BY <1>1 DEF lock, semas, NotifyIdle, Waiting
<1>2. CASE Notify
  <2>1. Waiting' = Waiting
    BY <1>2 DEF Notify, NotifyTry, NotifyYield, NotifyDone, Waiting
  <2>2. QED
    BY <1>2, <2>1, WaitingFinite
       DEF Notify, NotifyTry, NotifyYield, NotifyDone, LockTypeOK
<1>3. ASSUME NEW t \in Servers, AskRoot(t) PROVE NoLostWakeup'
  <2>1. t \notin Waiting /\ Waiting' = Waiting \cup {t}
    BY <1>3, MovedThread DEF AskRoot, Goto, Waiting
  <2>2. Cardinality(Waiting') = Cardinality(Waiting) + 1
    BY <2>1, WaitingFinite, FS_AddElement
  <2>3. QED
    BY <1>3, <2>2, WaitingFinite DEF AskRoot, LockTypeOK
<1>4. ASSUME NEW t \in Servers, LockRoot(t) PROVE NoLostWakeup'
  <2>1. t \in Waiting
    BY <1>4 DEF LockRoot, Goto, Waiting
  <2>2. Waiting' = Waiting \ {t}
    BY <1>4, MovedThread DEF LockRoot
  <2>3. Cardinality(Waiting') = Cardinality(Waiting) - 1
    BY <2>1, <2>2, WaitingFinite, FS_RemoveElement
  <2>4. QED
    BY <1>4, <2>3, WaitingFinite DEF LockRoot, LockTypeOK
<1>5. ASSUME NEW t \in Servers, Unlock(t) \/ DestroyGuard(t) PROVE NoLostWakeup'
  <2>1. Waiting' = Waiting
    BY <1>5 DEF Unlock, DestroyGuard, Goto, Waiting, LockTypeOK
  <2>2. QED
    BY <1>5, <2>1 DEF Unlock, DestroyGuard
<1>6. QED
  BY <1>1, <1>2, <1>3, <1>4, <1>5 DEF LockNext, Serve

\* No thread waits in LockRoot for a post that nobody will make: each one
\* has its post in gWaitSema, in gRootSema or in the hands of the timer.
THEOREM WakeupsKept == LockSpec => []NoLostWakeup
<1>1. LockInit => NoLostWakeup
  <2>1. ASSUME LockInit PROVE Waiting = {}
    BY <2>1 DEF LockInit, Waiting
  <2>2. QED
    BY <2>1, FS_EmptySet DEF LockInit, NoLostWakeup
<1>2. LockInv => LockTypeOK
  BY DEF LockInv
<1>3. QED
  BY <1>1, <1>2, WakeupStep, LockCorrect, PTL DEF LockSpec

\* The semaphores implement the abstract mutex: ROOT passes from the main
\* thread to a thread that asked for it, and from there back.
THEOREM MutexRefined == LockSpec => ImplementsMutex
<1>1. LockInit => Mutex!Init
  BY DEF LockInit, Holders, Waiting, Mutex!Init
<1>2. ASSUME LockTypeOK, OneToken, [LockNext]_lock
      PROVE  [Mutex!Next]_(Mutex!vars)
  <2>1. CASE UNCHANGED pc
    BY <2>1 DEF Mutex!vars, Holders, Waiting
  <2>2. ASSUME NEW t \in Servers, AskRoot(t) PROVE Mutex!Ask(t)
    <3>1. t \notin Waiting /\ t \notin Holders
      BY <1>2, <2>2 DEF LockTypeOK, AskRoot, Goto, Waiting, Holders
    <3>2. Waiting' = Waiting \cup {t} /\ Holders' = Holders
      BY <1>2, <2>2, <3>1, MovedThread DEF AskRoot
    <3>3. QED
      BY <3>1, <3>2 DEF Mutex!Ask
  <2>3. ASSUME NEW t \in Servers, LockRoot(t) PROVE Mutex!Lend(t)
    <3>1. Holders = {} /\ t \in Waiting
      BY <1>2, <2>3 DEF LockRoot, Goto, Waiting, OneToken, LockTypeOK
    <3>2. Holders' = {t} /\ Waiting' = Waiting \ {t}
      BY <1>2, <2>3, <3>1, MovedThread DEF LockRoot
    <3>3. QED
      BY <3>1, <3>2 DEF Mutex!Lend
  <2>4. ASSUME NEW t \in Servers, NEW to,
               Goto(t, "locked", to), to \notin {"locked", "wait"}
        PROVE  Mutex!GiveBack(t)
    <3>1. t \in Holders /\ t \notin Waiting
      BY <1>2, <2>4 DEF LockTypeOK, Goto, Holders, Waiting
    <3>2. Holders = {t}
      BY <1>2, <3>1 DEF OneToken
    <3>3. Holders' = {} /\ Waiting' = Waiting
      BY <1>2, <2>4, <3>1, <3>2, MovedThread
    <3>4. QED
      BY <3>2, <3>3 DEF Mutex!GiveBack
  <2>5. ASSUME NEW t \in Servers, Goto(t, "send", "recv")
        PROVE  UNCHANGED Mutex!vars
    <3>1. t \notin Holders /\ t \notin Waiting
      BY <1>2, <2>5 DEF LockTypeOK, Goto, Holders, Waiting
    <3>2. Holders' = Holders /\ Waiting' = Waiting
      BY <1>2, <2>5, <3>1, MovedThread
    <3>3. QED
      BY <3>2 DEF Mutex!vars
  <2>6. ASSUME NEW t \in Servers, Unlock(t) \/ DestroyGuard(t)
        PROVE  Mutex!GiveBack(t) \/ UNCHANGED Mutex!vars
    BY <2>4, <2>5, <2>6 DEF Unlock, DestroyGuard
  <2>7. CASE \E t \in Servers : AskRoot(t) \/ Serve(t)
    BY <2>7, <2>2, <2>3, <2>6 DEF Serve, Mutex!Next
  <2>8. CASE UNCHANGED lock \/ NotifyIdle \/ Notify
    BY <2>8, <2>1 DEF lock, NotifyIdle, Notify, NotifyTry, NotifyYield, NotifyDone
  <2>9. QED
    BY <1>2, <2>7, <2>8 DEF LockNext
<1>3. LockInv => LockTypeOK /\ OneToken
  BY DEF LockInv
<1>4. QED
  BY <1>1, <1>2, <1>3, LockCorrect, PTL
     DEF LockSpec, ImplementsMutex, Mutex!Spec
-----------------------------------------------------------------------------
(***************************************************************************)
(* The servers on top of it                                                *)
(***************************************************************************)
\* The servers implement the ROOT lock: a step of a server thread or of the
\* main thread is a step of RootLock.cxx or leaves its semaphores and guards
\* alone.
THEOREM LockRefined == Spec => LockSpec
<1>1. Init => LockInit
  BY DEF Init
<1>2. [Next]_vars => [LockNext]_lock
  <2> SUFFICES ASSUME [Next]_vars PROVE [LockNext]_lock
    OBVIOUS
  <2>1. CASE UNCHANGED lock
    BY <2>1 DEF lock, semas
  <2>2. CASE Timer
    BY <2>2 DEF Timer, LockNext
  <2>3. ASSUME NEW t \in Servers, NEW r \in Requests, Receive(t, r)
        PROVE  LockNext
    BY <2>3 DEF Receive, LockNext
  <2>4. ASSUME NEW t \in Servers, Acquire(t) \/ Reply(t) \/ Finish(t)
        PROVE  LockNext
    BY <2>4 DEF Acquire, Reply, Finish, LockNext, Serve
  <2>5. QED
    BY <2>1, <2>2, <2>3, <2>4
       DEF Next, vars, OpenRootFile, CloseRootFile, Find, GetPointer, SendPointer
<1>3. QED
  BY <1>1, <1>2, PTL DEF Spec, LockSpec

\* The servers keep the lock's single token: at most one thread serves a
\* request with ROOT, while the main thread sleeps in its timer.
THEOREM LockKept == Spec => []LockInv
BY LockCorrect, LockRefined, PTL

\* What a thread can hold: a histogram of some run, or nothing.
Found == {None, NotFound} \cup [name : Names, incarnation : Nat]

\* Before it has the lock and after it gave it back to answer, a thread holds
\* no object: none is carried over from one use of the lock to the next.
NothingHeld == \A t \in Servers : pc[t] \in {"wait", "send"} => held[t] = None

\* The inductive invariant that LockedUseLive needs.
UseInv ==
  /\ objects \in [Names -> Nat] /\ run \in Nat
  /\ held \in [Servers -> Found]
  /\ NothingHeld
  /\ LockedUseLive

\* While the main thread is in its loop no server thread has the lock.
LEMMA LoopExcludes ==
  ASSUME LockInv, main = "loop", NEW t \in Servers
  PROVE  pc[t] # "locked"
BY DEF LockInv, OneToken, Holders

\* A look-up returns something that exists now, or nothing.
LEMMA PointersLive ==
  ASSUME UseInv, NEW p \in Pointers
  PROVE  /\ p \in Found
         /\ \A n \in Names : p.name = n => p.incarnation = objects[n]
BY HistAssumption DEF UseInv, Pointers, Found, NotFound

\* A step of a server thread or of the main thread keeps the invariant.
LEMMA UseStep ==
  ASSUME LockInv, UseInv, [Next]_vars
  PROVE  UseInv'
<1> USE DEF UseInv
<1>1. CASE UNCHANGED vars
  BY <1>1 DEF vars, lock, root, NothingHeld, LockedUseLive, HoldsLive
<1>2. CASE OpenRootFile
  <2>1. objects' \in [Names -> Nat] /\ run' \in Nat
    BY <1>2 DEF OpenRootFile
  <2>2. \A t \in Servers : pc'[t] # "locked"
    BY <1>2, LoopExcludes DEF OpenRootFile, lock
  <2>3. QED
    BY <1>2, <2>1, <2>2 DEF OpenRootFile, lock, NothingHeld, LockedUseLive
<1>3. CASE CloseRootFile
  <2>1. \A t \in Servers : pc'[t] # "locked"
    BY <1>3, LoopExcludes DEF CloseRootFile, lock
  <2>2. QED
    BY <1>3, <2>1 DEF CloseRootFile, lock, NothingHeld, LockedUseLive
<1>4. CASE Timer
  BY <1>4 DEF Timer, Notify, NotifyTry, NotifyYield,
     NotifyDone, root, NothingHeld, LockedUseLive, HoldsLive
<1>5. ASSUME NEW t \in Servers, NEW r \in Requests, Receive(t, r) PROVE UseInv'
  BY <1>5 DEF Receive, AskRoot, Goto, root, LockInv, LockTypeOK,
     NothingHeld, LockedUseLive, HoldsLive
<1>6. ASSUME NEW t \in Servers, Acquire(t) PROVE UseInv'
  <2>1. held[t] = None
    BY <1>6 DEF Acquire, LockRoot, Goto, NothingHeld
  <2>2. HoldsLive(t)'
    BY <1>6, <2>1, HistAssumption DEF Acquire, root, HoldsLive, None
  <2>3. \A u \in Servers : u # t => pc'[u] = pc[u]
    BY <1>6 DEF Acquire, LockRoot, Goto, LockInv, LockTypeOK
  <2>4. pc'[t] = "locked"
    BY <1>6 DEF Acquire, LockRoot, Goto, LockInv, LockTypeOK
  <2>5. QED
    BY <1>6, <2>2, <2>3, <2>4
       DEF Acquire, root, NothingHeld, LockedUseLive, HoldsLive
<1>7. ASSUME NEW t \in Servers, Find(t) PROVE UseInv'
  <2>1. PICK p \in Pointers : held' = [held EXCEPT ![t] = p]
    BY <1>7 DEF Find
  <2>2. held' \in [Servers -> Found] /\ held'[t] = p
    BY <2>1, PointersLive
  <2>3. HoldsLive(t)'
    BY <1>7, <2>2, PointersLive DEF Find, root, HoldsLive
  <2>4. \A u \in Servers : u # t => held'[u] = held[u]
    BY <2>1
  <2>5. QED
    BY <1>7, <2>2, <2>3, <2>4
       DEF Find, lock, root, NothingHeld, LockedUseLive, HoldsLive
<1>8. ASSUME NEW t \in Servers, Reply(t) \/ Finish(t) PROVE UseInv'
  <2>1. held' = [held EXCEPT ![t] = None] /\ UNCHANGED root
    BY <1>8 DEF Reply, Finish
  <2>2. pc'[t] # "locked" /\ \A u \in Servers : u # t => pc'[u] = pc[u]
    BY <1>8 DEF Reply, Finish, Unlock, DestroyGuard, Goto,
       LockInv, LockTypeOK
  <2>3. held' \in [Servers -> Found] /\ held'[t] = None
    BY <2>1 DEF Found
  <2>4. QED
    BY <2>1, <2>2, <2>3 DEF root, NothingHeld, LockedUseLive, HoldsLive
<1>9. ASSUME NEW t \in Servers, GetPointer(t) PROVE UseInv'
  <2>1. PICK p \in Pointers : held' = [held EXCEPT ![t] = p]
    BY <1>9 DEF GetPointer
  <2>2. held' \in [Servers -> Found]
    BY <2>1, PointersLive
  <2>3. pc'[t] = "recv" /\ \A u \in Servers : u # t => held'[u] = held[u]
    BY <1>9, <2>1 DEF GetPointer, lock
  <2>4. QED
    BY <1>9, <2>2, <2>3
       DEF GetPointer, lock, root, NothingHeld, LockedUseLive, HoldsLive
<1>10. ASSUME NEW t \in Servers, SendPointer(t) PROVE UseInv'
  <2>1. held' \in [Servers -> Found] /\ held'[t] = None
    BY <1>10 DEF SendPointer, Found
  <2>2. HoldsLive(t)'
    BY <2>1, HistAssumption DEF HoldsLive, None
  <2>3. \A u \in Servers : u # t => held'[u] = held[u]
    BY <1>10 DEF SendPointer
  <2>4. QED
    BY <1>10, <2>1, <2>2, <2>3
       DEF SendPointer, lock, root, NothingHeld, LockedUseLive, HoldsLive
<1>11. QED
  BY <1>1, <1>2, <1>3, <1>4, <1>5, <1>6, <1>7, <1>8, <1>9, <1>10 DEF Next

\* A thread that serves a request with the lock uses an object that exists:
\* the main thread neither opens nor closes an output file between the
\* look-up and the answer, for any number of connections and runs.
THEOREM LockedUseSafe == Spec => []LockedUseLive
<1>1. Init => UseInv
  <2> SUFFICES ASSUME Init PROVE UseInv
    OBVIOUS
  <2>1. \A t \in Servers : pc[t] = "recv"
    BY DEF Init, LockInit
  <2>2. QED
    BY <2>1 DEF Init, UseInv, Found, NothingHeld, LockedUseLive
<1>2. UseInv => LockedUseLive
  BY DEF UseInv
<1>3. QED
  BY <1>1, <1>2, UseStep, LockKept, PTL DEF Spec
=============================================================================
