---------------------------- MODULE HistServers ----------------------------
(***************************************************************************)
(* The two histogram servers on top of the ROOT lock: the TNetDirectory    *)
(* server (libNetDirectory/netDirectoryServer.cxx) and the old MIDAS       *)
(* server (libMidasServer/midasServer.cxx), each with one thread per       *)
(* connection.  A thread finds an object by name, uses it, and answers;    *)
(* meanwhile the main thread creates and deletes the run's histograms.     *)
(*                                                                         *)
(* An object is its name and its incarnation: the run that created it.  A  *)
(* pointer to it is good as long as that incarnation exists.               *)
(***************************************************************************)
EXTENDS RootLock

CONSTANTS        \* besides RootLock's Servers
  Requests,      \* the requests clients make
  Names,         \* histograms of a run
  MaxRuns        \* bound: runs of the main thread

NetRequests == {"GetListOfKeys", "FindObjectByName", "ResetTH1", "Unknown"}
\* midasServer: these first read a pointer or a cut from the client, locked
RecvLocked == {"GetListOfFolders", "FindObject", "FindFullPathName", "SetCut"}
MidasRequests == RecvLocked \cup {"Command", "GetPointer"}

ASSUME HistAssumption ==
  /\ Requests \subseteq NetRequests \cup MidasRequests
  /\ MaxRuns \in Nat
  /\ Names \cap {"none", "missing"} = {}     \* these stand for no object

VARIABLES        \* besides RootLock's
  objects,       \* per name, the incarnation that exists in ROOT, or 0
  run,           \* runs begun by the main thread
  request,       \* per thread, the request it serves
  held           \* per thread, the object it found

root == <<objects, run>>
vars == <<lock, root, request, held>>

None     == [name |-> "none", incarnation |-> 0]       \* not looked up yet
NotFound == [name |-> "missing", incarnation |-> 0]

Init ==
  /\ LockInit
  /\ objects = [n \in Names |-> 0] /\ run = 0
  /\ request = [t \in Servers |-> "none"]
  /\ held = [t \in Servers |-> None]
-----------------------------------------------------------------------------
(***************************************************************************)
(* The main thread: runs begin and end in its loop, and with the output    *)
(* file go the histograms in it.                                           *)
(***************************************************************************)
OpenRootFile ==
  /\ main = "loop"
  /\ run < MaxRuns
  /\ run' = run + 1
  /\ objects' = [n \in Names |-> run + 1]
  /\ UNCHANGED <<lock, request, held>>

CloseRootFile ==
  /\ main = "loop"
  /\ objects' = [n \in Names |-> 0]
  /\ UNCHANGED <<lock, run, request, held>>

Timer == Notify /\ UNCHANGED <<root, request, held>>
-----------------------------------------------------------------------------
(***************************************************************************)
(* root_server_thread of both servers.  A thread whose client went away    *)
(* ends in its Recv, where it has no state.                                *)
(***************************************************************************)
\* What a look-up may return now
Pointers == {NotFound} \cup
  {[name |-> n, incarnation |-> objects[n]] : n \in {m \in Names : objects[m] # 0}}

Receive(t, r) ==
  /\ r # "GetPointer"
  /\ held[t] = None
  /\ AskRoot(t)
  /\ request' = [request EXCEPT ![t] = r]
  /\ UNCHANGED <<root, held>>

Acquire(t) == LockRoot(t) /\ UNCHANGED <<root, request, held>>

\* Mutant: the object is looked up while the thread still waits for the lock.
FindUnlocked(t) ==
  /\ pc[t] = "wait"
  /\ held[t] = None
  /\ \E p \in Pointers : held' = [held EXCEPT ![t] = p]
  /\ UNCHANGED <<lock, root, request>>

\* FollowPath, FindTopLevelObject and gROOT->FindObjectAny, under the lock
Find(t) ==
  /\ pc[t] = "locked"
  /\ held[t] = None
  /\ \E p \in Pointers : held' = [held EXCEPT ![t] = p]
  /\ UNCHANGED <<lock, root, request>>

\* Mutant: the TNetDirectory server answers before it unlocks.
UnlocksNever(t) == FALSE

\* The requests that unlock before they send the message made from the object
UnlocksFirst(t) ==
  \/ request[t] \in NetRequests
  \/ request[t] \in {"FindObject", "FindFullPathName"} /\ held[t] # NotFound

Reply(t) ==
  /\ held[t] # None
  /\ UnlocksFirst(t)
  /\ Unlock(t)
  /\ held' = [held EXCEPT ![t] = None]
  /\ UNCHANGED <<root, request>>

\* The request is finished: its answer was sent after Unlock, or under the
\* lock, or (Command, SetCut) there is none.
Finish(t) ==
  /\ pc[t] = "locked" => held[t] # None /\ ~UnlocksFirst(t)
  /\ DestroyGuard(t)
  /\ held' = [held EXCEPT ![t] = None]
  /\ request' = [request EXCEPT ![t] = "none"]
  /\ UNCHANGED root

\* midasServer's GetPointer takes no lock: it finds the object, then asks it
\* for its name and answers.
GetPointer(t) ==
  /\ "GetPointer" \in Requests
  /\ pc[t] = "recv"
  /\ held[t] = None
  /\ request' = [request EXCEPT ![t] = "GetPointer"]
  /\ \E p \in Pointers : held' = [held EXCEPT ![t] = p]
  /\ UNCHANGED <<lock, root>>

SendPointer(t) ==
  /\ request[t] = "GetPointer"
  /\ held' = [held EXCEPT ![t] = None]
  /\ request' = [request EXCEPT ![t] = "none"]
  /\ UNCHANGED <<lock, root>>
-----------------------------------------------------------------------------
Next ==
  \/ OpenRootFile \/ CloseRootFile \/ Timer
  \/ \E t \in Servers :
       \/ \E r \in Requests : Receive(t, r)
       \/ Acquire(t) \/ Find(t) \/ Reply(t) \/ Finish(t)
       \/ GetPointer(t) \/ SendPointer(t)

Spec == Init /\ [][Next]_vars

\* A thread goes on as long as it does not wait for its client: nothing is
\* assumed of a Recv or a Send.
Proceeds(t) ==
  \/ Acquire(t)
  \/ request[t] \notin RecvLocked /\ Find(t)
  \/ Reply(t)
  \/ request[t] = "Command" /\ Finish(t)

FairSpec == Spec /\ WF_vars(Timer) /\ \A t \in Servers : WF_vars(Proceeds(t))
-----------------------------------------------------------------------------
\* The object that thread t found exists still.
HoldsLive(t) ==
  \A n \in Names : held[t].name = n => held[t].incarnation = objects[n]

\* A thread with the lock uses an object that exists: the main thread does
\* not delete histograms between the look-up and the answer.
LockedUseLive == \A t \in Servers : pc[t] = "locked" => HoldsLive(t)

\* RootLock.cxx: "Helper functions for locking ROOT access in multithreaded
\* network servers": every thread that found an object uses one that exists.
UsesLiveObjects == \A t \in Servers : HoldsLive(t)

\* A client that stops reading or sending does not stop the main thread: it
\* gets ROOT back each time it gave it away, unless a thread serves one of
\* the requests of the MIDAS server that wait for their client under the lock.
StalledClientsHarmless ==
  main # "loop" ~>
    \/ main = "loop"
    \/ \E t \in Servers : pc[t] = "locked" /\ request[t] \in RecvLocked
=============================================================================
