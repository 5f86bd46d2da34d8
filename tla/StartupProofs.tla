---------------------------- MODULE StartupProofs -----------------------------
(***************************************************************************)
(* What starting processes of Heavy on one machine guarantees for any      *)
(* number of processes and addresses, through any starts and deaths.       *)
(***************************************************************************)
EXTENDS Startup, TLAPS

USE ConstantsAssumption DEF ConstantsAssumption

(* Nothing runs in the initial state, and nothing is on the path but what  *)
(* was left there.                                                         *)
LEMMA InitIInv == Init => IInv
BY DEF Init, IInv, TypeOK, TaskInv, RaceInv, Listening

-----------------------------------------------------------------------------
(* Types. *)

LEMMA MainKeepsTypes ==
  ASSUME TypeOK, NEW p \in Procs, Boot(p) \/ StartFails(p) \/ Listen(p) \/ Die(p)
  PROVE  TypeOK'
<1>1. CASE Boot(p)
  BY <1>1 DEF TypeOK, Boot, config, trainerVars, socketVars
<1>2. CASE StartFails(p)
  BY <1>2 DEF TypeOK, StartFails, config, trainerVars, socketVars
<1>3. CASE Listen(p)
  BY <1>3 DEF TypeOK, Listen, config
<1>4. CASE Die(p)
  BY <1>4 DEF TypeOK, Die, config
<1> QED
  BY <1>1, <1>2, <1>3, <1>4

LEMMA SocketKeepsTypes ==
  ASSUME TypeOK, NEW p \in Procs, SocketTask(p)
  PROVE  TypeOK'
<1>1. CASE Check(p)
  BY <1>1 DEF TypeOK, Check, SocketGoes, config, trainerVars
<1>2. CASE Remove(p)
  BY <1>2 DEF TypeOK, Remove, SocketGoes, config, trainerVars
<1>3. CASE BindSocket(p)
  BY <1>3 DEF TypeOK, BindSocket, SocketGoes, config, trainerVars
<1> QED
  BY <1>1, <1>2, <1>3 DEF SocketTask

LEMMA TrainerKeepsTypes ==
  ASSUME TypeOK, NEW p \in Procs, TrainerTask(p)
  PROVE  TypeOK'
<1>1. CASE MakeDir(p, "base", "site")
  BY <1>1 DEF TypeOK, MakeDir, TrainerGoes, config, socketVars
<1>2. CASE MakeDir(p, "site", "lock")
  BY <1>2 DEF TypeOK, MakeDir, TrainerGoes, config, socketVars
<1>3. CASE LockDir(p)
  BY <1>3 DEF TypeOK, LockDir, TrainerGoes, config, socketVars
<1>4. CASE LockFails(p)
  BY <1>4 DEF TypeOK, LockFails, TrainerGoes, config, socketVars
<1> QED
  BY <1>1, <1>2, <1>3, <1>4 DEF TrainerTask

-----------------------------------------------------------------------------
(* Tasks, locks and listeners. *)

LEMMA MainKeepsTasks ==
  ASSUME TypeOK, TaskInv, NEW p \in Procs, Boot(p) \/ StartFails(p) \/ Listen(p) \/ Die(p)
  PROVE  TaskInv'
<1>1. CASE Boot(p)
  BY <1>1 DEF TypeOK, TaskInv, Boot, Listening, config, trainerVars, socketVars
<1>2. CASE StartFails(p)
  BY <1>2 DEF TypeOK, TaskInv, StartFails, Listening, config, trainerVars, socketVars
<1>3. CASE Listen(p)
  BY <1>3 DEF TypeOK, TaskInv, Listen, Listening, config
<1>4. CASE Die(p)
  BY <1>4 DEF TypeOK, TaskInv, Die, Listening, config
<1> QED
  BY <1>1, <1>2, <1>3, <1>4

LEMMA SocketKeepsTasks ==
  ASSUME TypeOK, TaskInv, NEW p \in Procs, SocketTask(p)
  PROVE  TaskInv'
<1>1. CASE Check(p)
  BY <1>1 DEF TypeOK, TaskInv, Check, SocketGoes, Listening, config, trainerVars
<1>2. CASE Remove(p)
  BY <1>2 DEF TypeOK, TaskInv, Remove, SocketGoes, Listening, config, trainerVars
<1>3. CASE BindSocket(p)
  BY <1>3 DEF TypeOK, TaskInv, BindSocket, SocketGoes, Listening, config, trainerVars
<1> QED
  BY <1>1, <1>2, <1>3 DEF SocketTask

(* The trainer's steps to "training" need a free lock and take it; the     *)
(* other ones do not touch it, and no one else's.                          *)
LEMMA TrainerKeepsTasks ==
  ASSUME TypeOK, TaskInv, NEW p \in Procs, TrainerTask(p)
  PROVE  TaskInv'
<1>1. CASE MakeDir(p, "base", "site")
  BY <1>1 DEF TypeOK, TaskInv, MakeDir, TrainerGoes, Listening, config, socketVars
<1>2. CASE MakeDir(p, "site", "lock")
  BY <1>2 DEF TypeOK, TaskInv, MakeDir, TrainerGoes, Listening, config, socketVars
<1>3. CASE LockDir(p)
  BY <1>3 DEF TypeOK, TaskInv, LockDir, TrainerGoes, Listening, config, socketVars
<1>4. CASE LockFails(p)
  BY <1>4 DEF TypeOK, TaskInv, LockFails, TrainerGoes, Listening, config, socketVars
<1> QED
  BY <1>1, <1>2, <1>3, <1>4 DEF TrainerTask

-----------------------------------------------------------------------------
(* The race for the socket's path, as long as nobody died. *)

LEMMA StartKeepsRace ==
  ASSUME TypeOK, TaskInv, RaceInv, NEW p \in Procs, Boot(p) \/ StartFails(p) \/ Listen(p) \/ Die(p)
  PROVE  RaceInv'
<1>1. CASE Boot(p)
  BY <1>1 DEF TypeOK, RaceInv, Boot, socketVars
<1>2. CASE StartFails(p)
  BY <1>2 DEF TypeOK, RaceInv, StartFails, socketVars
<1>3. CASE Listen(p)
  <2>1. main[p] = "starting" /\ node' = node /\ died' = died
    BY <1>3 DEF Listen
  <2>2. sock' = [sock EXCEPT ![p] = "check"]
    BY <1>3 DEF Listen
  <2>3. sock[p] = "off"
    BY <2>1 DEF TaskInv
  <2> QED
    BY <2>1, <2>2, <2>3 DEF TypeOK, RaceInv
<1>4. CASE Die(p)
  BY <1>4 DEF Die, RaceInv
<1> QED
  BY <1>1, <1>2, <1>3, <1>4

(* A task that removed the socket is at its bind, and a task that finds    *)
(* nothing to remove any more was overtaken by one that is.                *)
LEMMA SocketKeepsRace ==
  ASSUME TypeOK, RaceInv, NEW p \in Procs, SocketTask(p)
  PROVE  RaceInv'
<1>1. CASE Check(p)
  BY <1>1 DEF TypeOK, RaceInv, Check, IsSocket, SocketGoes
<1>2. CASE Remove(p)
  BY <1>2 DEF TypeOK, RaceInv, Remove, SocketGoes
<1>3. CASE BindSocket(p)
  BY <1>3 DEF TypeOK, RaceInv, BindSocket, SocketGoes
<1> QED
  BY <1>1, <1>2, <1>3 DEF SocketTask

LEMMA TrainerKeepsRace ==
  ASSUME RaceInv, NEW p \in Procs, TrainerTask(p)
  PROVE  RaceInv'
BY DEF RaceInv, TrainerTask, MakeDir, LockDir, LockFails, TrainerGoes, socketVars

-----------------------------------------------------------------------------
(* Theorems. *)

(* A step of the system is one of the three kinds, or changes nothing. *)
LEMMA NextIInv == IInv /\ [Next]_vars => IInv'
<1> SUFFICES ASSUME IInv, [Next]_vars
             PROVE  IInv'
  OBVIOUS
<1>1. CASE UNCHANGED vars
  BY <1>1 DEF IInv, TypeOK, TaskInv, RaceInv, Listening, vars, config, trainerVars, socketVars
<1>2. ASSUME NEW p \in Procs, Boot(p) \/ StartFails(p) \/ Listen(p) \/ Die(p)
      PROVE  IInv'
  BY <1>2, MainKeepsTypes, MainKeepsTasks, StartKeepsRace DEF IInv
<1>3. ASSUME NEW p \in Procs, SocketTask(p)
      PROVE  IInv'
  BY <1>3, SocketKeepsTypes, SocketKeepsTasks, SocketKeepsRace DEF IInv
<1>4. ASSUME NEW p \in Procs, TrainerTask(p)
      PROVE  IInv'
  BY <1>4, TrainerKeepsTypes, TrainerKeepsTasks, TrainerKeepsRace DEF IInv
<1> QED
  BY <1>1, <1>2, <1>3, <1>4 DEF Next

(* The inductive invariant of starting: tasks run only where main listens, *)
(* a listener is alone on its address, who trains holds the lock, and      *)
(* before the first death the socket's path is never given up by everyone. *)
THEOREM Invariance == Spec => []IInv
<1> QED
  BY InitIInv, NextIInv, PTL DEF Spec

(* At most one process trains on a data directory (lock_data_dir). *)
THEOREM SingleTrainer == Spec => []OneTrainer
<1>1. IInv => OneTrainer
  BY DEF IInv, TaskInv, OneTrainer
<1> QED
  BY <1>1, Invariance, PTL

(* However the removals and binds of run_debug_socket interleave, when all *)
(* are through and none has died one process answers on the path.          *)
THEOREM SocketIsServed == Spec => []SomeoneAnswers
<1>1. IInv => SomeoneAnswers
  <2> SUFFICES ASSUME IInv, Settled, ~died, NEW q \in Procs, main[q] = "serving", node # "file"
               PROVE  \E p \in Procs : node = p /\ sock[p] = "serving"
    BY DEF SomeoneAnswers
  <2>1. sock[q] \notin {"off", "check", "remove", "bind"}
    BY DEF IInv, TaskInv, Settled
  <2>2. node # None
    BY <2>1 DEF IInv, RaceInv, Settled
  <2>3. node # "stale"
    BY <2>1 DEF IInv, RaceInv
  <2>4. node \in Procs
    BY <2>2, <2>3 DEF IInv, TypeOK
  <2> QED
    BY <2>4 DEF IInv, TaskInv
<1> QED
  BY <1>1, Invariance, PTL

(* A second process with the same address never takes the debug socket of  *)
(* the one that runs: only a process that listens gets to remove it.       *)
THEOREM SecondStartIsHarmless == Spec => SecondStartHarmless
<1> DEFINE Kept == \A p \in Procs :
                     (node = p /\ \A q \in Procs : bind[q] = bind[p])
                       => (node' = p \/ main'[p] = "down")
<1>1. IInv /\ [Next]_vars => [Kept]_vars
  <2> SUFFICES ASSUME IInv, Next,
                      NEW p \in Procs, node = p, \A q \in Procs : bind[q] = bind[p]
               PROVE  node' = p \/ main'[p] = "down"
    OBVIOUS
  <2>1. sock[p] = "serving" /\ main[p] = "serving"
    BY DEF IInv, TaskInv, TypeOK
  <2>2. \A q \in Procs : sock[q] # "off" => q = p
    BY <2>1 DEF IInv, TaskInv, Listening
  <2>3. PICK q \in Procs : \/ Boot(q) \/ StartFails(q) \/ Listen(q) \/ Die(q)
                           \/ SocketTask(q)
                           \/ TrainerTask(q)
    BY DEF Next
  <2>4. CASE Boot(q) \/ StartFails(q) \/ Listen(q) \/ TrainerTask(q)
    BY <2>4 DEF Boot, StartFails, Listen, TrainerTask, MakeDir, LockDir, LockFails,
                TrainerGoes, socketVars
  <2>5. CASE Die(q)
    BY <2>5 DEF Die, IInv, TypeOK
  <2>6. CASE SocketTask(q)
    <3>1. sock[q] \in {"check", "remove", "bind"}
      BY <2>6 DEF SocketTask, Check, Remove, BindSocket, SocketGoes
    <3> QED
      BY <3>1, <2>1, <2>2
  <2> QED
    BY <2>3, <2>4, <2>5, <2>6
<1> QED
  BY <1>1, Invariance, PTL DEF Spec, SecondStartHarmless

(* Between the steps of run_debug_socket nothing happens to the path, as   *)
(* long as all that could be started listen on one address.                *)
THEOREM LoneListenerGetsSocket == Spec => []AloneGetsSocket
<1>1. Init => AloneGetsSocket
  BY DEF Init, AloneGetsSocket
<1>2. ASSUME IInv, AloneGetsSocket, [Next]_vars
      PROVE  AloneGetsSocket'
  <2> SUFFICES ASSUME Alone, Next
               PROVE  \A p \in Procs :
                        /\ sock'[p] = "remove" => node' = "stale"
                        /\ sock'[p] = "bind" => node' \in {None, "file"}
                        /\ sock'[p] = "serving" => node' = p
                        /\ sock'[p] = "failed" => node' = "file"
    <3>1. bind' = bind
      BY <1>2 DEF Next, vars, config, Boot, StartFails, Listen, Die, SocketTask, Check, Remove,
                  BindSocket, SocketGoes, TrainerTask, MakeDir, LockDir, LockFails, TrainerGoes
    <3>2. CASE UNCHANGED vars
      BY <1>2, <3>2 DEF vars, config, socketVars, AloneGetsSocket, Alone
    <3> QED
      BY <1>2, <3>1, <3>2 DEF AloneGetsSocket, Alone
  <2> USE <1>2 DEF IInv, TypeOK
  <2>1. \A p, q \in Procs : sock[p] # "off" /\ sock[q] # "off" => p = q
    BY DEF TaskInv, Listening, Alone
  <2>2. PICK q \in Procs : \/ Boot(q) \/ StartFails(q) \/ Listen(q) \/ Die(q)
                           \/ SocketTask(q)
                           \/ TrainerTask(q)
    BY DEF Next
  <2>3. CASE Boot(q) \/ StartFails(q) \/ TrainerTask(q)
    BY <2>3 DEF Boot, StartFails, TrainerTask, MakeDir, LockDir, LockFails, TrainerGoes,
                socketVars, AloneGetsSocket
  <2>4. CASE Listen(q)
    BY <2>4 DEF Listen, AloneGetsSocket
  <2>5. CASE Die(q)
    <3>1. \A p \in Procs : p # q => sock[p] = "off"
      BY <2>5 DEF Die, TaskInv, Listening, Alone
    <3> QED
      BY <2>5, <3>1 DEF Die
  <2>6. CASE SocketTask(q)
    <3>1. sock[q] # "off" /\ \A p \in Procs : p # q => sock[p] = "off" /\ sock'[p] = "off"
      BY <2>1, <2>6 DEF SocketTask, Check, Remove, BindSocket, SocketGoes
    <3>2. CASE Check(q)
      BY <3>1, <3>2 DEF Check, SocketGoes, IsSocket, TaskInv
    <3>3. CASE Remove(q)
      BY <3>1, <3>3 DEF Remove, SocketGoes, AloneGetsSocket
    <3>4. CASE BindSocket(q)
      BY <3>1, <3>4 DEF BindSocket, SocketGoes, AloneGetsSocket
    <3> QED
      BY <2>6, <3>2, <3>3, <3>4 DEF SocketTask
  <2> QED
    BY <2>2, <2>3, <2>4, <2>5, <2>6
<1> QED
  BY <1>1, <1>2, Invariance, PTL DEF Spec
=============================================================================
