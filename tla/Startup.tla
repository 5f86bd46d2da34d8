------------------------------- MODULE Startup -------------------------------
(***************************************************************************)
(* How processes of Heavy start on one machine: main of src/src/main.rs,   *)
(* the debug socket's set-up in src/src/socket.rs, and the trainer's lock  *)
(* on the data directory in src/src/ml/train.rs.                           *)
(*                                                                         *)
(* The processes are configured with the same debug socket path and the    *)
(* same data directory, and with the same or different addresses to listen *)
(* on.  main binds its address first and only then spawns the two tasks;   *)
(* a task that fails ends alone.  Processes die and are started again at   *)
(* any time.  What the operating system does is what it promises: one      *)
(* listener per address, one holder per file lock, which goes with the     *)
(* process, and a socket file that outlives its process.                   *)
(***************************************************************************)

CONSTANTS
  Procs,         (* processes of Heavy                                     *)
  Binds,         (* addresses config.bind may be set to                    *)
  Nobody,        (* the lock is free                                       *)
  None           (* nothing has the socket's path                          *)

ASSUME ConstantsAssumption ==
  /\ Nobody \notin Procs
  /\ Procs \cap {None, "file", "stale"} = {}
  /\ None \notin {"file", "stale"}

VARIABLES
  bind,          (* config.bind of each process                            *)
  writable,      (* the processes may write where the data directory is    *)
  main,          (* where each process is                                  *)
  sock,          (* where its debug-socket task is                         *)
  trainer,       (* where its trainer task is                              *)
  node,          (* what has the socket's path: the socket of a process,   *)
                 (* a socket that nobody answers on, or a regular file     *)
  dirs,          (* the directories that exist                             *)
  lock,          (* who holds the lock on the data directory               *)
  died           (* history: a process died after it had spawned its tasks *)

config == <<bind, writable>>
trainerVars == <<trainer, dirs, lock>>
socketVars == <<sock, node>>
vars == <<config, main, trainerVars, socketVars, died>>

Init ==
  /\ bind \in [Procs -> Binds]
  /\ writable \in BOOLEAN
  /\ main = [p \in Procs |-> "down"]
  /\ sock = [p \in Procs |-> "off"]
  /\ trainer = [p \in Procs |-> "off"]
  /\ node \in {None, "file", "stale"}
  /\ dirs \in {{}, {"base"}, {"base", "site"}}
  /\ lock = Nobody
  /\ died = FALSE

-----------------------------------------------------------------------------
(* main *)

(* Mutant: the tasks are spawned before the address is bound. *)
BootSpawning(p) ==
  /\ main[p] = "down"
  /\ main' = [main EXCEPT ![p] = "starting"]
  /\ sock' = [sock EXCEPT ![p] = "check"]
  /\ UNCHANGED <<config, trainerVars, node, died>>

Boot(p) ==
  /\ main[p] = "down"
  /\ main' = [main EXCEPT ![p] = "starting"]
  /\ UNCHANGED <<config, trainerVars, socketVars, died>>

(* The configuration is invalid, the access log cannot be opened, or the   *)
(* address is taken: main panics with nothing spawned that matters here.   *)
StartFails(p) ==
  /\ main[p] = "starting"
  /\ main' = [main EXCEPT ![p] = "down"]
  /\ UNCHANGED <<config, trainerVars, socketVars, died>>

Listening(address) == {p \in Procs : main[p] = "serving" /\ bind[p] = address}

Listen(p) ==
  /\ main[p] = "starting"
  /\ Listening(bind[p]) = {}
  /\ main' = [main EXCEPT ![p] = "serving"]
  /\ sock' = [sock EXCEPT ![p] = "check"]
  /\ trainer' = [trainer EXCEPT ![p] = "base"]
  /\ UNCHANGED <<config, node, dirs, lock, died>>

(* The process ends.  Its lock is free; its socket file stays. *)
Die(p) ==
  /\ main[p] = "serving"
  /\ main' = [main EXCEPT ![p] = "down"]
  /\ sock' = [sock EXCEPT ![p] = "off"]
  /\ trainer' = [trainer EXCEPT ![p] = "off"]
  /\ node' = IF node = p THEN "stale" ELSE node
  /\ lock' = IF lock = p THEN Nobody ELSE lock
  /\ died' = TRUE
  /\ UNCHANGED <<config, dirs>>

-----------------------------------------------------------------------------
(* run_debug_socket: look, remove, bind, each a system call of its own. *)

SocketGoes(p, from, to) ==
  /\ sock[p] = from
  /\ sock' = [sock EXCEPT ![p] = to]
  /\ UNCHANGED <<config, main, trainerVars, died>>

IsSocket == node \in Procs \cup {"stale"}

(* Mutant: an old socket file is left where it is. *)
CheckKeeping(p) == SocketGoes(p, "check", "bind") /\ UNCHANGED node

Check(p) ==
  /\ SocketGoes(p, "check", IF IsSocket THEN "remove" ELSE "bind")
  /\ UNCHANGED node

(* remove_file, which panics when there is nothing to remove any more. *)
Remove(p) ==
  /\ SocketGoes(p, "remove", IF node = None THEN "failed" ELSE "bind")
  /\ node' = None

(* Mutant: a failed bind removes what is in the way and gives up. *)
BindRemoving(p) ==
  /\ SocketGoes(p, "bind", IF node = None THEN "serving" ELSE "failed")
  /\ node' = IF node = None THEN p ELSE None

(* UnixListener::bind, which panics when the path exists. *)
BindSocket(p) ==
  /\ SocketGoes(p, "bind", IF node = None THEN "serving" ELSE "failed")
  /\ node' = IF node = None THEN p ELSE node

SocketTask(p) == Check(p) \/ Remove(p) \/ BindSocket(p)

-----------------------------------------------------------------------------
(* The trainer: lock_data_dir, and then it sleeps with the lock in hand. *)

TrainerGoes(p, from, to) ==
  /\ trainer[p] = from
  /\ trainer' = [trainer EXCEPT ![p] = to]
  /\ UNCHANGED <<config, main, socketVars, died>>

(* A directory that exists is fine; otherwise it is created. *)
MakeDir(p, dir, next) ==
  \/ /\ dir \in dirs \/ writable
     /\ TrainerGoes(p, dir, next)
     /\ dirs' = dirs \cup {dir}
     /\ UNCHANGED lock
  \/ /\ dir \notin dirs /\ ~writable
     /\ TrainerGoes(p, dir, "disabled")
     /\ UNCHANGED <<dirs, lock>>

(* Mutant: the file with the lock is closed when lock_data_dir returns. *)
LockAndClose(p) ==
  /\ writable /\ lock = Nobody
  /\ TrainerGoes(p, "lock", "training")
  /\ UNCHANGED <<dirs, lock>>

LockDir(p) ==
  /\ writable /\ lock = Nobody
  /\ TrainerGoes(p, "lock", "training")
  /\ lock' = p
  /\ UNCHANGED dirs

(* The lock file cannot be opened or somebody else has it; there is no     *)
(* second attempt.                                                         *)
LockFails(p) ==
  /\ ~(writable /\ lock = Nobody)
  /\ TrainerGoes(p, "lock", "disabled")
  /\ UNCHANGED <<dirs, lock>>

TrainerTask(p) ==
  \/ MakeDir(p, "base", "site")
  \/ MakeDir(p, "site", "lock")
  \/ LockDir(p)
  \/ LockFails(p)

Next ==
  \E p \in Procs :
    \/ Boot(p) \/ StartFails(p) \/ Listen(p) \/ Die(p)
    \/ SocketTask(p)
    \/ TrainerTask(p)

Spec == Init /\ [][Next]_vars

(* The runtime schedules the tasks it spawned. *)
FairSpec == Spec /\ \A p \in Procs : WF_vars(SocketTask(p)) /\ WF_vars(TrainerTask(p))

-----------------------------------------------------------------------------
(* Properties. *)

(* At most one of the processes that share a data directory trains, through *)
(* every order of starts, deaths and restarts.                             *)
OneTrainer ==
  \A p, q \in Procs : (trainer[p] = "training" /\ trainer[q] = "training") => p = q

(* Processes that listen on different addresses race for the debug socket, *)
(* and may remove the one another has just bound.  Still, when all of them *)
(* are through and none has died, one answers on the path, unless a file   *)
(* that is no socket was in the way.                                       *)
Settled == \A p \in Procs : sock[p] \notin {"check", "remove", "bind"}

SomeoneAnswers ==
  (Settled /\ ~died /\ \E p \in Procs : main[p] = "serving") =>
    (node = "file" \/ \E p \in Procs : node = p /\ sock[p] = "serving")

(* Heavy started a second time with the configuration of a process that    *)
(* runs never takes that one's debug socket, because it fails to listen    *)
(* before it looks at the path.                                            *)
SecondStartHarmless ==
  [][\A p \in Procs :
       (node = p /\ \A q \in Procs : bind[q] = bind[p])
         => (node' = p \/ main'[p] = "down")]_vars

(* A process that is started again after it died gets its debug socket     *)
(* back: the socket file it left behind is not in its way.                 *)
SocketComesBack ==
  \A p \in Procs :
    (sock[p] = "check" /\ node # "file" /\ \A q \in Procs : bind[q] = bind[p])
      ~> (node = p \/ main[p] = "down")

(* The inductive invariant behind the safety properties. *)
TypeOK ==
  /\ bind \in [Procs -> Binds]
  /\ writable \in BOOLEAN
  /\ main \in [Procs -> {"down", "starting", "serving"}]
  /\ sock \in [Procs -> {"off", "check", "remove", "bind", "serving", "failed"}]
  /\ trainer \in [Procs -> {"off", "base", "site", "lock", "training", "disabled"}]
  /\ node \in Procs \cup {None, "file", "stale"}
  /\ dirs \subseteq {"base", "site"}
  /\ lock \in Procs \cup {Nobody}
  /\ died \in BOOLEAN

(* Tasks run in processes that listen, on an address of their own; who     *)
(* trains holds the lock; who has the path is listening on it.             *)
TaskInv ==
  \A p \in Procs :
    /\ main[p] # "serving" => sock[p] = "off" /\ trainer[p] = "off"
    /\ main[p] = "serving" => Listening(bind[p]) = {p} /\ sock[p] # "off"
    /\ trainer[p] = "training" => lock = p
    /\ node = p => sock[p] = "serving"

(* As long as nobody died: whoever removed the socket is going to bind, or *)
(* the next one will; and a stale socket is only left alone by tasks that  *)
(* have not looked or are going to remove it.                              *)
RaceInv ==
  ~died =>
    /\ node = None =>
         \/ \E p \in Procs : sock[p] = "bind"
         \/ \A p \in Procs : sock[p] \in {"off", "check"}
    /\ node = "stale" => \A p \in Procs : sock[p] \in {"off", "check", "remove"}

IInv == TypeOK /\ TaskInv /\ RaceInv

(* What makes it so: of processes with one address the one that listens    *)
(* has the path to itself.  Its task finds what the check found, does not  *)
(* panic unless a file is there that is no socket, and keeps the path.     *)
Alone == \A p, q \in Procs : bind[p] = bind[q]

AloneGetsSocket ==
  Alone => \A p \in Procs :
    /\ sock[p] = "remove" => node = "stale"
    /\ sock[p] = "bind" => node \in {None, "file"}
    /\ sock[p] = "serving" => node = p
    /\ sock[p] = "failed" => node = "file"
=============================================================================
