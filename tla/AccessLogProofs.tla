--------------------------- MODULE AccessLogProofs ---------------------------
(***************************************************************************)
(* The access log keeps the order of its entries and loses none without a  *)
(* reason, for any number of entries, rotations and restarts.              *)
(***************************************************************************)
EXTENDS AccessLog, SequenceTheorems, TLAPS

(* What appending one element does, index by index. *)
LEMMA Appended ==
  ASSUME NEW S, NEW s \in Seq(S), NEW e \in S
  PROVE  /\ Append(s, e) \in Seq(S)
         /\ Len(Append(s, e)) = Len(s) + 1 /\ Len(s) \in Nat
         /\ \A i \in 1 .. Len(s) : Append(s, e)[i] = s[i]
         /\ Append(s, e)[Len(s) + 1] = e
BY AppendProperties

(* What taking the first element does. *)
LEMMA Taken ==
  ASSUME NEW S, NEW s \in Seq(S), s # << >>
  PROVE  /\ Tail(s) \in Seq(S)
         /\ Len(Tail(s)) = Len(s) - 1 /\ Len(s) \in Nat /\ Len(s) >= 1
         /\ \A i \in 1 .. Len(s) - 1 : Tail(s)[i] = s[i + 1]
         /\ Head(s) = s[1] /\ Head(s) \in S
BY HeadTailProperties, EmptySeq

(* What the log and the channel are made of. *)
LEMMA Elements ==
  ASSUME TypeOK
  PROVE  /\ Len(log) \in Nat /\ Len(queue) \in Nat
         /\ \A i \in 1 .. Len(log) :
              log[i].entry \in 1 .. appended /\ log[i].file \in 1 .. files
         /\ \A i \in 1 .. Len(queue) : queue[i] \in 0 .. appended
<1> DEFINE Entry == [file : 1 .. files, entry : 1 .. appended]
<1>1. log \in Seq(Entry) /\ queue \in Seq(0 .. appended)
  BY DEF TypeOK, Commands
<1>2. \A i \in 1 .. Len(log) : log[i] \in Entry
  <2> HIDE DEF Entry
  <2> QED BY <1>1, ElementOfSeq
<1>3. \A i \in 1 .. Len(queue) : queue[i] \in 0 .. appended
  BY <1>1, ElementOfSeq
<1>4. Len(log) \in Nat /\ Len(queue) \in Nat
  BY <1>1, LenProperties
<1> QED BY <1>2, <1>3, <1>4

(* A log stays one when there are more files and more entries. *)
LEMMA LogGrows ==
  ASSUME TypeOK, NEW f \in Nat, NEW a \in Nat, files <= f, appended <= a
  PROVE  log \in Seq([file : 1 .. f, entry : 1 .. a])
<1> DEFINE Old == [file : 1 .. files, entry : 1 .. appended]
           New == [file : 1 .. f, entry : 1 .. a]
<1>1. 1 .. files \subseteq 1 .. f /\ 1 .. appended \subseteq 1 .. a
  BY DEF TypeOK
<1>2. Old \subseteq New
  BY <1>1
<1>3. log \in Seq(Old)
  BY DEF TypeOK
<1> HIDE DEF Old, New
<1>4. log \in Seq(New)
  BY <1>2, <1>3, SeqMonotonic
<1> QED BY <1>4 DEF New

LEMMA InitIInv == Init => IInv
<1> SUFFICES ASSUME Init PROVE IInv
  OBVIOUS
<1>1. Len(queue) = 0 /\ Len(log) = 0 /\ appended = 0
  BY DEF Init
<1>2. TypeOK /\ DiskInv
  <2>1. queue \in Seq(Commands) /\ log \in Seq([file : 1 .. files, entry : 1 .. appended])
    BY EmptySeq DEF Init
  <2>2. files = 1 /\ writer = 1 /\ path = 1 /\ lost = {}
    BY DEF Init
  <2>3. /\ alive = TRUE /\ registered = FALSE /\ pending = FALSE /\ refused = FALSE
    BY DEF Init
  <2>4. /\ files \in Nat /\ path \in 0 .. files /\ writer \in 1 .. files
        /\ path \in {0, files} /\ lost \subseteq 1 .. appended
    BY <2>2
  <2> QED BY <1>1, <2>1, <2>2, <2>3, <2>4 DEF TypeOK, DiskInv
<1>3. QueueInv /\ LogInOrder
  BY <1>1 DEF QueueInv, LogInOrder
<1>4. Written = {} /\ Queued = {} /\ lost = {} /\ 1 .. appended = {}
  BY <1>1 DEF Init, Written, Queued
<1> QED BY <1>2, <1>3, <1>4 DEF IInv, NothingVanishes

(* Steps that neither append nor take a command, write or lose anything.   *)
LEMMA QuietStep ==
  ASSUME IInv, UNCHANGED <<queue, log, appended, lost>>,
         DiskInv', files' \in Nat, files <= files',
         alive' \in BOOLEAN, registered' \in BOOLEAN,
         pending' \in BOOLEAN, refused' \in BOOLEAN,
         ~alive' => ~registered' /\ queue' = << >>,
         pending' => registered'
  PROVE  IInv'
<1>1. TypeOK /\ appended \in Nat /\ files \in Nat /\ writer \in 1 .. files /\ writer = files
  BY DEF IInv, TypeOK, DiskInv
<1>2. log \in Seq([file : 1 .. files', entry : 1 .. appended])
  BY <1>1, LogGrows
<1>3. writer' \in 1 .. files' /\ path' \in 0 .. files'
  BY <1>1 DEF DiskInv
<1>4. queue \in Seq(Commands) /\ lost \subseteq 1 .. appended /\ Commands' = Commands
  BY <1>1 DEF TypeOK, Commands
<1>5. TypeOK'
  BY <1>1, <1>2, <1>3, <1>4 DEF TypeOK
<1>6. QueueInv'
  BY DEF IInv, QueueInv
<1>7. LogInOrder'
  BY DEF IInv, LogInOrder
<1>8. NothingVanishes'
  BY DEF IInv, NothingVanishes, Written, Queued
<1> QED BY <1>5, <1>6, <1>7, <1>8 DEF IInv

(* A new entry at the end of the channel is newer than everything. *)
LEMMA AppendStep ==
  ASSUME IInv, AppendEntry
  PROVE  IInv'
<1>1. /\ TypeOK /\ appended \in Nat /\ files \in Nat
      /\ appended' = appended + 1 /\ appended' \in Nat /\ appended' # 0
  BY DEF IInv, TypeOK, AppendEntry
<1>2. /\ queue' \in Seq(0 .. appended')
      /\ Len(queue') = Len(queue) + 1 /\ Len(queue) \in Nat
      /\ \A i \in 1 .. Len(queue) : queue'[i] = queue[i]
      /\ queue'[Len(queue) + 1] = appended'
  <2>1. queue \in Seq(0 .. appended)
    BY <1>1 DEF TypeOK, Commands
  <2>2. 0 .. appended \subseteq 0 .. appended' /\ appended' \in 0 .. appended'
    BY <1>1
  <2>3. queue \in Seq(0 .. appended')
    BY <2>1, <2>2, SeqMonotonic
  <2>4. queue' = Append(queue, appended')
    BY DEF AppendEntry
  <2> QED BY <2>2, <2>3, <2>4, Appended
<1>3. log \in Seq([file : 1 .. files, entry : 1 .. appended'])
  BY <1>1, LogGrows
<1>4. UNCHANGED <<log, lost, files, path, writer, alive, registered, pending, refused>> /\ alive
  BY DEF AppendEntry, process, disk
<1>5. TypeOK'
  <2>1. lost \subseteq 1 .. appended'
    BY <1>1 DEF TypeOK
  <2> QED BY <1>1, <1>2, <1>3, <1>4, <2>1 DEF TypeOK, Commands
<1>6. /\ \A i \in 1 .. Len(log) : log[i].entry \in 1 .. appended
      /\ \A i \in 1 .. Len(queue) : queue[i] \in 0 .. appended
  BY <1>1, Elements
<1>7. QueueInv'
  <2> SUFFICES ASSUME NEW j \in 1 .. Len(queue'), queue'[j] # Reopen
               PROVE  /\ \A i \in 1 .. Len(log) : log[i].entry < queue'[j]
                      /\ \A k \in 1 .. Len(queue') :
                           (k < j /\ queue'[k] # Reopen) => queue'[k] < queue'[j]
    BY <1>4 DEF QueueInv, Reopen
  <2>1. \A k \in 1 .. Len(queue') : k < j => k \in 1 .. Len(queue)
    BY <1>2
  <2>2. CASE j \in 1 .. Len(queue)
    <3>1. queue'[j] = queue[j] /\ queue[j] # Reopen
      BY <2>2, <1>2
    <3> QED BY <1>2, <2>1, <2>2, <3>1 DEF IInv, QueueInv
  <2>3. CASE j = Len(queue) + 1
    <3>1. queue'[j] = appended'
      BY <1>2, <2>3
    <3>2. \A i \in 1 .. Len(log) : log[i].entry < appended'
      BY <1>1, <1>6
    <3>3. \A k \in 1 .. Len(queue) : queue'[k] = queue[k] /\ queue[k] < appended'
      BY <1>1, <1>2, <1>6
    <3> QED BY <2>1, <3>1, <3>2, <3>3
  <2> QED BY <1>2, <2>2, <2>3
<1>8. LogInOrder' /\ DiskInv'
  BY <1>4 DEF IInv, LogInOrder, DiskInv
<1>9. Written' = Written /\ Queued' = Queued \cup {appended'}
  BY <1>1, <1>2, <1>4 DEF Written, Queued, Reopen
<1>10. NothingVanishes'
  <2>1. 1 .. appended' = (1 .. appended) \cup {appended'} /\ appended' \notin 1 .. appended
    BY <1>1
  <2>2. /\ 1 .. appended = Written \cup Queued \cup lost
        /\ Written \cap Queued = {} /\ Written \cap lost = {} /\ Queued \cap lost = {}
    BY DEF IInv, NothingVanishes
  <2> QED BY <1>4, <1>9, <2>1, <2>2 DEF NothingVanishes
<1> QED BY <1>5, <1>7, <1>8, <1>10 DEF IInv

(* A Reopen at the end of the channel disturbs no entry. *)
LEMMA SignalStep ==
  ASSUME IInv, ReceiveSignal
  PROVE  IInv'
<1>1. /\ TypeOK /\ appended \in Nat
      /\ UNCHANGED <<log, lost, appended, files, path, writer, alive, registered, refused>>
      /\ alive /\ pending' = FALSE
  BY DEF IInv, TypeOK, ReceiveSignal, process, disk
<1>2. /\ queue' \in Seq(0 .. appended)
      /\ Len(queue') = Len(queue) + 1 /\ Len(queue) \in Nat
      /\ \A i \in 1 .. Len(queue) : queue'[i] = queue[i]
      /\ queue'[Len(queue) + 1] = 0
  <2>1. queue \in Seq(0 .. appended) /\ 0 \in 0 .. appended
    BY <1>1 DEF TypeOK, Commands
  <2>2. queue' = Append(queue, 0)
    BY DEF ReceiveSignal, Reopen
  <2> QED BY <2>1, <2>2, Appended
<1>3. TypeOK'
  BY <1>1, <1>2 DEF TypeOK, Commands
<1>4. QueueInv'
  <2> SUFFICES ASSUME NEW j \in 1 .. Len(queue'), queue'[j] # Reopen
               PROVE  /\ \A i \in 1 .. Len(log) : log[i].entry < queue'[j]
                      /\ \A k \in 1 .. Len(queue') :
                           (k < j /\ queue'[k] # Reopen) => queue'[k] < queue'[j]
    BY <1>1 DEF QueueInv, Reopen
  <2>1. j \in 1 .. Len(queue) /\ \A k \in 1 .. Len(queue') : k < j => k \in 1 .. Len(queue)
    BY <1>2 DEF Reopen
  <2> QED BY <1>2, <2>1 DEF IInv, QueueInv
<1>5. LogInOrder' /\ DiskInv'
  BY <1>1 DEF IInv, LogInOrder, DiskInv
<1>6. Written' = Written /\ Queued' = Queued
  BY <1>1, <1>2 DEF Written, Queued, Reopen
<1>7. NothingVanishes'
  BY <1>1, <1>6 DEF IInv, NothingVanishes
<1> QED BY <1>3, <1>4, <1>5, <1>7 DEF IInv

(* What is left in the channel after its first command was taken.          *)
LEMMA TakeFacts ==
  ASSUME IInv, NEW command, Takes(command), queue' = Tail(queue), appended' = appended
  PROVE  /\ alive
         /\ queue' \in Seq(Commands)
         /\ command = queue[1] /\ command \in Commands
         /\ Len(queue) \in Nat /\ Len(queue) >= 1 /\ Len(queue') = Len(queue) - 1
         /\ \A i \in 1 .. Len(queue') : i + 1 \in 1 .. Len(queue) /\ queue'[i] = queue[i + 1]
         /\ command = Reopen => Queued' = Queued
         /\ command # Reopen => Queued' = Queued \ {command} /\ command \in Queued
<1>1. /\ alive
      /\ queue' \in Seq(Commands)
      /\ command = queue[1] /\ command \in Commands
      /\ Len(queue) \in Nat /\ Len(queue) >= 1 /\ Len(queue') = Len(queue) - 1
      /\ \A i \in 1 .. Len(queue) - 1 : queue'[i] = queue[i + 1]
  <2>1. queue \in Seq(Commands) /\ queue # << >> /\ command = Head(queue) /\ alive
    BY DEF IInv, TypeOK, Takes
  <2> QED BY <2>1, Taken
<1>2. \A i \in 1 .. Len(queue') : i + 1 \in 1 .. Len(queue) /\ queue'[i] = queue[i + 1]
  BY <1>1
<1>3. Queued \subseteq Queued' \cup {command}
  <2> SUFFICES ASSUME NEW i \in 1 .. Len(queue), queue[i] # Reopen, queue[i] # command
               PROVE  queue[i] \in Queued'
    BY DEF Queued
  <2>1. i - 1 \in 1 .. Len(queue') /\ queue'[i - 1] = queue[i]
    BY <1>1
  <2> QED BY <2>1 DEF Queued, Reopen
<1>4. Queued' \subseteq Queued
  BY <1>2 DEF Queued, Reopen
<1>5. command # Reopen => command \in Queued /\ command \notin Queued'
  <2> SUFFICES ASSUME command # Reopen PROVE command \in Queued /\ command \notin Queued'
    OBVIOUS
  <2>1. 1 \in 1 .. Len(queue)
    BY <1>1
  <2>2. command \in Queued
    BY <1>1, <2>1 DEF Queued
  <2>3. ASSUME NEW i \in 1 .. Len(queue'), queue'[i] = command PROVE FALSE
    <3>1. i + 1 \in 1 .. Len(queue) /\ queue[i + 1] = command /\ 1 < i + 1
      BY <1>2, <2>3
    <3>2. queue[1] < queue[i + 1]
      BY <1>1, <2>1, <3>1 DEF IInv, QueueInv
    <3>3. command < command /\ command \in Nat
      BY <1>1, <3>1, <3>2 DEF Commands
    <3> QED BY <3>3
  <2> QED BY <2>2, <2>3 DEF Queued
<1>6. Reopen \notin Queued
  BY DEF Queued
<1> QED BY <1>1, <1>2, <1>3, <1>4, <1>5, <1>6

(* Taking a command leaves the rest of the channel in order.               *)
LEMMA TakeKeepsOrder ==
  ASSUME IInv, NEW command, Takes(command), queue' = Tail(queue), appended' = appended,
         log' = log
  PROVE  QueueInv'
<1> SUFFICES ASSUME NEW j \in 1 .. Len(queue'), queue'[j] # Reopen
             PROVE  /\ \A i \in 1 .. Len(log) : log[i].entry < queue'[j]
                    /\ \A k \in 1 .. Len(queue') :
                         (k < j /\ queue'[k] # Reopen) => queue'[k] < queue'[j]
  BY DEF QueueInv, Reopen
<1>1. \A i \in 1 .. Len(queue') : i + 1 \in 1 .. Len(queue) /\ queue'[i] = queue[i + 1]
  BY TakeFacts
<1>2. j + 1 \in 1 .. Len(queue) /\ queue'[j] = queue[j + 1]
  BY <1>1
<1>3. \A k \in 1 .. Len(queue') : k < j => k + 1 < j + 1
  BY <1>2
<1> QED BY <1>1, <1>2, <1>3 DEF IInv, QueueInv

(* A failed write moves an entry from the channel to the lost ones.        *)
LEMMA WriteFailsStep ==
  ASSUME IInv, WriteFails
  PROVE  IInv'
<1>1. PICK n \in 1 .. appended :
        /\ Takes(n) /\ queue' = Tail(queue) /\ lost' = lost \cup {n}
        /\ UNCHANGED <<alive, registered, pending, writer, path, files, log, appended, refused>>
  BY DEF WriteFails, process, disk
<1>2. /\ alive /\ queue' \in Seq(Commands)
      /\ Queued' = Queued \ {n} /\ n \in Queued
  BY <1>1, TakeFacts DEF Reopen
<1>3. TypeOK'
  <2>1. lost' \subseteq 1 .. appended
    BY <1>1 DEF IInv, TypeOK
  <2>2. Commands' = Commands
    BY <1>1 DEF Commands
  <2>3. log \in Seq([file : 1 .. files, entry : 1 .. appended])
    BY DEF IInv, TypeOK
  <2>4. /\ alive \in BOOLEAN /\ registered \in BOOLEAN /\ pending \in BOOLEAN
        /\ refused \in BOOLEAN
        /\ appended \in Nat /\ files \in Nat /\ path \in 0 .. files /\ writer \in 1 .. files
        /\ pending => registered
    BY DEF IInv, TypeOK
  <2>5. UNCHANGED <<alive, registered, pending, writer, path, files, log, appended, refused>>
    BY <1>1
  <2> QED BY <1>2, <2>1, <2>2, <2>3, <2>4, <2>5 DEF TypeOK
<1>4. QueueInv'
  BY <1>1, TakeKeepsOrder
<1>5. LogInOrder' /\ DiskInv' /\ Written' = Written
  BY <1>1 DEF IInv, LogInOrder, DiskInv, Written
<1>6. NothingVanishes'
  BY <1>1, <1>2, <1>5 DEF IInv, NothingVanishes
<1> QED BY <1>3, <1>4, <1>5, <1>6 DEF IInv

(* A written entry follows everything written and precedes everything      *)
(* queued, and the file it goes to is the newest.                          *)
LEMMA WriteEntryStep ==
  ASSUME IInv, WriteEntry
  PROVE  IInv'
<1>1. PICK n \in 1 .. appended :
        /\ Takes(n) /\ queue' = Tail(queue)
        /\ log' = Append(log, [file |-> writer, entry |-> n])
        /\ UNCHANGED <<alive, registered, pending, writer, path, files, appended, lost, refused>>
  BY DEF WriteEntry, process, disk
<1>2. /\ alive /\ queue' \in Seq(Commands) /\ n = queue[1] /\ n # Reopen
      /\ Len(queue) \in Nat /\ Len(queue) >= 1
      /\ \A i \in 1 .. Len(queue') : i + 1 \in 1 .. Len(queue) /\ queue'[i] = queue[i + 1]
      /\ Queued' = Queued \ {n} /\ n \in Queued
  BY <1>1, TakeFacts DEF Reopen
<1>3. UNCHANGED <<alive, registered, pending, writer, path, files, appended, lost, refused>>
  BY <1>1
<1>4. /\ TypeOK /\ appended \in Nat /\ files \in Nat /\ writer = files /\ files >= 1
      /\ Len(log) \in Nat
      /\ \A i \in 1 .. Len(log) :
           log[i].entry \in 1 .. appended /\ log[i].file \in 1 .. files
      /\ \A i \in 1 .. Len(queue) : queue[i] \in 0 .. appended
  <2>1. TypeOK /\ appended \in Nat /\ files \in Nat /\ writer = files /\ files >= 1
    BY DEF IInv, TypeOK, DiskInv
  <2> QED BY <2>1, Elements
<1>5. /\ log' \in Seq([file : 1 .. files, entry : 1 .. appended])
      /\ Len(log') = Len(log) + 1
      /\ \A i \in 1 .. Len(log) : log'[i] = log[i]
      /\ log'[Len(log) + 1].entry = n /\ log'[Len(log) + 1].file = files
  <2> DEFINE Entry == [file : 1 .. files, entry : 1 .. appended]
             e == [file |-> writer, entry |-> n]
  <2>1. e \in Entry /\ log \in Seq(Entry) /\ e.entry = n /\ e.file = files
    BY <1>4 DEF TypeOK
  <2>2. log' = Append(log, e)
    BY <1>1
  <2> HIDE DEF Entry, e
  <2>3. /\ log' \in Seq(Entry)
        /\ Len(log') = Len(log) + 1
        /\ \A i \in 1 .. Len(log) : log'[i] = log[i]
        /\ log'[Len(log) + 1] = e
    BY <2>1, <2>2, Appended
  <2> QED BY <2>1, <2>3 DEF Entry
<1>6. \A i \in 1 .. Len(log) : log[i].entry < n
  <2>1. 1 \in 1 .. Len(queue)
    BY <1>2
  <2> QED BY <1>2, <2>1 DEF IInv, QueueInv
<1>7. \A i \in 1 .. Len(queue') : queue'[i] # Reopen => n < queue'[i]
  <2>1. 1 \in 1 .. Len(queue) /\ \A i \in 1 .. Len(queue') : 1 < i + 1
    BY <1>2
  <2> QED BY <1>2, <2>1 DEF IInv, QueueInv
<1>8. TypeOK'
  <2>1. Commands' = Commands
    BY <1>3 DEF Commands
  <2>2. /\ alive \in BOOLEAN /\ registered \in BOOLEAN /\ pending \in BOOLEAN
        /\ refused \in BOOLEAN
        /\ path \in 0 .. files /\ writer \in 1 .. files /\ lost \subseteq 1 .. appended
        /\ pending => registered
    BY DEF IInv, TypeOK
  <2> QED BY <1>2, <1>3, <1>4, <1>5, <2>1, <2>2 DEF TypeOK
<1>9. QueueInv'
  <2> SUFFICES ASSUME NEW j \in 1 .. Len(queue'), queue'[j] # Reopen
               PROVE  /\ \A i \in 1 .. Len(log') : log'[i].entry < queue'[j]
                      /\ \A k \in 1 .. Len(queue') :
                           (k < j /\ queue'[k] # Reopen) => queue'[k] < queue'[j]
    BY DEF QueueInv, Reopen
  <2>1. j + 1 \in 1 .. Len(queue) /\ queue'[j] = queue[j + 1] /\ n < queue'[j]
    BY <1>2, <1>7
  <2>2. ASSUME NEW i \in 1 .. Len(log') PROVE log'[i].entry < queue'[j]
    <3>1. CASE i \in 1 .. Len(log)
      <4>1. log'[i].entry = log[i].entry
        BY <1>5, <3>1
      <4> QED BY <2>1, <3>1, <4>1 DEF IInv, QueueInv
    <3>2. CASE i = Len(log) + 1
      BY <1>5, <2>1, <3>2
    <3> QED BY <1>4, <1>5, <3>1, <3>2
  <2>3. ASSUME NEW k \in 1 .. Len(queue'), k < j, queue'[k] # Reopen
        PROVE  queue'[k] < queue'[j]
    <3>1. k + 1 \in 1 .. Len(queue) /\ queue'[k] = queue[k + 1] /\ k + 1 < j + 1
      BY <1>2, <2>1, <2>3
    <3> QED BY <2>1, <2>3, <3>1 DEF IInv, QueueInv
  <2> QED BY <2>2, <2>3
<1>10. LogInOrder'
  <2> SUFFICES ASSUME NEW i \in 1 .. Len(log'), NEW j \in 1 .. Len(log'), i < j
               PROVE  log'[i].entry < log'[j].entry /\ log'[i].file <= log'[j].file
    BY DEF LogInOrder
  <2>1. i \in 1 .. Len(log)
    BY <1>4, <1>5
  <2>2. log'[i] = log[i]
    BY <1>5, <2>1
  <2>3. CASE j \in 1 .. Len(log)
    <3>1. log'[j] = log[j]
      BY <1>5, <2>3
    <3> QED BY <2>1, <2>2, <2>3, <3>1 DEF IInv, LogInOrder
  <2>4. CASE j = Len(log) + 1
    <3>1. log'[j].entry = n /\ log'[j].file = files
      BY <1>5, <2>4
    <3>2. log[i].entry < n /\ log[i].file <= files
      BY <1>4, <1>6, <2>1
    <3> QED BY <2>2, <3>1, <3>2
  <2>5. j \in 1 .. Len(log) \/ j = Len(log) + 1
    <3>1. Len(log) \in Nat /\ Len(log') = Len(log) + 1
      BY <1>4, <1>5
    <3> QED BY <3>1
  <2> QED BY <2>3, <2>4, <2>5
<1>11. Written' = Written \cup {n}
  <2>1. 1 .. Len(log') = (1 .. Len(log)) \cup {Len(log) + 1}
    BY <1>4, <1>5
  <2>2. \A i \in 1 .. Len(log) : log'[i].entry = log[i].entry
    BY <1>5
  <2>3. Written' = {log'[i].entry : i \in 1 .. Len(log)} \cup {log'[Len(log) + 1].entry}
    BY <2>1 DEF Written
  <2>4. {log'[i].entry : i \in 1 .. Len(log)} = Written
    BY <2>2 DEF Written
  <2> QED BY <1>5, <2>3, <2>4
<1>12. NothingVanishes' /\ DiskInv'
  BY <1>2, <1>3, <1>11 DEF IInv, NothingVanishes, DiskInv
<1> QED BY <1>8, <1>9, <1>10, <1>12 DEF IInv

(* Whether or not the file can be opened, Reopen leaves the entries alone. *)
LEMMA ReopenStep ==
  ASSUME IInv, ReopenFile \/ ReopenFails
  PROVE  IInv'
<1>1. /\ Takes(Reopen) /\ queue' = Tail(queue)
      /\ UNCHANGED <<alive, registered, pending, log, appended, lost>>
      /\ refused' \in BOOLEAN
  BY DEF ReopenFile, ReopenFails, process
<1>2. DiskInv' /\ files' \in Nat /\ files <= files' /\ files >= 1
  BY DEF ReopenFile, ReopenFails, Opens, IInv, TypeOK, DiskInv, disk
<1>3. alive /\ queue' \in Seq(Commands) /\ Queued' = Queued
  BY <1>1, TakeFacts
<1>4. TypeOK /\ appended \in Nat /\ files \in Nat
  BY DEF IInv, TypeOK
<1>5. TypeOK'
  <2>1. log' \in Seq([file : 1 .. files', entry : 1 .. appended'])
    BY <1>1, <1>2, <1>4, LogGrows
  <2>2. Commands' = Commands
    BY <1>1 DEF Commands
  <2>3. writer' \in 1 .. files' /\ path' \in 0 .. files'
    BY <1>2, <1>4 DEF DiskInv
  <2>4. UNCHANGED <<alive, registered, pending, appended, lost>> /\ refused' \in BOOLEAN
    BY <1>1
  <2> QED BY <1>2, <1>3, <1>4, <2>1, <2>2, <2>3, <2>4 DEF TypeOK
<1>6. QueueInv'
  BY <1>1, TakeKeepsOrder
<1>7. LogInOrder' /\ Written' = Written
  BY <1>1 DEF IInv, LogInOrder, Written
<1>8. NothingVanishes'
  BY <1>1, <1>3, <1>7 DEF IInv, NothingVanishes
<1> QED BY <1>2, <1>5, <1>6, <1>7, <1>8 DEF IInv

(* The end of the process turns what is queued into what is lost.          *)
LEMMA DieStep ==
  ASSUME IInv, Die
  PROVE  IInv'
<1>1. TypeOK /\ Len(queue) \in Nat /\ \A i \in 1 .. Len(queue) : queue[i] \in 0 .. appended
  <2>1. TypeOK
    BY DEF IInv
  <2> QED BY <2>1, Elements
<1>2. Queued \subseteq 1 .. appended
  BY <1>1 DEF Queued, Reopen, TypeOK
<1>3. /\ queue' = << >> /\ lost' = lost \cup Queued
      /\ alive' = FALSE /\ registered' = FALSE /\ pending' = FALSE
      /\ UNCHANGED <<writer, path, files, log, appended, refused>>
  BY DEF Die, disk
<1>4. Len(queue') = 0
  BY <1>3
<1>5. Queued' = {} /\ Written' = Written
  BY <1>3, <1>4 DEF Queued, Written
<1>6. TypeOK'
  <2>1. queue' \in Seq(Commands')
    BY <1>3, EmptySeq
  <2>2. lost' \subseteq 1 .. appended
    BY <1>1, <1>2, <1>3 DEF TypeOK
  <2> QED BY <1>1, <1>3, <2>1, <2>2 DEF TypeOK
<1>7. DiskInv' /\ QueueInv' /\ LogInOrder'
  BY <1>3, <1>4 DEF IInv, DiskInv, QueueInv, LogInOrder
<1>8. NothingVanishes'
  BY <1>3, <1>5 DEF IInv, NothingVanishes
<1> QED BY <1>6, <1>7, <1>8 DEF IInv

(* The inductive invariant holds in every reachable state. *)
THEOREM Invariance == Spec => []IInv
<1>1. Init => IInv
  BY InitIInv
<1>2. IInv /\ [Next]_vars => IInv'
  <2> SUFFICES ASSUME IInv, [Next]_vars PROVE IInv'
    OBVIOUS
  <2>1. CASE UNCHANGED vars
    BY <2>1, QuietStep DEF vars, process, disk, IInv, TypeOK, DiskInv
  <2>2. CASE AppendEntry
    BY <2>2, AppendStep
  <2>3. CASE ReceiveSignal
    BY <2>3, SignalStep
  <2>4. CASE Write
    BY <2>4, WriteEntryStep, WriteFailsStep, ReopenStep DEF Write
  <2>5. CASE Register
    BY <2>5, QuietStep DEF Register, disk, IInv, TypeOK, DiskInv
  <2>6. CASE Rotate
    BY <2>6, QuietStep DEF Rotate, process, IInv, TypeOK, DiskInv
  <2>7. CASE Sighup
    <3>1. /\ UNCHANGED <<queue, log, appended, lost, files, path, writer, alive, registered>>
          /\ pending' = TRUE /\ refused' = FALSE /\ registered
      BY <2>7 DEF Sighup, disk
    <3>2. DiskInv' /\ files' \in Nat /\ files <= files'
      BY <3>1 DEF IInv, TypeOK, DiskInv
    <3>3. /\ alive' \in BOOLEAN /\ registered' \in BOOLEAN
          /\ pending' \in BOOLEAN /\ refused' \in BOOLEAN
      BY <3>1 DEF IInv, TypeOK
    <3>4. ~alive' => ~registered' /\ queue' = << >>
      BY <3>1 DEF IInv, TypeOK
    <3> QED BY <3>1, <3>2, <3>3, <3>4, QuietStep
  <2>8. CASE SighupKills \/ Kill
    BY <2>8, DieStep DEF SighupKills, Kill
  <2>9. CASE Start
    <3>1. files \in Nat /\ files >= 1 /\ path \in {0, files} /\ ~registered /\ ~pending
      BY <2>9 DEF IInv, TypeOK, DiskInv, Start
    <3>2. files' \in Nat /\ files <= files' /\ DiskInv'
      BY <2>9, <3>1 DEF Start, Opens, DiskInv
    <3>3. /\ UNCHANGED <<queue, log, appended, lost, registered, pending>>
          /\ alive' = TRUE /\ refused' = FALSE
      BY <2>9 DEF Start
    <3>4. registered' \in BOOLEAN /\ pending' \in BOOLEAN
      BY <3>3 DEF IInv, TypeOK
    <3> QED BY <3>1, <3>2, <3>3, <3>4, QuietStep
  <2> QED BY <2>1, <2>2, <2>3, <2>4, <2>5, <2>6, <2>7, <2>8, <2>9 DEF Next
<1> QED BY <1>1, <1>2, PTL DEF Spec

(* The variables keep their types: every entry in a file was appended, and *)
(* only a running process has a handler, a pending signal and a channel.   *)
THEOREM TypeCorrect == Spec => []TypeOK
BY Invariance, PTL DEF IInv

(* "Logs are serialized in the order they are received by the writer       *)
(* task", across all the files the writer task ever opens.                 *)
THEOREM OrderKept == Spec => []LogInOrder
BY Invariance, PTL DEF IInv

(* Neither Reopen nor a rotation loses or repeats an entry; a failed write *)
(* and the end of the process are the only ways to lose one.               *)
THEOREM NoEntryVanishes == Spec => []NothingVanishes
BY Invariance, PTL DEF IInv

-----------------------------------------------------------------------------
(* The access log implements LogPromise. *)

(* The entry the writer takes is the oldest one of the channel. *)
LEMMA HeadIsOldest ==
  ASSUME IInv, NEW n \in 1 .. appended, Takes(n), queue' = Tail(queue), appended' = appended
  PROVE  Promise!Oldest(n) /\ n \in Queued /\ Queued' = Queued \ {n}
<1>1. n # Reopen /\ n \in Nat /\ appended \in Nat
  BY DEF Reopen, IInv, TypeOK
<1>2. /\ n = queue[1] /\ n \in Queued /\ Queued' = Queued \ {n}
      /\ Len(queue) \in Nat /\ 1 \in 1 .. Len(queue)
  BY <1>1, TakeFacts
<1>3. ASSUME NEW i \in 1 .. Len(queue), queue[i] # Reopen
      PROVE  n <= queue[i]
  <2>1. CASE i = 1
    BY <1>1, <1>2, <2>1
  <2>2. CASE 1 < i
    <3>1. n < queue[i] /\ queue[i] \in 0 .. appended
      BY <1>1, <1>2, <1>3, <2>2, Elements DEF IInv, QueueInv
    <3> QED
      BY <1>1, <3>1
  <2> QED
    BY <1>2, <2>1, <2>2
<1>4. \A f \in Queued : n <= f
  BY <1>3 DEF Queued
<1> QED
  BY <1>2, <1>4 DEF Promise!Oldest

(* The files grow by the entry that is written. *)
LEMMA KeptGrows ==
  ASSUME IInv, NEW n \in 1 .. appended, log' = Append(log, [file |-> writer, entry |-> n])
  PROVE  Kept' = Append(Kept, n)
<1> DEFINE Entry == [file : 1 .. files, entry : 1 .. appended]
           e == [file |-> writer, entry |-> n]
<1>1. log \in Seq(Entry) /\ e \in Entry /\ e.entry = n
  BY DEF IInv, TypeOK
<1>2. log' = Append(log, e)
  OBVIOUS
<1> HIDE DEF Entry, e
<1>3. /\ Len(log) \in Nat /\ Len(log') = Len(log) + 1
      /\ \A i \in 1 .. Len(log) : log'[i] = log[i]
      /\ log'[Len(log) + 1].entry = n
  BY <1>1, <1>2, Appended
<1>4. n \in Nat /\ \A i \in 1 .. Len(log) : log[i].entry \in Nat
  BY Elements DEF IInv, TypeOK
<1>5. Kept \in Seq(Nat) /\ Len(Kept) = Len(log)
  BY <1>3, <1>4 DEF Kept
<1>6. /\ Append(Kept, n) \in Seq(Nat) /\ Len(Append(Kept, n)) = Len(log) + 1
      /\ \A i \in 1 .. Len(log) : Append(Kept, n)[i] = Kept[i]
      /\ Append(Kept, n)[Len(log) + 1] = n
  BY <1>4, <1>5, Appended
<1>7. Kept' = [i \in 1 .. Len(log) + 1 |-> log'[i].entry]
  BY <1>3 DEF Kept
<1>8. ASSUME NEW i \in 1 .. Len(log) + 1
      PROVE  Kept'[i] = Append(Kept, n)[i] /\ Kept'[i] \in Nat
  <2>1. CASE i = Len(log) + 1
    BY <1>3, <1>4, <1>6, <1>7, <2>1
  <2>2. CASE i # Len(log) + 1
    <3>1. i \in 1 .. Len(log)
      BY <1>3, <2>2
    <3>2. Kept[i] = log[i].entry
      BY <3>1 DEF Kept
    <3> QED
      BY <1>3, <1>4, <1>6, <1>7, <3>1, <3>2
  <2> QED
    BY <2>1, <2>2
<1>9. Kept' \in Seq(Nat) /\ Len(Kept') = Len(log) + 1
  BY <1>3, <1>7, <1>8
<1> QED
  BY <1>6, <1>8, <1>9, SeqEqual

(* Steps that touch no entry are not to be seen. *)
LEMMA PromiseStutters ==
  ASSUME UNCHANGED <<appended, log>>, Queued' = Queued
  PROVE  UNCHANGED Promise!vars
BY DEF Kept, Promise!vars

(* Each step of the access log is one of the promise's, or nothing to who  *)
(* appends to it.                                                          *)
LEMMA PromiseStep ==
  ASSUME IInv, [Next]_vars
  PROVE  [Promise!Next]_(Promise!vars)
<1>1. CASE UNCHANGED vars
  BY <1>1, PromiseStutters DEF vars, Queued
<1>2. CASE AppendEntry
  <2>1. /\ queue \in Seq(0 .. appended) /\ appended \in Nat
        /\ appended' = appended + 1 /\ queue' = Append(queue, appended') /\ log' = log
    BY <1>2 DEF IInv, TypeOK, Commands, AppendEntry
  <2>2. queue \in Seq(Nat) /\ appended' \in Nat /\ appended' # Reopen
    BY <2>1, SeqMonotonic DEF Reopen
  <2>3. /\ Len(queue') = Len(queue) + 1 /\ Len(queue) \in Nat
        /\ \A i \in 1 .. Len(queue) : queue'[i] = queue[i]
        /\ queue'[Len(queue) + 1] = appended'
    BY <2>1, <2>2, Appended
  <2>4. Queued' = Queued \cup {appended'}
    BY <2>2, <2>3 DEF Queued, Reopen
  <2>5. Kept' = Kept
    BY <2>1 DEF Kept
  <2> QED
    BY <2>1, <2>4, <2>5 DEF Promise!Next, Promise!Accept
<1>3. CASE WriteEntry
  <2>1. PICK n \in 1 .. appended :
          /\ Takes(n) /\ queue' = Tail(queue) /\ appended' = appended
          /\ log' = Append(log, [file |-> writer, entry |-> n])
    BY <1>3 DEF WriteEntry
  <2>2. Promise!Oldest(n) /\ n \in Queued /\ Queued' = Queued \ {n}
    BY <2>1, HeadIsOldest
  <2>3. Kept' = Append(Kept, n)
    BY <2>1, KeptGrows
  <2> QED
    BY <2>1, <2>2, <2>3 DEF Promise!Next, Promise!Keep
<1>4. CASE WriteFails
  <2>1. PICK n \in 1 .. appended :
          /\ Takes(n) /\ queue' = Tail(queue) /\ appended' = appended /\ log' = log
    BY <1>4 DEF WriteFails
  <2>2. Promise!Oldest(n) /\ n \in Queued /\ Queued' = Queued \ {n}
    BY <2>1, HeadIsOldest
  <2>3. Kept' = Kept
    BY <2>1 DEF Kept
  <2> QED
    BY <2>1, <2>2, <2>3 DEF Promise!Next, Promise!GiveUp
<1>5. CASE ReopenFile \/ ReopenFails
  <2>1. Takes(Reopen) /\ queue' = Tail(queue) /\ UNCHANGED <<appended, log>>
    BY <1>5 DEF ReopenFile, ReopenFails
  <2>2. Queued' = Queued
    BY <2>1, TakeFacts
  <2> QED
    BY <2>1, <2>2, PromiseStutters
<1>6. CASE ReceiveSignal
  <2>1. /\ queue \in Seq(Nat) /\ queue' = Append(queue, Reopen) /\ Reopen \in Nat
        /\ UNCHANGED <<appended, log>>
    <3>1. queue \in Seq(0 .. appended) /\ appended \in Nat
      BY DEF IInv, TypeOK, Commands
    <3> QED
      BY <1>6, <3>1, SeqMonotonic DEF ReceiveSignal, Reopen
  <2>2. /\ Len(queue') = Len(queue) + 1 /\ Len(queue) \in Nat
        /\ \A i \in 1 .. Len(queue) : queue'[i] = queue[i]
        /\ queue'[Len(queue) + 1] = Reopen
    BY <2>1, Appended
  <2>3. Queued' = Queued
    BY <2>2 DEF Queued, Reopen
  <2> QED
    BY <2>1, <2>3, PromiseStutters
<1>7. CASE SighupKills \/ Kill
  <2>1. queue' = << >> /\ UNCHANGED <<appended, log>>
    BY <1>7 DEF SighupKills, Kill, Die
  <2>2. Queued' = {} /\ Kept' = Kept
    BY <2>1 DEF Queued, Kept
  <2> QED
    BY <2>1, <2>2 DEF Promise!Next, Promise!End
<1>8. CASE Register \/ Rotate \/ Sighup \/ Start
  <2>1. UNCHANGED <<queue, appended, log>>
    BY <1>8 DEF Register, Rotate, Sighup, Start
  <2> QED
    BY <2>1, PromiseStutters DEF Queued
<1> QED
  BY <1>1, <1>2, <1>3, <1>4, <1>5, <1>6, <1>7, <1>8 DEF Next, Write

(* To whom it appends to, the access log is a sequence of entries that     *)
(* only grows at its end, in order, through every reopen and restart.      *)
THEOREM LogKeepsPromise == Spec => PromiseKept
<1>1. Init => Promise!Init
  <2> SUFFICES ASSUME Init PROVE Promise!Init
    OBVIOUS
  <2>1. Len(queue) = 0 /\ Len(log) = 0 /\ log = << >> /\ appended = 0
    BY DEF Init
  <2>2. Queued = {} /\ Kept = << >>
    BY <2>1 DEF Queued, Kept
  <2> QED
    BY <2>1, <2>2 DEF Promise!Init
<1>2. IInv /\ [Next]_vars => [Promise!Next]_(Promise!vars)
  BY PromiseStep
<1> QED
  BY <1>1, <1>2, Invariance, PTL DEF Spec, PromiseKept, Promise!Spec
=============================================================================
