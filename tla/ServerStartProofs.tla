------------------------- MODULE ServerStartProofs -------------------------
(***************************************************************************)
(* Proofs about ServerStart, for every set of clients.                     *)
(***************************************************************************)
EXTENDS ServerStart, TLAPS

Before == {"connect", "open", "flock", "blocked", "retry", "unlink", "start"}

(* A lock is held, or asked for, through an open descriptor; the server    *)
(* has none before it is started.  This holds whatever goes wrong.         *)
OpenFiles ==
    \A c \in Clients :
        /\ pc[c] \in Before => "server" \notin open[c]
        /\ pc[c] \in {"flock", "blocked"} => open[c] # {} /\ inode[c] # 0
        /\ c \in holds => inode[c] # 0

(* Who has which descriptor, by where client and server stand.             *)
Descriptors ==
    \A c \in Clients :
        /\ server[c] # "none" => pc[c] \notin Before
        /\ server[c] \in {"none", "running"} => "server" \notin open[c]
        /\ pc[c] \in {"open", "flock", "blocked", "retry"} => ~locked[c]
        /\ pc[c] \in {"flock", "blocked", "retry"} => inode[c] \in 1 .. files
        /\ pc[c] \in {"unlink", "start"} => locked[c]
        /\ pc[c] \in {"connect", "open", "flock", "blocked"} /\ ~locked[c] => c \notin holds

(* flock excludes: two descriptors that have the lock are of two files.    *)
Locks ==
    /\ \A c \in holds : inode[c] \in 1 .. files
    /\ \A c, d \in holds : inode[c] = inode[d] => c = d

(* Whoever is about to start a server, or is a server that has not given   *)
(* the lock back, has the lock.                                            *)
StartersHold ==
    \A c \in Clients :
        /\ pc[c] \in Before /\ locked[c] => c \in holds
        /\ server[c] \in {"unlink", "bind", "listen", "unlock", "close"} =>
               c \in holds /\ "server" \in open[c]

(* The socket, by the steps of server_create_socket.                       *)
Sockets ==
    \A c \in Clients :
        /\ server[c] = "bind" => socket = None
        /\ server[c] = "listen" => socket = c
        /\ server[c] = "unlock" => socket = c /\ answers

IsUp(c) == server[c] \in {"close", "running"}

(* Until a server is up there is one lock file.                            *)
OneLockFile == (\A c \in Clients : ~IsUp(c)) => files \in {0, 1} /\ lockfile = files

(* Once it is up, it is the only one and nobody is about to start another, *)
(* although there may be several lock files, each with its own lock.       *)
UpAlone ==
    \A s \in Clients : IsUp(s) =>
        /\ socket = s /\ answers
        /\ \A c \in Clients : /\ Alive(c) => c = s
                              /\ pc[c] \notin {"unlink", "start"}

Safe == Descriptors /\ Locks /\ StartersHold /\ Sockets /\ OneLockFile /\ UpAlone

IInv == TypeOK /\ OpenFiles /\ (faults = 0 => Safe)

(* No process runs and no file exists at first.                            *)
LEMMA InitIInv == Init => IInv
<1> SUFFICES ASSUME Init PROVE IInv OBVIOUS
<1>1. TypeOK BY DEF Init, TypeOK, Final
<1>2. OpenFiles BY DEF Init, OpenFiles, Before
<1>3. Descriptors /\ Locks /\ StartersHold
  BY DEF Init, Descriptors, Locks, StartersHold, Before
<1>4. Sockets /\ OneLockFile /\ UpAlone
  BY DEF Init, Sockets, OneLockFile, UpAlone, IsUp
<1> QED BY <1>1, <1>2, <1>3, <1>4 DEF IInv, Safe

(* A client goes on to start a server only if none answers: none is up.    *)
LEMMA ConnectStep ==
  ASSUME IInv, NEW c \in Clients, client_connect(c)
  PROVE  IInv'
<1> USE DEF client_connect, Goto, At, clientvars, lockvars, serversvars, Final, Before, Alive
<1>1. TypeOK' BY DEF IInv, TypeOK, OpenFiles
<1>2. OpenFiles' BY DEF IInv, TypeOK, OpenFiles
<1>3. ASSUME faults' = 0 PROVE Safe'
  <2>1. faults = 0 /\ Safe BY <1>3 DEF IInv, TypeOK
  <2>2. Descriptors'
    BY <2>1, <1>3 DEF IInv, TypeOK, OpenFiles, Safe, Descriptors, StartersHold
  <2>3. Locks' BY <2>1, <1>3 DEF IInv, TypeOK, OpenFiles, Safe, Descriptors, Locks
  <2>4. StartersHold'
    BY <2>1, <1>3 DEF IInv, TypeOK, OpenFiles, Safe, Descriptors, StartersHold
  <2>5. Sockets'
    BY <2>1, <1>3 DEF IInv, TypeOK, Safe, Descriptors, Locks, StartersHold, Sockets,
                      OneLockFile, UpAlone, IsUp
  <2>6. OneLockFile'
    BY <2>1, <1>3 DEF IInv, TypeOK, Safe, OneLockFile, UpAlone, IsUp, Descriptors
  <2>7. UpAlone'
    BY <2>1, <1>3 DEF IInv, TypeOK, Safe, Descriptors, Locks, StartersHold, Sockets,
                      OneLockFile, UpAlone, IsUp
  <2> QED BY <2>2, <2>3, <2>4, <2>5, <2>6, <2>7 DEF Safe
<1> QED BY <1>1, <1>2, <1>3 DEF IInv

(* While no server is up the lock file is there, or is the first one.      *)
LEMMA GetLockStep ==
  ASSUME IInv, NEW c \in Clients, NEW b \in BOOLEAN, client_get_lock(c, b)
  PROVE  IInv'
<1> USE DEF client_get_lock, Goto, At, Fault, clientvars, lockvars, serversvars, Final, Before, Alive
<1>1. TypeOK'
  <2>1. files' \in Nat /\ lockfile' \in {0, files'} BY DEF IInv, TypeOK
  <2>2. holds' \subseteq {d \in Clients : open'[d] # {}}
    <3>1. open' = open \/ open' = [open EXCEPT ![c] = {"client"}] OBVIOUS
    <3>2. \A d \in Clients : open[d] # {} => open'[d] # {}
      <4> SUFFICES ASSUME NEW d \in Clients, open[d] # {} PROVE open'[d] # {} OBVIOUS
      <4>1. CASE open' = open BY <4>1
      <4>2. CASE open' = [open EXCEPT ![c] = {"client"}]
        <5>1. open'[d] = IF d = c THEN {"client"} ELSE open[d]
          BY <4>2 DEF IInv, TypeOK
        <5> QED BY <5>1
      <4> QED BY <3>1, <4>1, <4>2
    <3> QED BY <3>2 DEF IInv, TypeOK
  <2>3. inode' \in [Clients -> Nat] /\ open' \in [Clients -> SUBSET {"client", "server"}]
    BY DEF IInv, TypeOK
  <2>4. pc' \in [Clients -> {"connect", "open", "flock", "blocked", "retry", "unlink",
                            "start", "close", "fail"} \cup Final]
    BY DEF IInv, TypeOK
  <2>5. locked' \in [Clients -> BOOLEAN]
    <3>1. locked' = locked \/ locked' = [locked EXCEPT ![c] = TRUE] OBVIOUS
    <3>2. locked \in [Clients -> BOOLEAN] BY DEF IInv, TypeOK
    <3> QED BY <3>1, <3>2
  <2>6. faults' \in Nat BY DEF IInv, TypeOK
  <2> QED BY <2>1, <2>2, <2>3, <2>4, <2>5, <2>6 DEF IInv, TypeOK
<1>2. OpenFiles' BY DEF IInv, TypeOK, OpenFiles
<1>3. ASSUME faults' = 0 PROVE Safe'
  <2>1. faults = 0 /\ Safe BY <1>3 DEF IInv, TypeOK
  <2>2. Descriptors'
    BY <2>1, <1>3 DEF IInv, TypeOK, OpenFiles, Safe, Descriptors, StartersHold
  <2>3. Locks' BY <2>1, <1>3 DEF IInv, TypeOK, OpenFiles, Safe, Descriptors, Locks
  <2>4. StartersHold'
    BY <2>1, <1>3 DEF IInv, TypeOK, OpenFiles, Safe, Descriptors, StartersHold
  <2>5. Sockets'
    BY <2>1, <1>3 DEF IInv, TypeOK, Safe, Descriptors, Locks, StartersHold, Sockets,
                      OneLockFile, UpAlone, IsUp
  <2>6. OneLockFile'
    BY <2>1, <1>3 DEF IInv, TypeOK, Safe, OneLockFile, UpAlone, IsUp, Descriptors
  <2>7. UpAlone'
    BY <2>1, <1>3 DEF IInv, TypeOK, Safe, Descriptors, Locks, StartersHold, Sockets,
                      OneLockFile, UpAlone, IsUp
  <2> QED BY <2>2, <2>3, <2>4, <2>5, <2>6, <2>7 DEF Safe
<1> QED BY <1>1, <1>2, <1>3 DEF IInv

(* flock gives a lock that nobody has.                                     *)
LEMMA FlockStep ==
  ASSUME IInv, NEW c \in Clients, NEW b \in BOOLEAN, flock_NB(c, b)
  PROVE  IInv'
<1> USE DEF flock_NB, Goto, At, Fault, IsHeld, clientvars, lockvars, serversvars, Final, Before, Alive
<1>1. TypeOK'
  <2>1. holds' \subseteq {d \in Clients : open'[d] # {}} BY DEF IInv, TypeOK, OpenFiles
  <2>2. pc' \in [Clients -> {"connect", "open", "flock", "blocked", "retry", "unlink",
                            "start", "close", "fail"} \cup Final]
    BY DEF IInv, TypeOK
  <2>3. locked' \in [Clients -> BOOLEAN]
    <3>1. locked' = locked \/ locked' = [locked EXCEPT ![c] = TRUE] OBVIOUS
    <3>2. locked \in [Clients -> BOOLEAN] BY DEF IInv, TypeOK
    <3> QED BY <3>1, <3>2
  <2>4. faults' \in Nat BY DEF IInv, TypeOK
  <2> QED BY <2>1, <2>2, <2>3, <2>4 DEF IInv, TypeOK
<1>2. OpenFiles' BY DEF IInv, TypeOK, OpenFiles
<1>3. ASSUME faults' = 0 PROVE Safe'
  <2>1. faults = 0 /\ Safe BY <1>3 DEF IInv, TypeOK
  <2>2. Descriptors'
    BY <2>1, <1>3 DEF IInv, TypeOK, OpenFiles, Safe, Descriptors, StartersHold
  <2>3. Locks' BY <2>1, <1>3 DEF IInv, TypeOK, OpenFiles, Safe, Descriptors, Locks
  <2>4. StartersHold'
    BY <2>1, <1>3 DEF IInv, TypeOK, OpenFiles, Safe, Descriptors, StartersHold
  <2>5. Sockets'
    BY <2>1, <1>3 DEF IInv, TypeOK, Safe, Descriptors, Locks, StartersHold, Sockets,
                      OneLockFile, UpAlone, IsUp
  <2>6. OneLockFile'
    BY <2>1, <1>3 DEF IInv, TypeOK, Safe, OneLockFile, UpAlone, IsUp, Descriptors
  <2>7. UpAlone'
    BY <2>1, <1>3 DEF IInv, TypeOK, Safe, Descriptors, Locks, StartersHold, Sockets,
                      OneLockFile, UpAlone, IsUp
  <2> QED BY <2>2, <2>3, <2>4, <2>5, <2>6, <2>7 DEF Safe
<1> QED BY <1>1, <1>2, <1>3 DEF IInv

(* So it does to a client that waited.                                     *)
LEMMA BlockStep ==
  ASSUME IInv, NEW c \in Clients, flock_EX(c)
  PROVE  IInv'
<1> USE DEF flock_EX, Goto, At, IsHeld, clientvars, lockvars, serversvars, Final, Before, Alive
<1>1. TypeOK' BY DEF IInv, TypeOK, OpenFiles
<1>2. OpenFiles' BY DEF IInv, TypeOK, OpenFiles
<1>3. ASSUME faults' = 0 PROVE Safe'
  <2>1. faults = 0 /\ Safe BY <1>3 DEF IInv, TypeOK
  <2>2. Descriptors'
    BY <2>1, <1>3 DEF IInv, TypeOK, OpenFiles, Safe, Descriptors, StartersHold
  <2>3. Locks' BY <2>1, <1>3 DEF IInv, TypeOK, OpenFiles, Safe, Descriptors, Locks
  <2>4. StartersHold'
    BY <2>1, <1>3 DEF IInv, TypeOK, OpenFiles, Safe, Descriptors, StartersHold
  <2>5. Sockets'
    BY <2>1, <1>3 DEF IInv, TypeOK, Safe, Descriptors, Locks, StartersHold, Sockets,
                      OneLockFile, UpAlone, IsUp
  <2>6. OneLockFile'
    BY <2>1, <1>3 DEF IInv, TypeOK, Safe, OneLockFile, UpAlone, IsUp, Descriptors
  <2>7. UpAlone'
    BY <2>1, <1>3 DEF IInv, TypeOK, Safe, Descriptors, Locks, StartersHold, Sockets,
                      OneLockFile, UpAlone, IsUp
  <2> QED BY <2>2, <2>3, <2>4, <2>5, <2>6, <2>7 DEF Safe
<1> QED BY <1>1, <1>2, <1>3 DEF IInv

(* Which gives it back; its server has not been started.                   *)
LEMMA RetryStep ==
  ASSUME IInv, NEW c \in Clients, close_and_retry(c)
  PROVE  IInv'
<1> USE DEF close_and_retry, Goto, At, Closed, clientvars, lockvars, serversvars, Final, Before, Alive
<1>1. TypeOK' BY DEF IInv, TypeOK, OpenFiles
<1>2. OpenFiles' BY DEF IInv, TypeOK, OpenFiles
<1>3. ASSUME faults' = 0 PROVE Safe'
  <2>1. faults = 0 /\ Safe BY <1>3 DEF IInv, TypeOK
  <2>2. Descriptors'
    BY <2>1, <1>3 DEF IInv, TypeOK, OpenFiles, Safe, Descriptors, StartersHold
  <2>3. Locks' BY <2>1, <1>3 DEF IInv, TypeOK, OpenFiles, Safe, Descriptors, Locks
  <2>4. StartersHold'
    BY <2>1, <1>3 DEF IInv, TypeOK, OpenFiles, Safe, Descriptors, StartersHold
  <2>5. Sockets'
    BY <2>1, <1>3 DEF IInv, TypeOK, Safe, Descriptors, Locks, StartersHold, Sockets,
                      OneLockFile, UpAlone, IsUp
  <2>6. OneLockFile'
    BY <2>1, <1>3 DEF IInv, TypeOK, Safe, OneLockFile, UpAlone, IsUp, Descriptors
  <2>7. UpAlone'
    BY <2>1, <1>3 DEF IInv, TypeOK, Safe, Descriptors, Locks, StartersHold, Sockets,
                      OneLockFile, UpAlone, IsUp
  <2> QED BY <2>2, <2>3, <2>4, <2>5, <2>6, <2>7 DEF Safe
<1> QED BY <1>1, <1>2, <1>3 DEF IInv

(* The socket that is removed is of no live server: the client has the     *)
(* only lock.                                                              *)
LEMMA UnlinkSocketStep ==
  ASSUME IInv, NEW c \in Clients, NEW b \in BOOLEAN, unlink_socket(c, b)
  PROVE  IInv'
<1> USE DEF unlink_socket, Goto, At, clientvars, lockvars, serversvars, Final, Before, Alive
<1>1. TypeOK' BY DEF IInv, TypeOK, OpenFiles
<1>2. OpenFiles' BY DEF IInv, TypeOK, OpenFiles
<1>3. ASSUME faults' = 0 PROVE Safe'
  <2>1. faults = 0 /\ Safe BY <1>3 DEF IInv, TypeOK
  <2>2. Descriptors'
    BY <2>1, <1>3 DEF IInv, TypeOK, OpenFiles, Safe, Descriptors, StartersHold
  <2>3. Locks' BY <2>1, <1>3 DEF IInv, TypeOK, OpenFiles, Safe, Descriptors, Locks
  <2>4. StartersHold'
    BY <2>1, <1>3 DEF IInv, TypeOK, OpenFiles, Safe, Descriptors, StartersHold
  <2>5. Sockets'
    BY <2>1, <1>3 DEF IInv, TypeOK, Safe, Descriptors, Locks, StartersHold, Sockets,
                      OneLockFile, UpAlone, IsUp
  <2>6. OneLockFile'
    BY <2>1, <1>3 DEF IInv, TypeOK, Safe, OneLockFile, UpAlone, IsUp, Descriptors
  <2>7. UpAlone'
    BY <2>1, <1>3 DEF IInv, TypeOK, Safe, Descriptors, Locks, StartersHold, Sockets,
                      OneLockFile, UpAlone, IsUp
  <2> QED BY <2>2, <2>3, <2>4, <2>5, <2>6, <2>7 DEF Safe
<1> QED BY <1>1, <1>2, <1>3 DEF IInv

(* The server inherits the lock.                                           *)
LEMMA ServerStartStep ==
  ASSUME IInv, NEW c \in Clients, NEW b \in BOOLEAN, server_start(c, b)
  PROVE  IInv'
<1> USE DEF server_start, Goto, At, clientvars, lockvars, serversvars, Final, Before, Alive
<1>1. TypeOK' BY DEF IInv, TypeOK, OpenFiles
<1>2. OpenFiles' BY DEF IInv, TypeOK, OpenFiles
<1>3. ASSUME faults' = 0 PROVE Safe'
  <2>1. faults = 0 /\ Safe BY <1>3 DEF IInv, TypeOK
  <2>2. Descriptors'
    BY <2>1, <1>3 DEF IInv, TypeOK, OpenFiles, Safe, Descriptors, StartersHold
  <2>3. Locks' BY <2>1, <1>3 DEF IInv, TypeOK, OpenFiles, Safe, Descriptors, Locks
  <2>4. StartersHold'
    BY <2>1, <1>3 DEF IInv, TypeOK, OpenFiles, Safe, Descriptors, StartersHold
  <2>5. Sockets'
    BY <2>1, <1>3 DEF IInv, TypeOK, Safe, Descriptors, Locks, StartersHold, Sockets,
                      OneLockFile, UpAlone, IsUp
  <2>6. OneLockFile'
    BY <2>1, <1>3 DEF IInv, TypeOK, Safe, OneLockFile, UpAlone, IsUp, Descriptors
  <2>7. UpAlone'
    BY <2>1, <1>3 DEF IInv, TypeOK, Safe, Descriptors, Locks, StartersHold, Sockets,
                      OneLockFile, UpAlone, IsUp
  <2> QED BY <2>2, <2>3, <2>4, <2>5, <2>6, <2>7 DEF Safe
<1> QED BY <1>1, <1>2, <1>3 DEF IInv

(* The client closes its descriptor, the server keeps its own.             *)
LEMMA ReturnStep ==
  ASSUME IInv, NEW c \in Clients, client_connect_returns(c)
  PROVE  IInv'
<1> USE DEF client_connect_returns, Goto, At, Closed, clientvars, lockvars, serversvars, Final, Before, Alive
<1>1. TypeOK' BY DEF IInv, TypeOK, OpenFiles
<1>2. OpenFiles' BY DEF IInv, TypeOK, OpenFiles
<1>3. ASSUME faults' = 0 PROVE Safe'
  <2>1. faults = 0 /\ Safe BY <1>3 DEF IInv, TypeOK
  <2>2. Descriptors'
    BY <2>1, <1>3 DEF IInv, TypeOK, OpenFiles, Safe, Descriptors, StartersHold
  <2>3. Locks' BY <2>1, <1>3 DEF IInv, TypeOK, OpenFiles, Safe, Descriptors, Locks
  <2>4. StartersHold'
    BY <2>1, <1>3 DEF IInv, TypeOK, OpenFiles, Safe, Descriptors, StartersHold
  <2>5. Sockets'
    BY <2>1, <1>3 DEF IInv, TypeOK, Safe, Descriptors, Locks, StartersHold, Sockets,
                      OneLockFile, UpAlone, IsUp
  <2>6. OneLockFile'
    BY <2>1, <1>3 DEF IInv, TypeOK, Safe, OneLockFile, UpAlone, IsUp, Descriptors
  <2>7. UpAlone'
    BY <2>1, <1>3 DEF IInv, TypeOK, Safe, Descriptors, Locks, StartersHold, Sockets,
                      OneLockFile, UpAlone, IsUp
  <2> QED BY <2>2, <2>3, <2>4, <2>5, <2>6, <2>7 DEF Safe
<1> QED BY <1>1, <1>2, <1>3 DEF IInv

(* The same when the client dies.                                          *)
LEMMA KilledStep ==
  ASSUME IInv, NEW c \in Clients, ClientKilled(c)
  PROVE  IInv'
<1> USE DEF ClientKilled, Goto, Closed, clientvars, lockvars, serversvars, Final, Before, Alive
<1>1. TypeOK' BY DEF IInv, TypeOK, OpenFiles
<1>2. OpenFiles' BY DEF IInv, TypeOK, OpenFiles
<1>3. ASSUME faults' = 0 PROVE Safe'
  <2>1. faults = 0 /\ Safe BY <1>3 DEF IInv, TypeOK
  <2>2. Descriptors'
    BY <2>1, <1>3 DEF IInv, TypeOK, OpenFiles, Safe, Descriptors, StartersHold
  <2>3. Locks' BY <2>1, <1>3 DEF IInv, TypeOK, OpenFiles, Safe, Descriptors, Locks
  <2>4. StartersHold'
    BY <2>1, <1>3 DEF IInv, TypeOK, OpenFiles, Safe, Descriptors, StartersHold
  <2>5. Sockets'
    BY <2>1, <1>3 DEF IInv, TypeOK, Safe, Descriptors, Locks, StartersHold, Sockets,
                      OneLockFile, UpAlone, IsUp
  <2>6. OneLockFile'
    BY <2>1, <1>3 DEF IInv, TypeOK, Safe, OneLockFile, UpAlone, IsUp, Descriptors
  <2>7. UpAlone'
    BY <2>1, <1>3 DEF IInv, TypeOK, Safe, Descriptors, Locks, StartersHold, Sockets,
                      OneLockFile, UpAlone, IsUp
  <2> QED BY <2>2, <2>3, <2>4, <2>5, <2>6, <2>7 DEF Safe
<1> QED BY <1>1, <1>2, <1>3 DEF IInv

(* The server that creates its socket has the only lock.                   *)
LEMMA CreateUnlinkStep ==
  ASSUME IInv, NEW c \in Clients, server_create_socket_unlink(c)
  PROVE  IInv'
<1> USE DEF server_create_socket_unlink, Serves, Becomes, clientvars, lockvars, serversvars, Final, Before, Alive
<1>1. TypeOK' BY DEF IInv, TypeOK, OpenFiles
<1>2. OpenFiles' BY DEF IInv, TypeOK, OpenFiles
<1>3. ASSUME faults' = 0 PROVE Safe'
  <2>1. faults = 0 /\ Safe BY <1>3 DEF IInv, TypeOK
  <2>2. Descriptors'
    BY <2>1, <1>3 DEF IInv, TypeOK, OpenFiles, Safe, Descriptors, StartersHold
  <2>3. Locks' BY <2>1, <1>3 DEF IInv, TypeOK, OpenFiles, Safe, Descriptors, Locks
  <2>4. StartersHold'
    BY <2>1, <1>3 DEF IInv, TypeOK, OpenFiles, Safe, Descriptors, StartersHold
  <2>5. Sockets'
    BY <2>1, <1>3 DEF IInv, TypeOK, Safe, Descriptors, Locks, StartersHold, Sockets,
                      OneLockFile, UpAlone, IsUp
  <2>6. OneLockFile'
    BY <2>1, <1>3 DEF IInv, TypeOK, Safe, OneLockFile, UpAlone, IsUp, Descriptors
  <2>7. UpAlone'
    BY <2>1, <1>3 DEF IInv, TypeOK, Safe, Descriptors, Locks, StartersHold, Sockets,
                      OneLockFile, UpAlone, IsUp
  <2> QED BY <2>2, <2>3, <2>4, <2>5, <2>6, <2>7 DEF Safe
<1> QED BY <1>1, <1>2, <1>3 DEF IInv

(* Nobody else has created the socket since it was removed.                *)
LEMMA CreateBindStep ==
  ASSUME IInv, NEW c \in Clients, NEW b \in BOOLEAN, server_create_socket_bind(c, b)
  PROVE  IInv'
<1> USE DEF server_create_socket_bind, Serves, Becomes, Created, Fault, clientvars, lockvars, serversvars, Final, Before, Alive
<1>1. TypeOK' BY DEF IInv, TypeOK, OpenFiles
<1>2. OpenFiles' BY DEF IInv, TypeOK, OpenFiles
<1>3. ASSUME faults' = 0 PROVE Safe'
  <2>1. faults = 0 /\ Safe BY <1>3 DEF IInv, TypeOK
  <2>2. Descriptors'
    BY <2>1, <1>3 DEF IInv, TypeOK, OpenFiles, Safe, Descriptors, StartersHold
  <2>3. Locks' BY <2>1, <1>3 DEF IInv, TypeOK, OpenFiles, Safe, Descriptors, Locks
  <2>4. StartersHold'
    BY <2>1, <1>3 DEF IInv, TypeOK, OpenFiles, Safe, Descriptors, StartersHold
  <2>5. Sockets'
    BY <2>1, <1>3 DEF IInv, TypeOK, Safe, Descriptors, Locks, StartersHold, Sockets,
                      OneLockFile, UpAlone, IsUp
  <2>6. OneLockFile'
    BY <2>1, <1>3 DEF IInv, TypeOK, Safe, OneLockFile, UpAlone, IsUp, Descriptors
  <2>7. UpAlone'
    BY <2>1, <1>3 DEF IInv, TypeOK, Safe, Descriptors, Locks, StartersHold, Sockets,
                      OneLockFile, UpAlone, IsUp
  <2> QED BY <2>2, <2>3, <2>4, <2>5, <2>6, <2>7 DEF Safe
<1> QED BY <1>1, <1>2, <1>3 DEF IInv

(* The server can be connected to before it removes the lock file.         *)
LEMMA CreateListenStep ==
  ASSUME IInv, NEW c \in Clients, NEW b \in BOOLEAN, server_create_socket_listen(c, b)
  PROVE  IInv'
<1> USE DEF server_create_socket_listen, Serves, Becomes, Created, Fault, clientvars, lockvars, serversvars, Final, Before, Alive
<1>1. TypeOK' BY DEF IInv, TypeOK, OpenFiles
<1>2. OpenFiles' BY DEF IInv, TypeOK, OpenFiles
<1>3. ASSUME faults' = 0 PROVE Safe'
  <2>1. faults = 0 /\ Safe BY <1>3 DEF IInv, TypeOK
  <2>2. Descriptors'
    BY <2>1, <1>3 DEF IInv, TypeOK, OpenFiles, Safe, Descriptors, StartersHold
  <2>3. Locks' BY <2>1, <1>3 DEF IInv, TypeOK, OpenFiles, Safe, Descriptors, Locks
  <2>4. StartersHold'
    BY <2>1, <1>3 DEF IInv, TypeOK, OpenFiles, Safe, Descriptors, StartersHold
  <2>5. Sockets'
    <3>1. socket = c BY <2>1 DEF Safe, Sockets
    <3>2. b /\ answers' = (answers \/ socket = c) /\ socket' = socket
      BY <2>1, <1>3
    <3>5. socket' = c /\ answers' BY <3>1, <3>2, Zenon
    <3>3. \A d \in Clients : server'[d] \in {"bind", "listen", "unlock"} => d = c
      BY <2>1, <3>1, StartersAssumption DEF Safe, Sockets, IInv, TypeOK
    <3>4. server'[c] = "unlock" BY <2>1 DEF Safe, StartersHold, IInv, TypeOK
    <3> QED BY <3>3, <3>4, <3>5 DEF Sockets
  <2>6. OneLockFile'
    BY <2>1, <1>3 DEF IInv, TypeOK, Safe, OneLockFile, UpAlone, IsUp, Descriptors
  <2>7. UpAlone'
    BY <2>1, <1>3 DEF IInv, TypeOK, Safe, Descriptors, Locks, StartersHold, Sockets,
                      OneLockFile, UpAlone, IsUp
  <2> QED BY <2>2, <2>3, <2>4, <2>5, <2>6, <2>7 DEF Safe
<1> QED BY <1>1, <1>2, <1>3 DEF IInv

(* The server is up: whoever gets a lock from now on will find it.         *)
LEMMA UnlinkLockStep ==
  ASSUME IInv, NEW c \in Clients, server_unlink_lockfile(c)
  PROVE  IInv'
<1> USE DEF server_unlink_lockfile, Serves, Becomes, clientvars, lockvars, serversvars, Final, Before, Alive
<1>1. TypeOK' BY DEF IInv, TypeOK, OpenFiles
<1>2. OpenFiles' BY DEF IInv, TypeOK, OpenFiles
<1>3. ASSUME faults' = 0 PROVE Safe'
  <2>1. faults = 0 /\ Safe BY <1>3 DEF IInv, TypeOK
  <2>2. Descriptors'
    BY <2>1, <1>3 DEF IInv, TypeOK, OpenFiles, Safe, Descriptors, StartersHold
  <2>3. Locks' BY <2>1, <1>3 DEF IInv, TypeOK, OpenFiles, Safe, Descriptors, Locks
  <2>4. StartersHold'
    BY <2>1, <1>3 DEF IInv, TypeOK, OpenFiles, Safe, Descriptors, StartersHold
  <2>5. Sockets'
    BY <2>1, <1>3 DEF IInv, TypeOK, Safe, Descriptors, Locks, StartersHold, Sockets,
                      OneLockFile, UpAlone, IsUp
  <2>6. OneLockFile'
    BY <2>1, <1>3 DEF IInv, TypeOK, Safe, OneLockFile, UpAlone, IsUp, Descriptors
  <2>7. UpAlone'
    BY <2>1, <1>3 DEF IInv, TypeOK, Safe, Descriptors, Locks, StartersHold, Sockets,
                      OneLockFile, UpAlone, IsUp
  <2> QED BY <2>2, <2>3, <2>4, <2>5, <2>6, <2>7 DEF Safe
<1> QED BY <1>1, <1>2, <1>3 DEF IInv

(* The lock goes when the server is up.                                    *)
LEMMA CloseLockStep ==
  ASSUME IInv, NEW c \in Clients, server_close_lockfd(c)
  PROVE  IInv'
<1> USE DEF server_close_lockfd, Serves, Becomes, Closed, clientvars, lockvars, serversvars, Final, Before, Alive
<1>1. TypeOK' BY DEF IInv, TypeOK, OpenFiles
<1>2. OpenFiles' BY DEF IInv, TypeOK, OpenFiles
<1>3. ASSUME faults' = 0 PROVE Safe'
  <2>1. faults = 0 /\ Safe BY <1>3 DEF IInv, TypeOK
  <2>2. Descriptors'
    BY <2>1, <1>3 DEF IInv, TypeOK, OpenFiles, Safe, Descriptors, StartersHold
  <2>3. Locks' BY <2>1, <1>3 DEF IInv, TypeOK, OpenFiles, Safe, Descriptors, Locks
  <2>4. StartersHold'
    BY <2>1, <1>3 DEF IInv, TypeOK, OpenFiles, Safe, Descriptors, StartersHold
  <2>5. Sockets'
    BY <2>1, <1>3 DEF IInv, TypeOK, Safe, Descriptors, Locks, StartersHold, Sockets,
                      OneLockFile, UpAlone, IsUp
  <2>6. OneLockFile'
    BY <2>1, <1>3 DEF IInv, TypeOK, Safe, OneLockFile, UpAlone, IsUp, Descriptors
  <2>7. UpAlone'
    BY <2>1, <1>3 DEF IInv, TypeOK, Safe, Descriptors, Locks, StartersHold, Sockets,
                      OneLockFile, UpAlone, IsUp
  <2> QED BY <2>2, <2>3, <2>4, <2>5, <2>6, <2>7 DEF Safe
<1> QED BY <1>1, <1>2, <1>3 DEF IInv

(* SIGUSR1 counts as a fault.                                              *)
LEMMA SignalStep ==
  ASSUME IInv, NEW c \in Clients, server_signal(c)
  PROVE  IInv'
<1> USE DEF server_signal, Serves, Becomes, Fault, clientvars, lockvars, serversvars, Final, Before, Alive
<1>1. TypeOK' BY DEF IInv, TypeOK, OpenFiles
<1>2. OpenFiles' BY DEF IInv, TypeOK, OpenFiles
<1>3. ASSUME faults' = 0 PROVE Safe'
  <2>1. faults = 0 /\ Safe BY <1>3 DEF IInv, TypeOK
  <2>2. Descriptors'
    BY <2>1, <1>3 DEF IInv, TypeOK, OpenFiles, Safe, Descriptors, StartersHold
  <2>3. Locks' BY <2>1, <1>3 DEF IInv, TypeOK, OpenFiles, Safe, Descriptors, Locks
  <2>4. StartersHold'
    BY <2>1, <1>3 DEF IInv, TypeOK, OpenFiles, Safe, Descriptors, StartersHold
  <2>5. Sockets'
    BY <2>1, <1>3 DEF IInv, TypeOK, Safe, Descriptors, Locks, StartersHold, Sockets,
                      OneLockFile, UpAlone, IsUp
  <2>6. OneLockFile'
    BY <2>1, <1>3 DEF IInv, TypeOK, Safe, OneLockFile, UpAlone, IsUp, Descriptors
  <2>7. UpAlone'
    BY <2>1, <1>3 DEF IInv, TypeOK, Safe, Descriptors, Locks, StartersHold, Sockets,
                      OneLockFile, UpAlone, IsUp
  <2> QED BY <2>2, <2>3, <2>4, <2>5, <2>6, <2>7 DEF Safe
<1> QED BY <1>1, <1>2, <1>3 DEF IInv

(* The end of a server that is up does; one that was starting leaves its   *)
(* lock file.                                                              *)
LEMMA EndsStep ==
  ASSUME IInv, NEW c \in Clients, server_ends(c)
  PROVE  IInv'
<1> USE DEF server_ends, Serves, Becomes, Closed, Starting, Fault, clientvars, lockvars, serversvars, Final, Before, Alive
<1>1. TypeOK' BY DEF IInv, TypeOK, OpenFiles
<1>2. OpenFiles' BY DEF IInv, TypeOK, OpenFiles
<1>3. ASSUME faults' = 0 PROVE Safe'
  <2>1. faults = 0 /\ Safe BY <1>3 DEF IInv, TypeOK
  <2>2. Descriptors'
    BY <2>1, <1>3 DEF IInv, TypeOK, OpenFiles, Safe, Descriptors, StartersHold
  <2>3. Locks' BY <2>1, <1>3 DEF IInv, TypeOK, OpenFiles, Safe, Descriptors, Locks
  <2>4. StartersHold'
    BY <2>1, <1>3 DEF IInv, TypeOK, OpenFiles, Safe, Descriptors, StartersHold
  <2>5. Sockets'
    BY <2>1, <1>3 DEF IInv, TypeOK, Safe, Descriptors, Locks, StartersHold, Sockets,
                      OneLockFile, UpAlone, IsUp
  <2>6. OneLockFile'
    BY <2>1, <1>3 DEF IInv, TypeOK, Safe, OneLockFile, UpAlone, IsUp, Descriptors
  <2>7. UpAlone'
    BY <2>1, <1>3 DEF IInv, TypeOK, Safe, Descriptors, Locks, StartersHold, Sockets,
                      OneLockFile, UpAlone, IsUp
  <2> QED BY <2>2, <2>3, <2>4, <2>5, <2>6, <2>7 DEF Safe
<1> QED BY <1>1, <1>2, <1>3 DEF IInv

(* Every step keeps the invariant.                                         *)
LEMMA NextIInv == IInv /\ [Next]_vars => IInv'
<1> SUFFICES ASSUME IInv, [Next]_vars PROVE IInv' OBVIOUS
<1>1. CASE UNCHANGED vars
  BY <1>1 DEF vars, IInv, TypeOK, OpenFiles, Safe, Descriptors, Locks, StartersHold,
              Sockets, OneLockFile, UpAlone, IsUp, Alive
<1>2. ASSUME NEW c \in Clients, ClientStep(c) PROVE IInv'
  BY <1>2, ConnectStep, GetLockStep, FlockStep, BlockStep, RetryStep, UnlinkSocketStep,
     ServerStartStep, ReturnStep DEF ClientStep
<1>3. ASSUME NEW c \in Clients, ServerStep(c) PROVE IInv'
  BY <1>3, CreateUnlinkStep, CreateBindStep, CreateListenStep, UnlinkLockStep,
     CloseLockStep DEF ServerStep
<1>4. ASSUME NEW c \in Clients, ClientKilled(c) \/ server_signal(c) \/ server_ends(c)
      PROVE  IInv'
  BY <1>4, KilledStep, SignalStep, EndsStep
<1> QED BY <1>1, <1>2, <1>3, <1>4 DEF Next

(* The invariant of the start of the server, with all its parts.           *)
THEOREM ServerStartInvariant == Spec => []IInv
BY InitIInv, NextIInv, PTL DEF Spec

(* At most one server is there, however many clients found none and        *)
(* whoever of them died on the way.                                        *)
THEOREM OneServerTheorem == Spec => []OneServer
<1>1. IInv => OneServer
  <2> SUFFICES ASSUME IInv, faults = 0, NEW c \in Clients, NEW d \in Clients,
                      Alive(c), Alive(d)
               PROVE  c = d
    BY DEF OneServer
  <2>1. CASE \E s \in Clients : IsUp(s)
    BY <2>1 DEF IInv, Safe, UpAlone
  <2>2. CASE \A s \in Clients : ~IsUp(s)
    <3>1. c \in holds /\ d \in holds
      BY <2>2 DEF IInv, TypeOK, Safe, StartersHold, IsUp, Alive
    <3>2. inode[c] \in 1 .. 1 /\ inode[d] \in 1 .. 1
      BY <2>2, <3>1 DEF IInv, Safe, Locks, OneLockFile
    <3> QED BY <3>1, <3>2 DEF IInv, Safe, Locks
  <2> QED BY <2>1, <2>2
<1> QED BY <1>1, ServerStartInvariant, PTL

(* The server that has started is the one that the path leads to.          *)
THEOREM ServerReachableTheorem == Spec => []ServerReachable
<1>1. IInv => ServerReachable
  BY DEF IInv, Safe, Sockets, UpAlone, IsUp, ServerReachable
<1> QED BY <1>1, ServerStartInvariant, PTL
=============================================================================
