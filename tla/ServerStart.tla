---------------------------- MODULE ServerStart ----------------------------
(***************************************************************************)
(* Who starts the server: client_connect and client_get_lock (client.rs),  *)
(* server_start, server_create_socket and SIGUSR1 (server.rs).             *)
(*                                                                         *)
(* Clients that find no server on the socket race to start one.  The lock  *)
(* is a flock on the file next to the socket; the server that is started   *)
(* inherits it, and removes the file when it listens.  A client that had   *)
(* the file open by then holds, or waits for, a lock on a file that has no *)
(* name any more, while others create it anew.  A step is one system call. *)
(***************************************************************************)
EXTENDS Naturals, FiniteSets

CONSTANTS Clients,   \* the client processes, each with the server it may start
          Starters,  \* those of them with CLIENT_STARTSERVER
          None,      \* no socket file
          MaxFaults  \* how many of the faults below are followed

ASSUME StartersAssumption == Starters \subseteq Clients /\ None \notin Clients
ASSUME MaxFaultsNat == MaxFaults \in Nat \ {0}

VARIABLES
    pc,       \* where each client stands in client_connect
    locked,   \* the local variable locked of client_connect
    inode,    \* the file behind lockfd; 0 when lockfd < 0
    open,     \* which of the two processes have lockfd open
    holds,    \* the clients whose lockfd has the flock
    lockfile, \* the file the lock file's name refers to, or 0
    files,    \* how many lock files were created so far
    server,   \* where the server started by each client stands
    socket,   \* whose socket the path names, or None
    answers,  \* somebody listens on that socket
    faults    \* history: how often a client went on without the lock, or a
              \* server did not get its socket, created it again, or ended

clientvars == <<pc, locked, inode>>
lockvars == <<open, holds, lockfile, files>>
serversvars == <<server, socket, answers>>
vars == <<pc, locked, inode, open, holds, lockfile, files, server, socket,
          answers, faults>>

Init ==
    /\ pc = [c \in Clients |-> "connect"]
    /\ locked = [c \in Clients |-> FALSE]
    /\ inode = [c \in Clients |-> 0]
    /\ open = [c \in Clients |-> {}]
    /\ holds = {} /\ lockfile = 0 /\ files = 0
    /\ server = [c \in Clients |-> "none"]
    /\ socket = None /\ answers = FALSE
    /\ faults = 0

-----------------------------------------------------------------------------
(* Clients.                                                                *)

(* What OneServer and ServerReachable except.                              *)
Fault == faults' = faults + 1

At(c, label) == pc[c] = label
Goto(c, label) == pc' = [pc EXCEPT ![c] = label]

(* One of the processes of c closes lockfd; the lock goes with the last.   *)
Closed(c, who) ==
    /\ open' = [open EXCEPT ![c] = @ \ {who}]
    /\ holds' = IF open[c] \subseteq {who} THEN holds \ {c} ELSE holds
    /\ UNCHANGED <<lockfile, files>>

(* Mutant: the client that got the lock does not try to connect again.     *)
client_connect_Once(c) ==
    /\ At(c, "connect")
    /\ \/ /\ answers /\ ~locked[c]
          /\ Goto(c, "close")
       \/ /\ ~answers /\ c \in Starters /\ ~locked[c]
          /\ Goto(c, "open")
       \/ /\ locked[c]
          /\ Goto(c, "unlink")
    /\ UNCHANGED <<locked, inode, lockvars, serversvars, faults>>

(* connect(2) on the path: success, or no server, or another error (which  *)
(* is also what no server is to a client that may not start one).          *)
client_connect(c) ==
    /\ At(c, "connect")
    /\ \/ /\ answers
          /\ Goto(c, "close")
       \/ /\ ~answers /\ c \in Starters
          /\ Goto(c, IF locked[c] THEN "unlink" ELSE "open")
       \/ Goto(c, "fail")
    /\ UNCHANGED <<locked, inode, lockvars, serversvars, faults>>

(* client_get_lock: open with O_CREAT.  Without a lock file the client     *)
(* goes on as if it had the lock.                                          *)
client_get_lock(c, opens) ==
    /\ At(c, "open")
    /\ \/ /\ opens
          /\ files' = IF lockfile = 0 THEN files + 1 ELSE files
          /\ lockfile' = IF lockfile = 0 THEN files + 1 ELSE lockfile
          /\ inode' = [inode EXCEPT ![c] = lockfile']
          /\ open' = [open EXCEPT ![c] = {"client"}]
          /\ Goto(c, "flock")
          /\ UNCHANGED <<locked, faults>>
       \/ /\ ~opens
          /\ locked' = [locked EXCEPT ![c] = TRUE]
          /\ Fault
          /\ Goto(c, "connect")
          /\ UNCHANGED <<inode, open, lockfile, files>>
    /\ UNCHANGED <<holds, serversvars>>

IsHeld(i) == \E d \in holds : inode[d] = i

(* flock with LOCK_NB; an error other than EAGAIN counts as success.       *)
flock_NB(c, works) ==
    /\ At(c, "flock")
    /\ \/ /\ works /\ IsHeld(inode[c])
          /\ Goto(c, "blocked")
          /\ UNCHANGED <<holds, locked, faults>>
       \/ /\ works /\ ~IsHeld(inode[c])
          /\ holds' = holds \cup {c}
          /\ locked' = [locked EXCEPT ![c] = TRUE]
          /\ Goto(c, "connect")
          /\ UNCHANGED faults
       \/ /\ ~works
          /\ locked' = [locked EXCEPT ![c] = TRUE]
          /\ Fault
          /\ Goto(c, "connect")
          /\ UNCHANGED holds
    /\ UNCHANGED <<inode, open, lockfile, files, serversvars>>

(* Somebody else is starting the server: wait for the lock, ...            *)
flock_EX(c) ==
    /\ At(c, "blocked") /\ ~IsHeld(inode[c])
    /\ holds' = holds \cup {c}
    /\ Goto(c, "retry")
    /\ UNCHANGED <<locked, inode, open, lockfile, files, serversvars, faults>>

(* ... give it back, and start again.                                      *)
close_and_retry(c) ==
    /\ At(c, "retry")
    /\ Closed(c, "client")
    /\ inode' = [inode EXCEPT ![c] = 0]
    /\ Goto(c, "connect")
    /\ UNCHANGED <<locked, serversvars, faults>>

(* The socket of a server that is gone is removed before a new one starts. *)
unlink_socket(c, works) ==
    /\ At(c, "unlink")
    /\ \/ /\ works /\ inode[c] # 0
          /\ socket' = None /\ answers' = FALSE
          /\ Goto(c, "start")
       \/ /\ works /\ inode[c] = 0
          /\ Goto(c, "start")
          /\ UNCHANGED <<socket, answers>>
       \/ /\ ~works /\ inode[c] # 0
          /\ Goto(c, "fail")
          /\ UNCHANGED <<socket, answers>>
    /\ UNCHANGED <<locked, inode, lockvars, server, faults>>

(* server_start: fork, with lockfd open in both processes, or, with -D     *)
(* (CLIENT_NOFORK), the client becomes the server.                         *)
server_start(c, fork) ==
    /\ At(c, "start")
    /\ server' = [server EXCEPT ![c] = "unlink"]
    /\ open' = [open EXCEPT ![c] =
                    IF inode[c] = 0 THEN {}
                    ELSE IF fork THEN {"client", "server"} ELSE {"server"}]
    /\ Goto(c, IF fork THEN "close" ELSE "server")
    /\ UNCHANGED <<locked, inode, holds, lockfile, files, socket, answers,
                   faults>>

(* The end of client_connect, with and without a descriptor to return.     *)
client_connect_returns(c) ==
    /\ pc[c] \in {"close", "fail"}
    /\ Closed(c, "client")
    /\ Goto(c, IF At(c, "fail") THEN "failed" ELSE "done")
    /\ UNCHANGED <<locked, inode, serversvars, faults>>

Final == {"done", "failed", "server"}

(* A client is killed on the way.                                          *)
ClientKilled(c) ==
    /\ pc[c] \notin Final
    /\ Closed(c, "client")
    /\ Goto(c, "failed")
    /\ UNCHANGED <<locked, inode, serversvars, faults>>

-----------------------------------------------------------------------------
(* Servers.  server_create_socket is the steps "unlink", "bind", "listen". *)

Serves(c, label) == server[c] = label
Becomes(c, label) == server' = [server EXCEPT ![c] = label]

(* After server_create_socket: only server_start has a lock to give back.  *)
Created(c) == Becomes(c, IF "server" \in open[c] THEN "unlock" ELSE "running")

(* Mutant: the lock file goes before there is a socket to connect to.      *)
server_create_socket_unlink_Early(c) ==
    /\ Serves(c, "unlink")
    /\ socket' = None /\ answers' = FALSE
    /\ Becomes(c, "bind")
    /\ lockfile' = IF inode[c] = 0 THEN lockfile ELSE 0
    /\ UNCHANGED <<clientvars, open, holds, files, faults>>

server_create_socket_unlink(c) ==
    /\ Serves(c, "unlink")
    /\ socket' = None /\ answers' = FALSE
    /\ Becomes(c, "bind")
    /\ UNCHANGED <<clientvars, lockvars, faults>>

server_create_socket_bind(c, works) ==
    /\ Serves(c, "bind")
    /\ \/ /\ works /\ socket = None
          /\ socket' = c
          /\ Becomes(c, "listen")
          /\ UNCHANGED faults
       \/ /\ socket # None \/ ~works
          /\ Fault
          /\ Created(c)
          /\ UNCHANGED socket
    /\ UNCHANGED <<clientvars, lockvars, answers>>

server_create_socket_listen(c, works) ==
    /\ Serves(c, "listen")
    /\ \/ works /\ answers' = (answers \/ socket = c) /\ UNCHANGED faults
       \/ ~works /\ Fault /\ UNCHANGED answers
    /\ Created(c)
    /\ UNCHANGED <<clientvars, lockvars, socket>>

server_unlink_lockfile(c) ==
    /\ Serves(c, "unlock")
    /\ lockfile' = 0
    /\ Becomes(c, "close")
    /\ UNCHANGED <<clientvars, open, holds, files, socket, answers, faults>>

(* Mutant: the server never closes lockfd.                                 *)
server_close_lockfd_Never(c) ==
    /\ Serves(c, "close")
    /\ Becomes(c, "running")
    /\ UNCHANGED <<clientvars, lockvars, socket, answers, faults>>

server_close_lockfd(c) ==
    /\ Serves(c, "close")
    /\ Closed(c, "server")
    /\ Becomes(c, "running")
    /\ UNCHANGED <<clientvars, socket, answers, faults>>

(* SIGUSR1: the socket is created again.                                   *)
server_signal(c) ==
    /\ Serves(c, "running")
    /\ Becomes(c, "unlink")
    /\ Fault
    /\ UNCHANGED <<clientvars, lockvars, socket, answers>>

Alive(c) == server[c] \notin {"none", "gone"}

(* The server has yet to remove the lock file it was started with.         *)
Starting(c) == Alive(c) /\ "server" \in open[c] /\ ~Serves(c, "close")

(* The server exits (server_loop has nobody left) or dies.                 *)
server_ends(c) ==
    /\ Alive(c)
    /\ Closed(c, "server")
    /\ answers' = (answers /\ socket # c)
    /\ \/ Starting(c) /\ UNCHANGED faults
       \/ ~Starting(c) /\ Fault
    /\ Becomes(c, "gone")
    /\ UNCHANGED <<clientvars, socket>>

-----------------------------------------------------------------------------
ClientStep(c) ==
    \/ client_connect(c)
    \/ \E b \in BOOLEAN : \/ client_get_lock(c, b) \/ flock_NB(c, b)
                          \/ unlink_socket(c, b) \/ server_start(c, b)
    \/ flock_EX(c) \/ close_and_retry(c) \/ client_connect_returns(c)

ServerStep(c) ==
    \/ server_create_socket_unlink(c)
    \/ \E b \in BOOLEAN : \/ server_create_socket_bind(c, b)
                          \/ server_create_socket_listen(c, b)
    \/ server_unlink_lockfile(c) \/ server_close_lockfd(c)

(* The model stops after MaxFaults faults.                                 *)
InBounds == faults < MaxFaults

Next ==
    /\ InBounds
    /\ \E c \in Clients :
          \/ ClientStep(c) \/ ServerStep(c)
          \/ ClientKilled(c) \/ server_signal(c) \/ server_ends(c)

Spec == Init /\ [][Next]_vars

(* Every process runs; flock gives a free lock to a process that waits.    *)
FairSpec ==
    Spec /\ \A c \in Clients : /\ WF_vars(InBounds /\ ClientStep(c))
                               /\ WF_vars(InBounds /\ ServerStep(c))

-----------------------------------------------------------------------------
TypeOK ==
    /\ pc \in [Clients -> {"connect", "open", "flock", "blocked", "retry", "unlink",
                           "start", "close", "fail"} \cup Final]
    /\ locked \in [Clients -> BOOLEAN]
    /\ inode \in [Clients -> Nat]
    /\ open \in [Clients -> SUBSET {"client", "server"}]
    /\ holds \subseteq {c \in Clients : open[c] # {}}
    /\ files \in Nat /\ lockfile \in {0, files}
    /\ server \in [Clients -> {"none", "unlink", "bind", "listen", "unlock", "close",
                               "running", "gone"}]
    /\ socket \in Clients \cup {None} /\ answers \in BOOLEAN
    /\ faults \in Nat

(* However many clients find no server at once, and whoever of them dies   *)
(* on the way, at most one server is there: a second one is started only   *)
(* after the first ended or lost its socket, or by a client without the    *)
(* lock.                                                                   *)
OneServer ==
    faults = 0 => \A c, d \in Clients : Alive(c) /\ Alive(d) => c = d

(* A server that has started can be connected to: nobody removes its       *)
(* socket, neither a client that found an earlier one dead nor another     *)
(* server.                                                                 *)
ServerReachable ==
    faults = 0 => \A c \in Clients :
        server[c] \in {"unlock", "close", "running"} => socket = c /\ answers

(* Whoever had the lock to start a server did not live to do it.           *)
Interrupted == \E c \in Clients : pc[c] = "failed" \/ server[c] = "gone"

(* client_connect comes to its end: no client is left waiting for a lock   *)
(* that nobody gives back, or for ever trying.                             *)
ConnectReturns ==
    \A c \in Clients :
        (pc[c] = "connect") ~> (pc[c] \in Final \/ Interrupted \/ faults > 0)

(* "If already held then server start is happening in another client"      *)
(* (vendor/tmux/client.c, on client_get_lock): a client that waits for the *)
(* lock waits for a process that is on its way to start a server, or did.  *)
HeldMeansStarting ==
    \A c \in Clients : pc[c] = "blocked" /\ IsHeld(inode[c]) =>
        \E d \in Clients : (locked[d] /\ pc[d] \notin Final) \/ Alive(d)
=============================================================================
