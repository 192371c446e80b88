------------------------------- MODULE FileIO -------------------------------
(***************************************************************************)
(* Files and standard streams of a client that is not attached: the server *)
(* asks the client process to open, read and write them (file.rs, with the *)
(* parts of client.rs, server_client.rs, proc.rs and window.rs that drive  *)
(* it), and the client stays until what it was given has been written.     *)
(*                                                                         *)
(* The two processes exchange messages over one socket, in order.  In the  *)
(* server a turn of the event loop handles the messages of the peer, then  *)
(* the callbacks deferred with event_once (due); after the turn            *)
(* server_loop runs commands (phase = "loop").                             *)
(***************************************************************************)
EXTENDS Naturals, Sequences, SequencesExt, FiniteSets

CONSTANTS Files,     \* stream numbers above 2, one per file operation
          MaxPrint,  \* bound on the chunks printed to standard output
          MaxReads   \* bound on the chunks read from files

STDOUT == 1
Streams == Files \cup {STDOUT}

ASSUME FilesAssumption == Files \subseteq Nat \ 0 .. 2
ASSUME BoundsNat == MaxPrint \in Nat /\ MaxReads \in Nat

VARIABLES
    files,     \* server: the client_file of each stream in c->files
    gone,      \* server: streams whose client_file has been freed
    due,       \* server: streams with a deferred file_fire_done_cb, in order
    phase,     \* server: "loop", "peer" (proc_event_cb) or "due"
    handled,   \* server: proc_event_cb has handled a message
    pollout,   \* server: the socket was polled for writing in this turn
    exit,      \* server: CLIENT_EXIT and CLIENT_EXITED, as "EXIT", "EXITED"
    dead,      \* server: CLIENT_DEAD
    cfiles,    \* client: the client_file of each stream in CLIENT_FILES
    client,    \* client: what became of the process
    exitflag,  \* client: CLIENT_EXITFLAG
    down,      \* messages to the client
    up,        \* messages to the server
    printed,   \* history: chunks printed to standard output
    written,   \* history: chunks the client wrote to standard output
    broken,    \* history: standard output could not be opened or written
    reads,     \* history: chunks read so far
    finished,  \* history: operations whose callback saw the end, and how
    reused     \* history: a deferred callback got a client_file already freed

servervars == <<files, gone, due, exit, dead>>
turnvars == <<phase, handled, pollout>>
clientvars == <<cfiles, client, exitflag>>
history == <<printed, written, broken, reads, finished, reused>>
filevars == <<files, gone, due, phase, handled, pollout, exit, dead, cfiles, client,
          exitflag, down, up, printed, written, broken, reads, finished, reused>>

FileInit ==
    /\ files = <<>> /\ gone = {} /\ due = <<>>
    /\ phase = "loop" /\ handled = FALSE /\ pollout = FALSE /\ exit = "no" /\ dead = FALSE
    /\ cfiles = <<>> /\ client = "running" /\ exitflag = FALSE
    /\ down = <<>> /\ up = <<>>
    /\ printed = 0 /\ written = 0 /\ broken = FALSE /\ reads = 0
    /\ finished = <<>> /\ reused = FALSE

Msg(type, s, error) == [type |-> type, stream |-> s, error |-> error]

With(table, s, value) ==
    [t \in DOMAIN table \cup {s} |-> IF t = s THEN value ELSE table[t]]
Without(table, s) == [t \in DOMAIN table \ {s} |-> table[t]]

-----------------------------------------------------------------------------
(* Server: commands, run by server_loop while the client lives.            *)

Commanding ==
    /\ phase = "loop" /\ ~dead /\ ~reused
    /\ UNCHANGED <<turnvars, dead, clientvars, up>>

NewFile(kind, chunks) ==
    [kind |-> kind, buffer |-> chunks, error |-> FALSE, closed |-> FALSE]

(* file_push: everything in the buffer goes to the client; a file is then  *)
(* closed and done.  The standard streams stay open.                       *)
Pushed(cf, s) ==
    [i \in 1 .. cf.buffer |-> Msg("WRITE", s, FALSE)]
        \o (IF s > 2 THEN <<Msg("WRITE_CLOSE", s, FALSE)>> ELSE <<>>)

(* file_print: the first print opens the stream and keeps the data until   *)
(* the client is ready; later ones push, ready or not.                     *)
file_print ==
    /\ Commanding
    /\ exit = "no"
    /\ printed < MaxPrint /\ printed' = printed + 1
    /\ \/ /\ STDOUT \notin DOMAIN files
          /\ files' = With(files, STDOUT, NewFile("write", 1))
          /\ down' = Append(down, Msg("WRITE_OPEN", STDOUT, FALSE))
       \/ /\ STDOUT \in DOMAIN files
          /\ LET cf == [files[STDOUT] EXCEPT !.buffer = @ + 1]
             IN down' = down \o Pushed(cf, STDOUT)
          /\ files' = [files EXCEPT ![STDOUT].buffer = 0]
    /\ UNCHANGED <<gone, due, exit, written, broken, reads, finished, reused>>

(* A new operation.  A command waits for its file, so the client's next    *)
(* one comes after the end of it; EXIT is set after the last one.          *)
Fresh(s) ==
    /\ s \in Files \ gone /\ DOMAIN files \cap Files = {}
    /\ exit = "no"

(* Mutant: the error is dropped on the way to file_fire_done.              *)
file_write_NoError(s, toolong) ==
    /\ Commanding
    /\ Fresh(s)
    /\ files' = With(files, s, NewFile("write", 1))
    /\ IF toolong THEN due' = Append(due, s) /\ UNCHANGED down
                  ELSE down' = Append(down, Msg("WRITE_OPEN", s, FALSE)) /\ UNCHANGED due
    /\ UNCHANGED <<gone, exit, history>>

(* save-buffer.  If the path does not fit in a message the file is done at *)
(* once.                                                                   *)
file_write(s, toolong) ==
    /\ Commanding
    /\ Fresh(s)
    /\ files' = With(files, s, [NewFile("write", 1) EXCEPT !.error = toolong])
    /\ IF toolong THEN due' = Append(due, s) /\ UNCHANGED down
                  ELSE down' = Append(down, Msg("WRITE_OPEN", s, FALSE)) /\ UNCHANGED due
    /\ UNCHANGED <<gone, exit, history>>

(* load-buffer, source-file ("read") and split-window -I ("input", whose   *)
(* path is always short).                                                  *)
file_read(s, kind, toolong) ==
    /\ Commanding
    /\ Fresh(s)
    /\ toolong => kind = "read"
    /\ files' = With(files, s, [NewFile(kind, 0) EXCEPT !.error = toolong])
    /\ IF toolong THEN due' = Append(due, s) /\ UNCHANGED down
                  ELSE down' = Append(down, Msg("READ_OPEN", s, FALSE)) /\ UNCHANGED due
    /\ UNCHANGED <<gone, exit, history>>

(* The client's last command has finished.                                 *)
server_client_command_done ==
    /\ Commanding
    /\ exit = "no" /\ DOMAIN files \cap Files = {}
    /\ exit' = "EXIT"
    /\ UNCHANGED <<files, gone, due, down, history>>

(* Mutant: the client is told to exit while a buffer still holds data.     *)
server_client_check_exit_Early ==
    /\ Commanding
    /\ exit = "EXIT"
    /\ exit' = "EXITED"
    /\ down' = Append(down, Msg("EXIT", 0, FALSE))
    /\ UNCHANGED <<files, gone, due, history>>

server_client_check_exit ==
    /\ Commanding
    /\ exit = "EXIT"
    /\ \A s \in DOMAIN files : files[s].buffer = 0
    /\ exit' = "EXITED"
    /\ down' = Append(down, Msg("EXIT", 0, FALSE))
    /\ UNCHANGED <<files, gone, due, history>>

-----------------------------------------------------------------------------
(* Server: a turn of the event loop.                                       *)

(* What was deferred since the last turn runs before anything else.        *)
StartTurn ==
    /\ phase = "loop" /\ ~reused
    /\ due # <<>> \/ (~dead /\ (up # <<>> \/ client # "running"))
    /\ phase' = IF due # <<>> THEN "due" ELSE "peer"
    /\ handled' = FALSE /\ pollout' = (down # <<>>)
    /\ UNCHANGED <<servervars, clientvars, down, up, history>>

Handling(type) ==
    /\ phase = "peer" /\ ~dead
    /\ up # <<>> /\ Head(up).type = type
    /\ up' = Tail(up) /\ handled' = TRUE
    /\ UNCHANGED <<phase, pollout, gone, dead, clientvars, printed, written, broken,
                   reads, finished, reused>>

(* A message for a stream the server no longer has is ignored.             *)
Ignored == UNCHANGED <<files, due, exit, down>>

(* Mutant: an error of the client is ignored.                              *)
file_write_ready_NoError ==
    LET m == Head(up)
    IN /\ Handling("WRITE_READY")
       /\ \/ (m.stream \notin DOMAIN files \/ m.error) /\ Ignored
          \/ /\ m.stream \in DOMAIN files /\ ~m.error
             /\ down' = down \o Pushed(files[m.stream], m.stream)
             /\ files' = [files EXCEPT ![m.stream].buffer = 0]
             /\ due' = IF m.stream > 2 THEN Append(due, m.stream) ELSE due
             /\ UNCHANGED exit

file_write_ready ==
    LET m == Head(up)
    IN /\ Handling("WRITE_READY")
       /\ \/ m.stream \notin DOMAIN files /\ Ignored
          \/ /\ m.stream \in DOMAIN files /\ m.error
             /\ files' = [files EXCEPT ![m.stream].error = TRUE]
             /\ due' = Append(due, m.stream)
             /\ UNCHANGED <<exit, down>>
          \/ /\ m.stream \in DOMAIN files /\ ~m.error
             /\ down' = down \o Pushed(files[m.stream], m.stream)
             /\ files' = [files EXCEPT ![m.stream].buffer = 0]
             /\ due' = IF m.stream > 2 THEN Append(due, m.stream) ELSE due
             /\ UNCHANGED exit

(* file_cancel, with the client told to exit because its pane has gone.    *)
Cancelled(s) ==
    /\ exit' = IF exit = "no" THEN "EXIT" ELSE exit
    /\ IF files[s].closed
       THEN UNCHANGED <<files, down>>
       ELSE /\ files' = [files EXCEPT ![s].closed = TRUE]
            /\ down' = Append(down, Msg("READ_CANCEL", s, FALSE))

(* The callback takes the data; window_pane_input_callback cancels the     *)
(* file when its pane has gone (nopane).                                   *)
file_read_data(nopane) ==
    LET s == Head(up).stream
    IN /\ Handling("READ")
       /\ UNCHANGED due
       /\ \/ /\ s \notin DOMAIN files
             /\ UNCHANGED <<files, exit, down>>
          \/ /\ s \in DOMAIN files
             /\ files[s].error \/ files[s].closed \/ ~nopane
             /\ UNCHANGED <<files, exit, down>>
          \/ /\ s \in DOMAIN files /\ files[s].kind = "input"
             /\ ~files[s].error /\ ~files[s].closed /\ nopane
             /\ Cancelled(s)

file_read_done ==
    LET m == Head(up)
    IN /\ Handling("READ_DONE")
       /\ \/ m.stream \notin DOMAIN files /\ Ignored
          \/ /\ m.stream \in DOMAIN files
             /\ files' = [files EXCEPT ![m.stream].error = m.error]
             /\ due' = Append(due, m.stream)
             /\ UNCHANGED <<exit, down>>

(* server_client_lost: the socket is at its end, or, after messages were   *)
(* read in the same callback, writing to it failed.  Every file is done,   *)
(* with EINTR.                                                             *)
server_client_lost ==
    /\ phase = "peer" /\ ~dead
    /\ client # "running" /\ up = <<>>
    /\ handled => pollout
    /\ dead' = TRUE
    /\ \E order \in [1 .. Cardinality(DOMAIN files) -> DOMAIN files] :
           /\ \A i, j \in DOMAIN order : i < j => order[i] < order[j]
           /\ due' = due \o order
    /\ files' = [s \in DOMAIN files |-> [files[s] EXCEPT !.error = TRUE]]
    /\ down' = <<>>
    /\ phase' = "due"
    /\ UNCHANGED <<gone, exit, clientvars, up, handled, pollout, history>>

EndPeer ==
    /\ phase = "peer" /\ ~dead
    /\ up = <<>> /\ handled
    /\ phase' = "due"
    /\ UNCHANGED <<servervars, clientvars, down, up, handled, pollout, history>>

(* file_fire_done_cb: the callback, unless the client is dead, and         *)
(* file_free.  A second callback for the same file finds freed memory.     *)
file_fire_done_cb(nopane) ==
    LET s == Head(due)
        cf == files[s]
    IN /\ phase = "due" /\ due # <<>> /\ ~reused
       /\ due' = Tail(due)
       /\ \/ /\ s \notin DOMAIN files
             /\ reused' = TRUE
             /\ UNCHANGED <<files, gone, exit, down, finished>>
          \/ /\ s \in DOMAIN files
             /\ files' = Without(files, s)
             /\ gone' = gone \cup (Files \cap {s})
             /\ finished' = IF s \in Files /\ (~dead \/ cf.closed)
                            THEN With(finished, s, cf) ELSE finished
             /\ IF cf.kind = "input" /\ nopane /\ ~dead
                THEN /\ exit' = IF exit = "no" THEN "EXIT" ELSE exit
                     /\ down' = IF cf.closed THEN down
                                ELSE Append(down, Msg("READ_CANCEL", s, FALSE))
                ELSE UNCHANGED <<exit, down>>
             /\ UNCHANGED reused
       /\ UNCHANGED <<turnvars, dead, clientvars, up, printed, written, broken,
                      reads>>

EndTurn ==
    /\ phase = "due" /\ due = <<>>
    /\ phase' = "loop"
    /\ UNCHANGED <<servervars, handled, pollout, clientvars, down, up, history>>

-----------------------------------------------------------------------------
(* Client.                                                                 *)

Receiving(type) ==
    /\ client = "running"
    /\ down # <<>> /\ Head(down).type = type
    /\ down' = Tail(down)
    /\ UNCHANGED <<servervars, turnvars, printed, reads, finished, reused>>

(* client_exit: only when nothing is left to write.                        *)
ExitIfWritten(table, flag) ==
    client' = IF flag /\ \A s \in DOMAIN table : table[s].output = 0
              THEN "exited" ELSE client

(* A client_file whose open failed stays in the tree without a             *)
(* bufferevent.                                                            *)
Opened(mode, opens) == [mode |-> mode, event |-> opens, output |-> 0]

file_write_open(opens) ==
    LET s == Head(down).stream
        ok == s \notin DOMAIN cfiles /\ opens
    IN /\ Receiving("WRITE_OPEN")
       /\ cfiles' = IF s \in DOMAIN cfiles THEN cfiles
                                           ELSE With(cfiles, s, Opened("write", opens))
       /\ up' = Append(up, Msg("WRITE_READY", s, ~ok))
       /\ broken' = (broken \/ (s = STDOUT /\ ~ok))
       /\ UNCHANGED <<client, exitflag, written>>

(* An unknown stream is fatal.                                             *)
file_write_data ==
    LET s == Head(down).stream
    IN /\ Receiving("WRITE")
       /\ \/ /\ s \notin DOMAIN cfiles
             /\ client' = "unknown write"
             /\ UNCHANGED cfiles
          \/ /\ s \in DOMAIN cfiles
             /\ cfiles' = IF cfiles[s].event
                          THEN [cfiles EXCEPT ![s].output = @ + 1] ELSE cfiles
             /\ UNCHANGED client
       /\ UNCHANGED <<exitflag, up, written, broken>>

(* A file with output left stays: nothing closes it before the client      *)
(* exits.                                                                  *)
file_write_close ==
    LET s == Head(down).stream
    IN /\ Receiving("WRITE_CLOSE")
       /\ \/ /\ s \notin DOMAIN cfiles
             /\ client' = "unknown write"
             /\ UNCHANGED cfiles
          \/ /\ s \in DOMAIN cfiles
             /\ cfiles' = IF cfiles[s].output = 0 THEN Without(cfiles, s) ELSE cfiles
             /\ UNCHANGED client
       /\ UNCHANGED <<exitflag, up, written, broken>>

file_read_open(opens) ==
    LET s == Head(down).stream
        known == s \in DOMAIN cfiles
    IN /\ Receiving("READ_OPEN")
       /\ cfiles' = IF known THEN cfiles ELSE With(cfiles, s, Opened("read", opens))
       /\ up' = IF known \/ ~opens THEN Append(up, Msg("READ_DONE", s, TRUE)) ELSE up
       /\ UNCHANGED <<client, exitflag, written, broken>>

(* file_read_cancel: an unknown stream is fatal, and so is one without a   *)
(* bufferevent to free; else the read ends.                                *)
file_read_cancel ==
    LET s == Head(down).stream
    IN /\ Receiving("READ_CANCEL")
       /\ \/ /\ ~(s \in DOMAIN cfiles /\ cfiles[s].event)
             /\ client' = "unknown cancel"
             /\ UNCHANGED <<cfiles, up>>
          \/ /\ s \in DOMAIN cfiles /\ cfiles[s].event
             /\ up' = Append(up, Msg("READ_DONE", s, FALSE))
             /\ cfiles' = Without(cfiles, s)
             /\ UNCHANGED client
       /\ UNCHANGED <<exitflag, written, broken>>

client_dispatch_exit ==
    /\ Receiving("EXIT")
    /\ exitflag' = TRUE
    /\ ExitIfWritten(cfiles, TRUE)
    /\ UNCHANGED <<cfiles, up, written, broken>>

Reading(s) == s \in DOMAIN cfiles /\ cfiles[s].event /\ cfiles[s].mode = "read"

(* file_read_callback: data.                                               *)
file_read_callback(s) ==
    /\ client = "running" /\ Reading(s)
    /\ reads < MaxReads /\ reads' = reads + 1
    /\ up' = Append(up, Msg("READ", s, FALSE))
    /\ UNCHANGED <<servervars, turnvars, clientvars, down, printed, written,
                   broken, finished, reused>>

(* file_read_error_callback: the end of the file, or an error.             *)
file_read_error_callback(s, error) ==
    /\ client = "running" /\ Reading(s)
    /\ up' = Append(up, Msg("READ_DONE", s, error))
    /\ cfiles' = Without(cfiles, s)
    /\ UNCHANGED <<servervars, turnvars, client, exitflag, down, history>>

Count(s, n) == IF s = STDOUT THEN written + n ELSE written

(* Mutant: client_file_check_cb is not called.                             *)
file_write_callback_NoCheck(s) ==
    /\ client = "running"
    /\ s \in DOMAIN cfiles /\ cfiles[s].event /\ cfiles[s].output > 0
    /\ cfiles' = [cfiles EXCEPT ![s].output = 0]
    /\ written' = Count(s, cfiles[s].output)
    /\ UNCHANGED <<servervars, turnvars, client, exitflag, down, up, printed,
                   broken, reads, finished, reused>>

(* file_write_callback: the output drained.                                *)
file_write_callback(s) ==
    /\ client = "running"
    /\ s \in DOMAIN cfiles /\ cfiles[s].event /\ cfiles[s].output > 0
    /\ cfiles' = [cfiles EXCEPT ![s].output = 0]
    /\ written' = Count(s, cfiles[s].output)
    /\ ExitIfWritten(cfiles', exitflag)
    /\ UNCHANGED <<servervars, turnvars, exitflag, down, up, printed, broken,
                   reads, finished, reused>>

(* file_write_error_callback: the bufferevent goes, with its output.       *)
file_write_error_callback(s) ==
    /\ client = "running"
    /\ s \in DOMAIN cfiles /\ cfiles[s].event /\ cfiles[s].output > 0
    /\ cfiles' = [cfiles EXCEPT ![s] = Opened("write", FALSE)]
    /\ broken' = (broken \/ s = STDOUT)
    /\ ExitIfWritten(cfiles', exitflag)
    /\ UNCHANGED <<servervars, turnvars, exitflag, down, up, printed, written,
                   reads, finished, reused>>

(* The client is killed.                                                   *)
Killed ==
    /\ client = "running"
    /\ client' = "killed"
    /\ UNCHANGED <<servervars, turnvars, cfiles, exitflag, down, up, history>>

-----------------------------------------------------------------------------
FileCommand ==
    \/ file_print
    \/ \E s \in Files, b \in BOOLEAN :
           \/ file_write(s, b)
           \/ \E kind \in {"read", "input"} : file_read(s, kind, b)
    \/ server_client_command_done

Server ==
    \/ server_client_check_exit
    \/ StartTurn \/ file_write_ready \/ file_read_done
    \/ \E b \in BOOLEAN : file_read_data(b) \/ file_fire_done_cb(b)
    \/ server_client_lost \/ EndPeer \/ EndTurn

Client ==
    \/ \E b \in BOOLEAN : file_write_open(b) \/ file_read_open(b)
    \/ file_write_data \/ file_write_close \/ file_read_cancel
    \/ client_dispatch_exit

(* Descriptors of the client: files and pipes are read and written to      *)
(* their end.                                                              *)
Descriptor(s) ==
    \/ \E b \in BOOLEAN : file_read_error_callback(s, b)
    \/ file_write_callback(s) \/ file_write_error_callback(s)

FileNext ==
    \/ FileCommand \/ Server \/ Client \/ Killed
    \/ \E s \in Streams : Descriptor(s) \/ file_read_callback(s)

FileSpec == FileInit /\ [][FileNext]_filevars

(* Both event loops run, and every descriptor comes to its end.            *)
FairFileSpec ==
    /\ FileSpec
    /\ WF_filevars(Server) /\ WF_filevars(Client)
    /\ \A s \in Streams : WF_filevars(Descriptor(s))

-----------------------------------------------------------------------------
FileTypeOK ==
    /\ DOMAIN files \subseteq Streams
    /\ \A s \in DOMAIN files :
           files[s] \in [kind : {"write", "read", "input"}, buffer : Nat,
                         error : BOOLEAN, closed : BOOLEAN]
    /\ gone \subseteq Files /\ due \in Seq(Streams)
    /\ phase \in {"loop", "peer", "due"} /\ handled \in BOOLEAN /\ pollout \in BOOLEAN
    /\ exit \in {"no", "EXIT", "EXITED"} /\ dead \in BOOLEAN
    /\ DOMAIN cfiles \subseteq Streams
    /\ \A s \in DOMAIN cfiles : 
           cfiles[s] \in [mode : {"read", "write"}, event : BOOLEAN, output : Nat]
    /\ client \in {"running", "exited", "killed", "unknown write", "unknown cancel"}
    /\ exitflag \in BOOLEAN /\ broken \in BOOLEAN /\ reused \in BOOLEAN
    /\ printed \in 0 .. MaxPrint /\ written \in 0 .. printed /\ reads \in 0 .. MaxReads
    /\ DOMAIN finished \subseteq gone

(* A client that was told to exit leaves only when everything printed to   *)
(* its standard output before has been written, unless that is broken; and *)
(* it never dies of a write to or close of a stream it does not know,      *)
(* whatever failed to open before and however opens, data and closes of    *)
(* several streams interleave.                                             *)
OutputComplete ==
    /\ client # "unknown write"
    /\ client = "exited" => written = printed \/ broken

(* save-buffer reports success only when all its data was handed to a      *)
(* client that had opened the file.                                        *)
SuccessMeansSent ==
    \A s \in DOMAIN finished :
        finished[s].kind = "write" /\ ~finished[s].error => finished[s].buffer = 0

(* A file operation comes to its end: the callback runs, or the client is  *)
(* lost.                                                                   *)
OperationsEnd == \A s \in Files : (s \in DOMAIN files) ~> (s \notin DOMAIN files \/ reused)

(* A client that is told to exit does exit.                                *)
ClientsExit == (exit = "EXITED") ~> (client # "running" \/ reused)

(* The client never meets fatalx("unknown stream number"), the assertion   *)
(* of file_read_cancel.                                                    *)
CancelsKnown == client # "unknown cancel"

(* "arg must stay valid until the callback runs" (base.rs, on event_once): *)
(* file_fire_done_cb is never called with a client_file that was freed.    *)
DoneArgValid == ~reused
=============================================================================
