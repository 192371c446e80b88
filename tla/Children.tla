------------------------------ MODULE Children ------------------------------
(***************************************************************************)
(* The processes the server starts: those of panes (spawn.rs, the death of *)
(* panes in server_fn.rs and window.rs, pipe-pane) and jobs (job.rs), and  *)
(* SIGCHLD (server.rs).                                                    *)
(*                                                                         *)
(* A process is known to the server by its pid and by the terminal or      *)
(* socket it writes to.  That it has exited and that its output has ended  *)
(* are two events, which come in either order, or the second without the   *)
(* first.  Only whether there is output to read or to pass on matters, not *)
(* how much.  Reading that a control client holds back is in ControlMode;  *)
(* stopped processes, which are only told to go on, and panes without a    *)
(* process (PANE_EMPTY) are left out.                                      *)
(***************************************************************************)
EXTENDS Integers, FiniteSets

CONSTANTS Panes,    \* slots for panes, numbered in the order of the window's list
          Jobs,     \* slots for jobs
          Pids,     \* the process numbers there are
          Remains,  \* values of remain-on-exit: 0 off, 1 on, 2 failed, 3 key
          Pipes,    \* the pipes considered: "out", "in" and "both"
          Beyond    \* the faults after which the model goes on

NoPid == -1
Nobody == 0
ASSUME ChildrenAssumption ==
    /\ Panes \cup Jobs \subseteq Nat \ {Nobody} /\ Panes \cap Jobs = {} /\ NoPid \notin Pids
    /\ Remains \subseteq 0 .. 3 /\ Pipes \subseteq {"out", "in", "both"}

VARIABLES
    pane,    \* per pane: exists, fd (open), event, pid, flags, status, remain, pipe
             \* and out (its pipe has output to write)
    job,     \* per job: state, pid and status
    output,  \* per pane or job: open (somebody may still write) and unread
    proc,    \* per pid: state, exit status and whose process it is
    ended,   \* history: how the process of a pane or job ended
    faults   \* history: what the properties except, see where it is added
vars == <<pane, job, output, proc, ended, faults>>

NoPane == [exists |-> FALSE, fd |-> FALSE, event |-> "none", pid |-> NoPid, flags |-> {},
           status |-> "none", remain |-> 0, pipe |-> "none", out |-> FALSE]
NoJob == [state |-> "none", pid |-> NoPid, status |-> "none"]
Closed == [open |-> FALSE, unread |-> FALSE]
NoProc == [state |-> "none", status |-> "none", owner |-> Nobody]
Started(x) == [state |-> "running", status |-> "none", owner |-> x]
Fault(yes, f) == IF yes THEN {f} ELSE {}
Usable == faults \subseteq Beyond

\* The process of x is now that of y.
GivenTo(x, y) == [i \in Pids |-> IF proc[i].owner = x THEN [proc[i] EXCEPT !.owner = y] ELSE proc[i]]

\* What is known of the process of x is forgotten if x is gone.
Forget(x, gone) ==
    /\ proc' = IF gone THEN GivenTo(x, Nobody) ELSE proc
    /\ output' = IF gone THEN [output EXCEPT ![x] = Closed] ELSE output
    /\ ended' = IF gone THEN [ended EXCEPT ![x] = "none"] ELSE ended

-----------------------------------------------------------------------------
(* The death of a pane. *)

\* With a pipe, only when all output has been read and passed on.
window_pane_destroy_ready(wp, unread) ==
    /\ wp.pipe # "none" => ~wp.out /\ ~(wp.fd /\ unread)
    /\ "EXITED" \in wp.flags

\* Kept as a dead pane or removed.  With remain-on-exit a pane whose terminal
\* was closed first waits for its status.
server_destroy_pane(wp) ==
    LET a == IF wp.fd THEN [wp EXCEPT !.fd = FALSE, !.event = "none"] ELSE wp
        keep == a.remain # 0 /\ ~(a.remain = 2 /\ a.status = "ok")
    IN CASE a.remain # 0 /\ "STATUSREADY" \notin a.flags -> a
         [] "STATUSREADY" \in a.flags /\ keep -> [a EXCEPT !.flags = @ \cup {"STATUSDRAWN"}]
         [] OTHER -> NoPane

DestroyIfReady(wp, unread) ==
    IF window_pane_destroy_ready(wp, unread) THEN server_destroy_pane(wp) ELSE wp

\* The pane p becomes wp.
Becomes(p, wp) ==
    /\ pane' = [pane EXCEPT ![p] = wp]
    /\ Forget(p, ~wp.exists)

window_pane_read_callback(p) ==
    /\ Usable /\ pane[p].fd /\ output[p].unread
    /\ output' = [output EXCEPT ![p].unread = FALSE]
    /\ pane' = [pane EXCEPT ![p].out = @ \/ pane[p].pipe # "none"]
    /\ UNCHANGED <<job, proc, ended, faults>>

\* The end of the output, or a failed write to the terminal before all of it
\* has been read.
window_pane_error_callback(p, write) ==
    /\ Usable /\ pane[p].fd /\ ~output[p].open /\ (write \/ ~output[p].unread)
    /\ Becomes(p, DestroyIfReady([pane[p] EXCEPT !.flags = @ \cup {"EXITED"}], output[p].unread))
    /\ UNCHANGED <<job, faults>>

server_kill_pane(p) ==
    /\ Usable /\ pane[p].exists
    /\ Becomes(p, NoPane)
    /\ UNCHANGED <<job, faults>>

\* A key dismisses a dead pane kept with remain-on-exit key.
server_client_handle_key(p) ==
    /\ Usable /\ "EXITED" \in pane[p].flags /\ pane[p].remain = 3
    /\ Becomes(p, server_destroy_pane([pane[p] EXCEPT !.remain = 0]))
    /\ UNCHANGED <<job, faults>>

SetRemain(p, r) ==
    /\ Usable /\ pane[p].exists /\ r # pane[p].remain
    /\ pane' = [pane EXCEPT ![p].remain = r]
    /\ UNCHANGED <<job, output, proc, ended, faults>>

-----------------------------------------------------------------------------
(* Starting processes. *)

\* A number that is free; those that a pane still has and those that none has
\* are each taken in order, since nothing depends on which it is.
Kept(pid) == \E p \in Panes : pane[p].pid = pid
Free(pid) ==
    /\ Usable /\ proc[pid].state = "none"
    /\ \A i \in Pids : proc[i].state = "none" /\ Kept(i) = Kept(pid) => pid <= i
NewOutput == [open |-> TRUE, unread |-> FALSE]

\* A new pane; if fork fails it is removed again at once.
spawn_pane(p, pid, r) ==
    /\ Free(pid) /\ ~pane[p].exists
    /\ pane' = [pane EXCEPT ![p] = [NoPane EXCEPT !.exists = TRUE, !.fd = TRUE, !.event = "live",
                                                  !.pid = pid, !.remain = r]]
    /\ proc' = [proc EXCEPT ![pid] = Started(p)]
    /\ output' = [output EXCEPT ![p] = NewOutput]
    /\ UNCHANGED <<job, ended, faults>>

Respawning(p, kill) == Usable /\ pane[p].exists /\ (kill \/ ~pane[p].fd)

\* Mutant: what was known of the old process stays.
cmd_respawn_pane_KeepsStatus(p, kill, pid) ==
    /\ Respawning(p, kill) /\ Free(pid)
    /\ pane' = [pane EXCEPT ![p].fd = TRUE, ![p].event = "live", ![p].pid = pid,
                            ![p].flags = @ \ {"EXITED"}]
    /\ proc' = [GivenTo(p, Nobody) EXCEPT ![pid] = Started(p)]
    /\ output' = [output EXCEPT ![p] = NewOutput]
    /\ ended' = [ended EXCEPT ![p] = "none"]
    /\ UNCHANGED <<job, faults>>

cmd_respawn_pane(p, kill, pid) ==
    /\ Respawning(p, kill) /\ Free(pid)
    /\ pane' = [pane EXCEPT ![p].fd = TRUE, ![p].event = "live", ![p].pid = pid, ![p].flags = {}]
    /\ proc' = [GivenTo(p, Nobody) EXCEPT ![pid] = Started(p)]
    /\ output' = [output EXCEPT ![p] = NewOutput]
    /\ ended' = [ended EXCEPT ![p] = "none"]
    /\ UNCHANGED <<job, faults>>

\* fork fails when the old process has been given up: the pane stays as it is,
\* with an event that has been freed.
cmd_respawn_pane_fails(p, kill) ==
    /\ Respawning(p, kill)
    /\ pane' = [pane EXCEPT ![p].fd = FALSE, ![p].pid = NoPid,
                            ![p].event = IF pane[p].fd THEN "freed" ELSE @,
                            ![p].flags = @ \ {"STATUSREADY", "STATUSDRAWN"}]
    /\ Forget(p, TRUE)
    /\ UNCHANGED <<job, faults>>

-----------------------------------------------------------------------------
(* pipe-pane. *)

\* The old pipe is closed; a new one of the given kind may be opened.
cmd_pipe_pane(p, kind) ==
    /\ Usable /\ pane[p].fd /\ "EXITED" \notin pane[p].flags /\ kind # pane[p].pipe
    /\ pane' = [pane EXCEPT ![p].pipe = kind, ![p].out = FALSE]
    /\ UNCHANGED <<job, output, proc, ended, faults>>

\* The pipe takes all that waits for it.  fault: write_ready goes on with the
\* bufferevent that its callback has freed with the pane.
cmd_pipe_pane_write_callback(p) ==
    LET wp == DestroyIfReady([pane[p] EXCEPT !.out = FALSE], output[p].unread)
    IN /\ Usable /\ pane[p].pipe \in {"out", "both"} /\ pane[p].out
       /\ Becomes(p, wp)
       /\ faults' = faults \cup Fault(~wp.exists, "used again")
       /\ UNCHANGED job

\* What the command writes goes to the pane.  fault: its event is not there.
cmd_pipe_pane_read_callback(p) ==
    /\ Usable /\ pane[p].pipe \in {"in", "both"}
    /\ Becomes(p, DestroyIfReady(pane[p], output[p].unread))
    /\ faults' = faults \cup Fault(pane[p].event # "live", "no event")
    /\ UNCHANGED job

\* The command is gone: seen at its end of file, or when there is output for it.
cmd_pipe_pane_error_callback(p) ==
    /\ Usable /\ (pane[p].pipe \in {"in", "both"} \/ pane[p].out)
    /\ Becomes(p, DestroyIfReady([pane[p] EXCEPT !.pipe = "none", !.out = FALSE], output[p].unread))
    /\ UNCHANGED <<job, faults>>

-----------------------------------------------------------------------------
(* Jobs. *)

job_run(j, pid) ==
    /\ Free(pid) /\ job[j].state = "none"
    /\ job' = [job EXCEPT ![j] = [NoJob EXCEPT !.state = "RUNNING", !.pid = pid]]
    /\ proc' = [proc EXCEPT ![pid] = Started(j)]
    /\ output' = [output EXCEPT ![j] = NewOutput]
    /\ ended' = [ended EXCEPT ![j] = "none"]
    /\ UNCHANGED <<pane, faults>>

\* completecb, and the job is freed.  fault: what the callback is given is not
\* how the process ended, or its output has not ended.
Completed(j, status) ==
    Fault(status # ended[j] \/ output[j].open, "incomplete")

\* Mutants: the end of the output completes the job; only a running job can be
\* closed.
job_error_callback_AtOnce(j) ==
    /\ Usable /\ job[j].state \in {"RUNNING", "DEAD"} /\ ~output[j].open
    /\ job' = [job EXCEPT ![j] = NoJob]
    /\ Forget(j, TRUE)
    /\ faults' = faults \cup Completed(j, job[j].status)
    /\ UNCHANGED pane
job_error_callback_Running(j) ==
    /\ Usable /\ job[j].state = "RUNNING" /\ ~output[j].open
    /\ job' = [job EXCEPT ![j].state = "CLOSED"]
    /\ UNCHANGED <<pane, output, proc, ended, faults>>

\* The output of the job has ended: complete if its process is dead.
job_error_callback(j) ==
    /\ Usable /\ job[j].state \in {"RUNNING", "DEAD"} /\ ~output[j].open
    /\ job' = [job EXCEPT ![j] = IF job[j].state = "DEAD" THEN NoJob ELSE [@ EXCEPT !.state = "CLOSED"]]
    /\ Forget(j, job[j].state = "DEAD")
    /\ faults' = faults \cup (IF job[j].state = "DEAD" THEN Completed(j, job[j].status) ELSE {})
    /\ UNCHANGED pane

\* Whoever started the job gives it up (a popup is closed, a format is freed).
job_free(j) ==
    /\ Usable /\ job[j].state # "none"
    /\ job' = [job EXCEPT ![j] = NoJob]
    /\ Forget(j, TRUE)
    /\ UNCHANGED <<pane, faults>>

\* A popup is made a pane, which gets the process and the terminal of its job.
\* fault: the process is dead, so the pane will not hear of it.
popup_make_pane(j, p, r) ==
    /\ Usable /\ job[j].state # "none" /\ ~pane[p].exists
    /\ pane' = [pane EXCEPT ![p] = [NoPane EXCEPT !.exists = TRUE, !.fd = TRUE, !.event = "live",
                                                  !.pid = job[j].pid, !.remain = r]]
    /\ proc' = GivenTo(j, p)
    /\ output' = [output EXCEPT ![p] = output[j], ![j] = Closed]
    /\ ended' = [ended EXCEPT ![p] = ended[j], ![j] = "none"]
    /\ job' = [job EXCEPT ![j] = NoJob]
    /\ faults' = faults \cup Fault(job[j].pid = NoPid, "dead job")

-----------------------------------------------------------------------------
(* The processes, and SIGCHLD. *)

ProcessWrites(p) ==
    /\ Usable /\ pane[p].fd /\ output[p].open /\ ~output[p].unread
    /\ output' = [output EXCEPT ![p].unread = TRUE]
    /\ UNCHANGED <<pane, job, proc, ended, faults>>

\* Nobody has the output open any more; its process may go on.
OutputCloses(x) ==
    /\ Usable /\ output[x].open
    /\ output' = [output EXCEPT ![x].open = FALSE]
    /\ UNCHANGED <<pane, job, proc, ended, faults>>

ProcessExits(pid, status) ==
    /\ Usable /\ proc[pid].state = "running" /\ (proc[pid].owner = Nobody => status = "ok")
    /\ proc' = [proc EXCEPT ![pid].state = "zombie", ![pid].status = status]
    /\ ended' = IF proc[pid].owner = Nobody THEN ended ELSE [ended EXCEPT ![proc[pid].owner] = status]
    /\ UNCHANGED <<pane, job, output, faults>>

\* Mutant: the pane is left to the end of its output.
PaneDied_Only(pid) ==
    LET same == {p \in Panes : pane[p].exists /\ pane[p].pid = pid}
        hit == {p \in same : \A o \in same : p <= o}
    IN [panes |-> [p \in Panes |-> IF p \notin hit THEN pane[p]
                                   ELSE [pane[p] EXCEPT !.status = proc[pid].status,
                                                        !.flags = @ \cup {"STATUSREADY", "EXITED"}]],
        faults |-> Fault(\E p \in hit : proc[pid].owner # p, "reused")]

\* The first pane with this pid is the one; panes keep the pid of a dead
\* process.  fault: it is not the process of that pane.
PaneDied(pid) ==
    LET same == {p \in Panes : pane[p].exists /\ pane[p].pid = pid}
        hit == {p \in same : \A o \in same : p <= o}
        after(p) == DestroyIfReady([pane[p] EXCEPT !.status = proc[pid].status,
                                                   !.flags = @ \cup {"STATUSREADY", "EXITED"}],
                                   output[p].unread)
    IN [panes |-> [p \in Panes |-> IF p \in hit THEN after(p) ELSE pane[p]],
        faults |-> Fault(\E p \in hit : proc[pid].owner # p, "reused")]

\* Complete if the output of the job has ended.
job_check_died(pid) ==
    [j \in Jobs |-> IF job[j].pid # pid THEN job[j]
                    ELSE IF job[j].state = "CLOSED" THEN NoJob
                    ELSE [state |-> "DEAD", pid |-> NoPid, status |-> proc[pid].status]]

server_child_exited(pid) ==
    LET pd == PaneDied(pid)
        done == {j \in Jobs : job[j].pid = pid /\ job[j].state = "CLOSED"}
        gone == done \cup {p \in Panes : pane[p].exists /\ ~pd.panes[p].exists}
    IN /\ Usable /\ proc[pid].state = "zombie"
       /\ pane' = pd.panes
       /\ job' = job_check_died(pid)
       /\ proc' = [proc EXCEPT ![pid] = NoProc]
       /\ output' = [x \in DOMAIN output |-> IF x \in gone THEN Closed ELSE output[x]]
       /\ ended' = [x \in DOMAIN ended |-> IF x \in gone THEN "none" ELSE ended[x]]
       /\ faults' = faults \cup pd.faults \cup UNION {Completed(j, proc[pid].status) : j \in done}

-----------------------------------------------------------------------------
Init ==
    /\ pane = [p \in Panes |-> NoPane]
    /\ job = [j \in Jobs |-> NoJob]
    /\ output = [x \in Panes \cup Jobs |-> Closed]
    /\ proc = [i \in Pids |-> NoProc]
    /\ ended = [x \in Panes \cup Jobs |-> "none"]
    /\ faults = {}

\* What the event loop of the server does for the pane p.
PaneCallback(p) ==
    \/ window_pane_read_callback(p)
    \/ window_pane_error_callback(p, FALSE)
    \/ cmd_pipe_pane_write_callback(p)

Next ==
    \/ \E p \in Panes :
        \/ PaneCallback(p)
        \/ window_pane_error_callback(p, TRUE)
        \/ server_kill_pane(p)
        \/ server_client_handle_key(p)
        \/ \E r \in Remains : SetRemain(p, r)
        \/ \E pid \in Pids, r \in Remains : spawn_pane(p, pid, r)
        \/ \E kill \in BOOLEAN : (\E pid \in Pids : cmd_respawn_pane(p, kill, pid))
                                   \/ cmd_respawn_pane_fails(p, kill)
        \/ \E kind \in Pipes \cup {"none"} : cmd_pipe_pane(p, kind)
        \/ cmd_pipe_pane_read_callback(p)
        \/ cmd_pipe_pane_error_callback(p)
        \/ ProcessWrites(p)
    \/ \E j \in Jobs :
        \/ \E pid \in Pids : job_run(j, pid)
        \/ job_error_callback(j)
        \/ job_free(j)
        \/ \E p \in Panes, r \in Remains : popup_make_pane(j, p, r)
    \/ \E x \in Panes \cup Jobs : OutputCloses(x)
    \/ \E pid \in Pids : (\E status \in {"ok", "failed"} : ProcessExits(pid, status))
                           \/ server_child_exited(pid)

\* The event loop comes to every callback, and a pipe's command reads.
Spec ==
    /\ Init /\ [][Next]_vars
    /\ \A p \in Panes : WF_vars(PaneCallback(p))
    /\ \A j \in Jobs : WF_vars(job_error_callback(j))
    /\ \A pid \in Pids : WF_vars(server_child_exited(pid))

-----------------------------------------------------------------------------
(* Properties. *)

\* The status a dead pane shows, and that decides whether it is kept, is how its
\* own process ended, whatever was respawned meanwhile; only the number of a
\* dead process that is used again for another is mistaken.
StatusIsOwn ==
    "reused" \notin faults =>
        \A p \in Panes : "STATUSREADY" \in pane[p].flags => pane[p].status = ended[p]

\* A job completes with the status of its own process and after the end of its
\* output, so that its callback has both.
JobResult == "incomplete" \notin faults

\* A pane whose process has been waited for and whose output has ended does not
\* linger: it is removed, or shown as dead, or somebody respawns it or changes
\* its option; unless it has a pipe that only reads, which is never written.
Lingers(p) ==
    /\ "STATUSREADY" \in pane[p].flags /\ "STATUSDRAWN" \notin pane[p].flags
    /\ ~output[p].open /\ pane[p].pipe # "in"
PanesSettle == \A p \in Panes : [](Lingers(p) => <>(~Lingers(p) \/ ~Usable))

\* A job whose process is dead and whose output has ended completes.
JobsEnd ==
    \A j \in Jobs :
        (job[j].state = "DEAD" /\ ~output[j].open) ~> (job[j].state # "DEAD" \/ ~Usable)

\* The functions of a bufferevent are only used while it is there.
EventLive == faults \cap {"no event", "used again"} = {}
=============================================================================
