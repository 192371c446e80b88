---------------------------- MODULE ProcessProofs ---------------------------
(***************************************************************************)
(* Proofs about processes the server deals with: the children it starts    *)
(* (Children), for all sets of panes, jobs and process numbers, and the    *)
(* client that reads and writes files for it (FileIO), for any number of   *)
(* streams, files and chunks.  The two halves do not depend on each other. *)
(*                                                                         *)
(* Children.  Owners and the invariants after it say who knows which       *)
(* process; a number that is used again is where this ends.                *)
(*                                                                         *)
(* FileIO.  The two queues between client and server are counted by type   *)
(* and stream, and FileInv says where each file is in its life: opened,    *)
(* ready, written, closed.  One lemma per handler keeps Life of the file   *)
(* it is about; the others are Untouched.                                  *)
(***************************************************************************)
EXTENDS Children, FileIO, QueueLemmas

Statuses == {"none", "ok", "failed"}
Flags == {"EXITED", "STATUSREADY", "STATUSDRAWN"}
PaneType == [exists : BOOLEAN, fd : BOOLEAN, event : {"none", "live", "freed"},
             pid : Pids \cup {NoPid}, flags : SUBSET Flags, status : Statuses,
             remain : 0 .. 3, pipe : {"none", "out", "in", "both"}, out : BOOLEAN]
JobType == [state : {"none", "RUNNING", "CLOSED", "DEAD"}, pid : Pids \cup {NoPid},
            status : Statuses]
OutputType == [open : BOOLEAN, unread : BOOLEAN]
ProcType == [state : {"none", "running", "zombie"}, status : Statuses,
             owner : Panes \cup Jobs \cup {Nobody}]

TypeOK ==
    /\ pane \in [Panes -> PaneType]
    /\ job \in [Jobs -> JobType]
    /\ output \in [Panes \cup Jobs -> OutputType]
    /\ proc \in [Pids -> ProcType]
    /\ ended \in [Panes \cup Jobs -> Statuses]

(* A process is that of at most one pane or job, which knows it by its     *)
(* number; how it ended is what it exited with.                            *)
Owners ==
    \A i \in Pids :
        /\ proc[i].state = "none" => proc[i].owner = Nobody
        /\ proc[i].owner \in Panes => pane[proc[i].owner].pid = i /\ pane[proc[i].owner].exists
        /\ proc[i].owner \in Jobs => job[proc[i].owner].pid = i
        /\ proc[i].state = "zombie" /\ proc[i].owner # Nobody => ended[proc[i].owner] = proc[i].status

(* A job has the number of its process until the process has been waited   *)
(* for, and then its status.                                               *)
JobsKnow ==
    \A j \in Jobs :
        /\ job[j].pid # NoPid => proc[job[j].pid].owner = j
        /\ job[j].pid # NoPid <=> job[j].state \in {"RUNNING", "CLOSED"}
        /\ job[j].state = "CLOSED" => ~output[j].open
        /\ job[j].state = "DEAD" => job[j].status = ended[j]

(* A slot without a pane is empty.                                         *)
EmptySlots == \A p \in Panes : ~pane[p].exists => pane[p] = NoPane

(* A pane with a status has no process any more, so the status stays; a    *)
(* number that is used again is what could give it that of another.        *)
PanesKnow ==
    "reused" \notin faults =>
        \A p \in Panes : "STATUSREADY" \in pane[p].flags =>
            /\ pane[p].status = ended[p]
            /\ \A i \in Pids : proc[i].owner # p

IInv == TypeOK /\ Owners /\ JobsKnow /\ EmptySlots /\ PanesKnow /\ JobResult

USE DEF NoPid, Nobody

(* The number that stands for none is not that of a process.               *)
LEMMA Distinct ==
  /\ NoPid \notin Pids /\ Nobody \notin Panes /\ Nobody \notin Jobs
  /\ \A p \in Panes : p \notin Jobs
BY ChildrenAssumption

(* What stands for no pane, job, output or process has the right shape.    *)
LEMMA EmptyTypes ==
  /\ NoPane \in PaneType /\ NoJob \in JobType /\ Closed \in OutputType
  /\ NoProc \in ProcType /\ NewOutput \in OutputType
  /\ \A x \in Panes \cup Jobs : Started(x) \in ProcType
BY DEF NoPane, PaneType, Flags, Statuses, NoJob, JobType, Closed, OutputType, NoProc, ProcType,
       NewOutput, Started

(* Nothing runs at first.                                                  *)
LEMMA InitIInv == Init => IInv
<1> SUFFICES ASSUME Init PROVE IInv OBVIOUS
<1> USE DEF Init
<1>1. TypeOK BY EmptyTypes DEF TypeOK, Statuses
<1>2. Owners BY Distinct DEF Owners, NoProc
<1>3. JobsKnow BY DEF JobsKnow, NoJob
<1>4. EmptySlots BY DEF EmptySlots
<1>5. PanesKnow BY DEF PanesKnow, NoPane
<1>6. JobResult BY DEF JobResult
<1> QED BY <1>1, <1>2, <1>3, <1>4, <1>5, <1>6 DEF IInv

(* A dying pane is removed, or keeps its process number and status.        *)
Alike(a, b) ==
    /\ a \in PaneType /\ a.exists = b.exists /\ a.pid = b.pid /\ a.status = b.status
    /\ "STATUSREADY" \in a.flags <=> "STATUSREADY" \in b.flags

LEMMA DestroyPane ==
  ASSUME NEW wp \in PaneType
  PROVE  server_destroy_pane(wp) = NoPane \/ Alike(server_destroy_pane(wp), wp)
<1> DEFINE a == IF wp.fd THEN [wp EXCEPT !.fd = FALSE, !.event = "none"] ELSE wp
           b == [a EXCEPT !.flags = @ \cup {"STATUSDRAWN"}]
<1>1. Alike(a, wp) BY DEF Alike, PaneType
<1>2. Alike(b, wp) BY DEF Alike, PaneType, Flags
<1>3. server_destroy_pane(wp) \in {a, b, NoPane} BY DEF server_destroy_pane
<1> QED BY <1>1, <1>2, <1>3

LEMMA DestroyIfReadyPane ==
  ASSUME NEW wp \in PaneType, NEW u
  PROVE  DestroyIfReady(wp, u) = NoPane \/ Alike(DestroyIfReady(wp, u), wp)
BY DestroyPane DEF DestroyIfReady, Alike

(* What giving the process of x to y changes.                              *)
OwnersAfter(f, x, y) ==
    /\ f \in [Pids -> ProcType]
    /\ \A i \in Pids : /\ f[i].state = proc[i].state /\ f[i].status = proc[i].status
                       /\ f[i].owner = IF proc[i].owner = x THEN y ELSE proc[i].owner

LEMMA GivenToOwners ==
  ASSUME TypeOK, NEW x, NEW y \in Panes \cup Jobs \cup {Nobody}
  PROVE  OwnersAfter(GivenTo(x, y), x, y)
BY DEF GivenTo, TypeOK, ProcType, OwnersAfter

(* A step that only changes or removes one pane.                           *)
LEMMA BecomesStep ==
  ASSUME IInv, NEW p \in Panes, NEW wp, Becomes(p, wp), wp = NoPane \/ Alike(wp, pane[p]),
         pane[p].exists, job' = job, faults \subseteq faults', "incomplete" \notin faults'
  PROVE  IInv'
<1> USE Distinct DEF IInv
<1>1. NoPane \in PaneType /\ ~NoPane.exists /\ "STATUSREADY" \notin NoPane.flags
  BY DEF NoPane, PaneType, Flags, Statuses
<1>2. wp \in PaneType /\ pane' = [pane EXCEPT ![p] = wp] /\ Forget(p, ~wp.exists)
  BY <1>1 DEF Becomes, Alike
<1>3. wp.exists => Alike(wp, pane[p]) /\ proc' = proc /\ output' = output /\ ended' = ended
  BY <1>1, <1>2 DEF Forget
<1>4. ~wp.exists => /\ wp = NoPane /\ OwnersAfter(proc', p, Nobody)
                    /\ output' = [output EXCEPT ![p] = Closed]
                    /\ ended' = [ended EXCEPT ![p] = "none"]
  BY <1>2, GivenToOwners DEF Forget, Alike
<1>5. TypeOK'
  <2>1. pane' \in [Panes -> PaneType] BY <1>2 DEF TypeOK
  <2>2. proc' \in [Pids -> ProcType] BY <1>3, <1>4 DEF TypeOK, OwnersAfter
  <2>3. output' \in [Panes \cup Jobs -> OutputType] BY <1>3, <1>4, EmptyTypes DEF TypeOK
  <2>4. ended' \in [Panes \cup Jobs -> Statuses] BY <1>3, <1>4 DEF TypeOK, Statuses
  <2> QED BY <2>1, <2>2, <2>3, <2>4 DEF TypeOK
<1>6. Owners'
  <2>1. \A q \in Panes : q # p => pane'[q] = pane[q] BY <1>2 DEF TypeOK
  <2>2. \A x \in Panes \cup Jobs : x # p => ended'[x] = ended[x] BY <1>3, <1>4 DEF TypeOK
  <2>3. CASE wp.exists BY <2>3, <2>1, <1>2, <1>3 DEF TypeOK, Owners, Alike
  <2>4. CASE ~wp.exists
    <3>1. \A i \in Pids : proc'[i].owner # p /\ proc[i].owner \in Panes \cup Jobs \cup {Nobody}
      BY <2>4, <1>4 DEF OwnersAfter, TypeOK, ProcType
    <3> QED BY <3>1, <2>4, <2>1, <2>2, <1>4 DEF Owners, OwnersAfter
  <2> QED BY <2>3, <2>4
<1>7. JobsKnow'
  BY <1>2, <1>3, <1>4 DEF TypeOK, JobsKnow, JobType, OwnersAfter
<1>8. EmptySlots'
  BY <1>2, <1>4 DEF TypeOK, EmptySlots
<1>9. PanesKnow'
  <2> SUFFICES ASSUME "reused" \notin faults', NEW q \in Panes, "STATUSREADY" \in pane'[q].flags
               PROVE  pane'[q].status = ended'[q] /\ \A i \in Pids : proc'[i].owner # q
    BY DEF PanesKnow
  <2>1. "STATUSREADY" \in pane[q].flags /\ pane'[q].status = pane[q].status
        /\ ended'[q] = ended[q]
    BY <1>1, <1>2, <1>3, <1>4 DEF TypeOK, Alike
  <2>2. pane[q].status = ended[q] /\ \A i \in Pids : proc[i].owner # q
    BY <2>1 DEF PanesKnow
  <2> QED BY <2>1, <2>2, <1>3, <1>4 DEF OwnersAfter
<1> QED BY <1>5, <1>6, <1>7, <1>8, <1>9 DEF JobResult

(* A step that changes what a pane is like, or what there is to read.      *)
LEMMA QuietChild ==
  ASSUME IInv, UNCHANGED <<job, proc, ended, faults>>,
         output' \in [Panes \cup Jobs -> OutputType],
         \A j \in Jobs : output'[j].open => output[j].open,
         pane' \in [Panes -> PaneType],
         \A q \in Panes : Alike(pane'[q], pane[q]) /\ (~pane[q].exists => pane'[q] = pane[q])
  PROVE  IInv'
<1> USE DEF IInv
<1>1. TypeOK' BY DEF TypeOK
<1>2. Owners' BY DEF TypeOK, ProcType, Owners, Alike
<1>3. JobsKnow' BY DEF JobsKnow
<1>4. EmptySlots' BY DEF EmptySlots, Alike
<1>5. PanesKnow' BY DEF PanesKnow, Alike
<1> QED BY <1>1, <1>2, <1>3, <1>4, <1>5 DEF JobResult

LEMMA PaneReadStep ==
  ASSUME IInv, NEW p \in Panes, window_pane_read_callback(p)
  PROVE  IInv'
<1> USE DEF IInv, window_pane_read_callback
<1>1. pane[p] \in PaneType /\ output[p] \in OutputType BY DEF TypeOK
<1>2. pane[p].exists BY DEF EmptySlots, NoPane
<1>3. output' \in [Panes \cup Jobs -> OutputType] BY <1>1 DEF TypeOK, OutputType
<1>4. \A j \in Jobs : output'[j] = output[j] BY Distinct DEF TypeOK
<1> DEFINE wp == [pane[p] EXCEPT !.out = @ \/ pane[p].pipe # "none"]
<1>5. Alike(wp, pane[p]) BY <1>1 DEF Alike, PaneType
<1>6. pane' = [pane EXCEPT ![p] = wp] OBVIOUS
<1> HIDE DEF wp
<1>7. pane' \in [Panes -> PaneType] BY <1>5, <1>6 DEF TypeOK, Alike
<1>8. \A q \in Panes : Alike(pane'[q], pane[q]) /\ (~pane[q].exists => pane'[q] = pane[q])
  BY <1>2, <1>5, <1>6 DEF TypeOK, Alike
<1> QED BY <1>3, <1>4, <1>7, <1>8, QuietChild

LEMMA SetRemainStep ==
  ASSUME IInv, NEW p \in Panes, NEW r \in Remains, SetRemain(p, r)
  PROVE  IInv'
<1> USE DEF IInv, SetRemain
<1>1. pane[p] \in PaneType /\ r \in 0 .. 3 BY ChildrenAssumption DEF TypeOK
<1> DEFINE wp == [pane[p] EXCEPT !.remain = r]
<1>5. Alike(wp, pane[p]) BY <1>1 DEF Alike, PaneType
<1>6. pane' = [pane EXCEPT ![p] = wp] OBVIOUS
<1> HIDE DEF wp
<1>7. pane' \in [Panes -> PaneType] BY <1>5, <1>6 DEF TypeOK, Alike
<1>8. \A q \in Panes : Alike(pane'[q], pane[q]) /\ (~pane[q].exists => pane'[q] = pane[q])
  BY <1>5, <1>6 DEF TypeOK, Alike
<1> QED BY <1>7, <1>8, QuietChild DEF TypeOK

LEMMA PipeStep ==
  ASSUME IInv, NEW p \in Panes, NEW kind \in Pipes \cup {"none"}, cmd_pipe_pane(p, kind)
  PROVE  IInv'
<1> USE DEF IInv, cmd_pipe_pane
<1>1. pane[p] \in PaneType /\ kind \in {"none", "out", "in", "both"}
  BY ChildrenAssumption DEF TypeOK
<1>2. pane[p].exists BY DEF EmptySlots, NoPane
<1> DEFINE wp == [pane[p] EXCEPT !.pipe = kind, !.out = FALSE]
<1>5. Alike(wp, pane[p]) BY <1>1 DEF Alike, PaneType
<1>6. pane' = [pane EXCEPT ![p] = wp] BY DEF TypeOK
<1> HIDE DEF wp
<1>7. pane' \in [Panes -> PaneType] BY <1>5, <1>6 DEF TypeOK, Alike
<1>8. \A q \in Panes : Alike(pane'[q], pane[q]) /\ (~pane[q].exists => pane'[q] = pane[q])
  BY <1>2, <1>5, <1>6 DEF TypeOK, Alike
<1> QED BY <1>7, <1>8, QuietChild DEF TypeOK

LEMMA OutputStep ==
  ASSUME IInv, NEW x \in Panes \cup Jobs, OutputCloses(x) \/ (x \in Panes /\ ProcessWrites(x))
  PROVE  IInv'
<1> USE DEF IInv, OutputCloses, ProcessWrites
<1>1. output' \in [Panes \cup Jobs -> OutputType] BY ZenonT(60) DEF TypeOK, OutputType
<1>2. \A j \in Jobs : output'[j].open => output[j].open BY Distinct DEF TypeOK, OutputType
<1>3. \A q \in Panes : Alike(pane'[q], pane[q]) BY DEF TypeOK, Alike
<1> QED BY <1>1, <1>2, <1>3, QuietChild DEF TypeOK

(* The callbacks and commands that end in the death of a pane.             *)
LEMMA DeathStep ==
  ASSUME IInv, NEW p \in Panes,
         \/ \E write \in BOOLEAN : window_pane_error_callback(p, write)
         \/ server_kill_pane(p)
         \/ server_client_handle_key(p)
         \/ cmd_pipe_pane_write_callback(p)
         \/ cmd_pipe_pane_read_callback(p)
         \/ cmd_pipe_pane_error_callback(p)
  PROVE  IInv'
<1>1. pane[p] \in PaneType /\ "incomplete" \notin faults BY DEF IInv, TypeOK, JobResult
<1>2. ~pane[p].exists =>
        /\ ~pane[p].fd /\ pane[p].flags = {} /\ pane[p].pipe = "none" /\ ~pane[p].out
  BY DEF IInv, EmptySlots, NoPane
<1>3. ASSUME NEW write \in BOOLEAN, window_pane_error_callback(p, write) PROVE IInv'
  <2> DEFINE a == [pane[p] EXCEPT !.flags = @ \cup {"EXITED"}]
             wp == DestroyIfReady(a, output[p].unread)
  <2>1. Alike(a, pane[p]) BY <1>1 DEF Alike, PaneType, Flags
  <2>2. wp = NoPane \/ Alike(wp, a)
    <3> HIDE DEF a
    <3> QED BY <2>1, DestroyIfReadyPane DEF Alike
  <2>3. Becomes(p, wp) /\ job' = job /\ faults' = faults /\ pane[p].exists
    BY <1>3, <1>2 DEF window_pane_error_callback
  <2> HIDE DEF a, wp
  <2>4. wp = NoPane \/ Alike(wp, pane[p]) BY <2>1, <2>2 DEF Alike
  <2> QED BY <1>1, <2>3, <2>4, BecomesStep
<1>4. ASSUME server_kill_pane(p) PROVE IInv'
  BY <1>4, <1>1, BecomesStep DEF server_kill_pane
<1>5. ASSUME server_client_handle_key(p) PROVE IInv'
  <2> DEFINE a == [pane[p] EXCEPT !.remain = 0]
             wp == server_destroy_pane(a)
  <2>1. Alike(a, pane[p]) BY <1>1 DEF Alike, PaneType
  <2>2. wp = NoPane \/ Alike(wp, a)
    <3> HIDE DEF a
    <3> QED BY <2>1, DestroyPane DEF Alike
  <2>3. Becomes(p, wp) /\ job' = job /\ faults' = faults /\ pane[p].exists
    BY <1>5, <1>2 DEF server_client_handle_key
  <2> HIDE DEF a, wp
  <2>4. wp = NoPane \/ Alike(wp, pane[p]) BY <2>1, <2>2 DEF Alike
  <2> QED BY <1>1, <2>3, <2>4, BecomesStep
<1>6. ASSUME cmd_pipe_pane_write_callback(p) PROVE IInv'
  <2> DEFINE a == [pane[p] EXCEPT !.out = FALSE]
             wp == DestroyIfReady(a, output[p].unread)
  <2>1. Alike(a, pane[p]) BY <1>1 DEF Alike, PaneType
  <2>2. wp = NoPane \/ Alike(wp, a)
    <3> HIDE DEF a
    <3> QED BY <2>1, DestroyIfReadyPane DEF Alike
  <2>3. Becomes(p, wp) /\ job' = job /\ faults' = faults \cup Fault(~wp.exists, "used again")
        /\ pane[p].exists
    BY <1>6, <1>2 DEF cmd_pipe_pane_write_callback
  <2> HIDE DEF a, wp
  <2>4. wp = NoPane \/ Alike(wp, pane[p]) BY <2>1, <2>2 DEF Alike
  <2>5. faults \subseteq faults' /\ "incomplete" \notin faults' BY <1>1, <2>3 DEF Fault
  <2> QED BY <1>1, <2>3, <2>4, <2>5, BecomesStep
<1>7. ASSUME cmd_pipe_pane_read_callback(p) PROVE IInv'
  <2> DEFINE wp == DestroyIfReady(pane[p], output[p].unread)
  <2>1. wp = NoPane \/ Alike(wp, pane[p]) BY <1>1, DestroyIfReadyPane
  <2>2. Becomes(p, wp) /\ job' = job /\ pane[p].exists
        /\ faults' = faults \cup Fault(pane[p].event # "live", "no event")
    BY <1>7, <1>2 DEF cmd_pipe_pane_read_callback
  <2> HIDE DEF wp
  <2>3. faults \subseteq faults' /\ "incomplete" \notin faults' BY <1>1, <2>2 DEF Fault
  <2> QED BY <2>1, <2>2, <2>3, BecomesStep
<1>8. ASSUME cmd_pipe_pane_error_callback(p) PROVE IInv'
  <2> DEFINE a == [pane[p] EXCEPT !.pipe = "none", !.out = FALSE]
             wp == DestroyIfReady(a, output[p].unread)
  <2>1. Alike(a, pane[p]) BY <1>1 DEF Alike, PaneType
  <2>2. wp = NoPane \/ Alike(wp, a)
    <3> HIDE DEF a
    <3> QED BY <2>1, DestroyIfReadyPane DEF Alike
  <2>3. Becomes(p, wp) /\ job' = job /\ faults' = faults /\ pane[p].exists
    BY <1>8, <1>2 DEF cmd_pipe_pane_error_callback
  <2> HIDE DEF a, wp
  <2>4. wp = NoPane \/ Alike(wp, pane[p]) BY <2>1, <2>2 DEF Alike
  <2> QED BY <1>1, <2>3, <2>4, BecomesStep
<1> QED BY <1>3, <1>4, <1>5, <1>6, <1>7, <1>8

(* A pane that does not exist has no process.                              *)
LEMMA NoPaneNoProcess ==
  ASSUME IInv, NEW p \in Panes, ~pane[p].exists, NEW i \in Pids
  PROVE  proc[i].owner # p
BY DEF IInv, Owners

(* Neither has a job that is not there or is dead.                         *)
LEMMA NoJobNoProcess ==
  ASSUME IInv, NEW j \in Jobs, job[j].pid = NoPid, NEW i \in Pids
  PROVE  proc[i].owner # j
BY Distinct DEF IInv, Owners

(* A process is started for a pane, which loses the one it had.            *)
LEMMA StartStep ==
  ASSUME IInv, NEW p \in Panes, NEW pid \in Pids, NEW wp \in PaneType, NEW f,
         proc[pid].state = "none", wp.exists, wp.pid = pid, "STATUSREADY" \notin wp.flags,
         OwnersAfter(f, p, Nobody),
         pane' = [pane EXCEPT ![p] = wp], proc' = [f EXCEPT ![pid] = Started(p)],
         output' = [output EXCEPT ![p] = NewOutput], UNCHANGED <<job, faults>>,
         ended' = ended \/ ended' = [ended EXCEPT ![p] = "none"]
  PROVE  IInv'
<1> USE Distinct DEF IInv
<1>1. TypeOK'
  <2>1. pane' \in [Panes -> PaneType] BY DEF TypeOK
  <2>2. proc' \in [Pids -> ProcType] BY EmptyTypes DEF OwnersAfter
  <2>3. output' \in [Panes \cup Jobs -> OutputType] BY EmptyTypes DEF TypeOK
  <2>4. ended' \in [Panes \cup Jobs -> Statuses] BY DEF TypeOK, Statuses
  <2> QED BY <2>1, <2>2, <2>3, <2>4 DEF TypeOK
<1>2. proc'[pid].owner = p /\ proc'[pid].state = "running"
      /\ \A i \in Pids : i # pid => proc'[i] = f[i]
  BY DEF OwnersAfter, Started
<1>3. \A i \in Pids : proc[i].owner \in Panes \cup Jobs \cup {Nobody} BY DEF TypeOK, ProcType
<1>4. \A q \in Panes : q # p => pane'[q] = pane[q] BY DEF TypeOK
<1>5. \A x \in Panes \cup Jobs : x # p => ended'[x] = ended[x] BY DEF TypeOK
<1>6. pane'[p] = wp BY DEF TypeOK
<1>7. Owners' BY <1>2, <1>3, <1>4, <1>5, <1>6 DEF Owners, OwnersAfter
<1>8. JobsKnow'
  <2>1. \A j \in Jobs : output'[j] = output[j] BY DEF TypeOK
  <2>2. \A j \in Jobs : job[j].pid \in Pids \cup {NoPid} BY DEF TypeOK, JobType
  <2>3. \A j \in Jobs : job[j].pid # pid BY DEF JobsKnow, Owners
  <2> QED BY <1>2, <1>3, <1>5, <2>1, <2>2, <2>3 DEF JobsKnow, OwnersAfter
<1>9. EmptySlots' BY <1>4, <1>6 DEF EmptySlots
<1>10. PanesKnow'
  BY <1>2, <1>3, <1>4, <1>5, <1>6 DEF PanesKnow, OwnersAfter
<1> QED BY <1>1, <1>7, <1>8, <1>9, <1>10 DEF JobResult

LEMMA SpawnStep ==
  ASSUME IInv, NEW p \in Panes, NEW pid \in Pids, NEW r \in Remains, spawn_pane(p, pid, r)
  PROVE  IInv'
<1> USE DEF spawn_pane, Free
<1> DEFINE wp == [NoPane EXCEPT !.exists = TRUE, !.fd = TRUE, !.event = "live",
                                !.pid = pid, !.remain = r]
<1>1. wp \in PaneType /\ wp.exists /\ wp.pid = pid /\ "STATUSREADY" \notin wp.flags
  BY ChildrenAssumption DEF NoPane, PaneType, Flags, Statuses
<1>2. OwnersAfter(proc, p, Nobody)
  BY NoPaneNoProcess DEF OwnersAfter, IInv, TypeOK
<1> HIDE DEF wp
<1>3. pane' = [pane EXCEPT ![p] = wp] BY DEF wp
<1> QED BY <1>1, <1>2, <1>3, StartStep

LEMMA RespawnStep ==
  ASSUME IInv, NEW p \in Panes, NEW kill \in BOOLEAN, NEW pid \in Pids,
         cmd_respawn_pane(p, kill, pid)
  PROVE  IInv'
<1> USE DEF cmd_respawn_pane, Respawning, Free
<1> DEFINE wp == [pane[p] EXCEPT !.fd = TRUE, !.event = "live", !.pid = pid, !.flags = {}]
<1>0. pane[p] \in PaneType /\ pane[p].exists BY DEF IInv, TypeOK
<1>1. wp \in PaneType /\ wp.exists /\ wp.pid = pid /\ "STATUSREADY" \notin wp.flags
  BY <1>0 DEF PaneType
<1>2. OwnersAfter(GivenTo(p, Nobody), p, Nobody) BY GivenToOwners DEF IInv
<1>3. pane' = [pane EXCEPT ![p] = wp] BY DEF IInv, TypeOK
<1>4. proc' = [GivenTo(p, Nobody) EXCEPT ![pid] = Started(p)] OBVIOUS
<1>5. /\ output' = [output EXCEPT ![p] = NewOutput] /\ UNCHANGED <<job, faults>>
      /\ ended' = [ended EXCEPT ![p] = "none"] /\ proc[pid].state = "none"
  OBVIOUS
<1> HIDE DEF wp, cmd_respawn_pane
<1> QED BY <1>1, <1>2, <1>3, <1>4, <1>5, StartStep

LEMMA RespawnFailsStep ==
  ASSUME IInv, NEW p \in Panes, NEW kill \in BOOLEAN, cmd_respawn_pane_fails(p, kill)
  PROVE  IInv'
<1> USE Distinct DEF IInv
<1> DEFINE wp == [pane[p] EXCEPT !.fd = FALSE, !.pid = NoPid,
                                 !.event = IF pane[p].fd THEN "freed" ELSE @,
                                 !.flags = @ \ {"STATUSREADY", "STATUSDRAWN"}]
<1>1. pane[p] \in PaneType /\ pane[p].exists
  BY DEF TypeOK, cmd_respawn_pane_fails, Respawning
<1>2. wp \in PaneType /\ wp.exists /\ "STATUSREADY" \notin wp.flags
  BY <1>1 DEF PaneType
<1>3. pane' = [pane EXCEPT ![p] = wp] BY DEF TypeOK, cmd_respawn_pane_fails
<1>4. /\ OwnersAfter(proc', p, Nobody) /\ output' = [output EXCEPT ![p] = Closed]
      /\ ended' = [ended EXCEPT ![p] = "none"] /\ UNCHANGED <<job, faults>>
  BY GivenToOwners DEF cmd_respawn_pane_fails, Forget
<1> HIDE DEF wp
<1>5. TypeOK'
  <2>1. pane' \in [Panes -> PaneType] BY <1>2, <1>3 DEF TypeOK
  <2>2. output' \in [Panes \cup Jobs -> OutputType] BY <1>4, EmptyTypes DEF TypeOK
  <2>3. ended' \in [Panes \cup Jobs -> Statuses] BY <1>4 DEF TypeOK, Statuses
  <2> QED BY <1>4, <2>1, <2>2, <2>3 DEF TypeOK, OwnersAfter
<1>6. \A q \in Panes : q # p => pane'[q] = pane[q] BY <1>3 DEF TypeOK
<1>7. \A x \in Panes \cup Jobs : x # p => ended'[x] = ended[x] /\ output'[x] = output[x]
  BY <1>4 DEF TypeOK
<1>8. \A i \in Pids : proc[i].owner \in Panes \cup Jobs \cup {Nobody} BY DEF TypeOK, ProcType
<1>9. Owners' BY <1>4, <1>6, <1>7, <1>8 DEF Owners, OwnersAfter
<1>10. JobsKnow' BY <1>4, <1>7 DEF JobsKnow, OwnersAfter, TypeOK, JobType
<1>11. EmptySlots' BY <1>2, <1>3, <1>6 DEF EmptySlots, TypeOK
<1>12. PanesKnow'
  BY <1>2, <1>3, <1>4, <1>6, <1>7, <1>8 DEF PanesKnow, OwnersAfter, TypeOK
<1> QED BY <1>4, <1>5, <1>9, <1>10, <1>11, <1>12 DEF JobResult

LEMMA RunStep ==
  ASSUME IInv, NEW j \in Jobs, NEW pid \in Pids, job_run(j, pid)
  PROVE  IInv'
<1> USE Distinct DEF IInv
<1> DEFINE new == [NoJob EXCEPT !.state = "RUNNING", !.pid = pid]
<1>1. /\ job' = [job EXCEPT ![j] = new] /\ proc' = [proc EXCEPT ![pid] = Started(j)]
      /\ output' = [output EXCEPT ![j] = NewOutput] /\ ended' = [ended EXCEPT ![j] = "none"]
      /\ UNCHANGED <<pane, faults>>
      /\ proc[pid].state = "none" /\ job[j].state = "none"
  BY DEF job_run, Free
<1>2. new \in JobType /\ new.state = "RUNNING" /\ new.pid = pid BY DEF NoJob, JobType, Statuses
<1> HIDE DEF new
<1>3. TypeOK'
  <2>1. job' \in [Jobs -> JobType] BY <1>1, <1>2 DEF TypeOK
  <2>2. proc' \in [Pids -> ProcType] BY <1>1, EmptyTypes DEF TypeOK
  <2>3. output' \in [Panes \cup Jobs -> OutputType] BY <1>1, EmptyTypes DEF TypeOK
  <2>4. ended' \in [Panes \cup Jobs -> Statuses] BY <1>1 DEF TypeOK, Statuses
  <2> QED BY <1>1, <2>1, <2>2, <2>3, <2>4 DEF TypeOK
<1>4. proc'[pid].owner = j /\ proc'[pid].state = "running"
      /\ \A i \in Pids : i # pid => proc'[i] = proc[i]
  BY <1>1 DEF TypeOK, Started
<1>5. job[j].pid = NoPid BY <1>1 DEF JobsKnow
<1>6. \A i \in Pids : proc[i].owner # j BY <1>5, NoJobNoProcess
<1>7. \A k \in Jobs : k # j => job'[k] = job[k] BY <1>1 DEF TypeOK
<1>8. \A x \in Panes \cup Jobs : x # j => ended'[x] = ended[x] /\ output'[x] = output[x]
  BY <1>1 DEF TypeOK
<1>9. job'[j] = new BY <1>1 DEF TypeOK
<1>10. \A i \in Pids : proc[i].owner \in Panes \cup Jobs \cup {Nobody} BY DEF TypeOK, ProcType
<1>11. Owners' BY <1>1, <1>2, <1>4, <1>6, <1>7, <1>8, <1>9, <1>10 DEF Owners
<1>12. JobsKnow'
  <2>1. \A k \in Jobs : job[k].pid \in Pids \cup {NoPid} /\ job[k].pid # pid
    BY <1>1 DEF TypeOK, JobType, JobsKnow, Owners
  <2> QED BY <1>2, <1>4, <1>7, <1>8, <1>9, <2>1 DEF JobsKnow
<1>13. EmptySlots' BY <1>1 DEF EmptySlots
<1>14. PanesKnow' BY <1>1, <1>4, <1>8 DEF PanesKnow
<1> QED BY <1>1, <1>3, <1>11, <1>12, <1>13, <1>14 DEF JobResult

(* A job is freed; its process goes on as nobody's.                        *)
LEMMA FreeStep ==
  ASSUME IInv, NEW j \in Jobs, job' = [job EXCEPT ![j] = NoJob], Forget(j, TRUE),
         pane' = pane, faults' = faults
  PROVE  IInv'
<1> USE Distinct DEF IInv
<1>1. /\ OwnersAfter(proc', j, Nobody) /\ output' = [output EXCEPT ![j] = Closed]
      /\ ended' = [ended EXCEPT ![j] = "none"]
  BY GivenToOwners DEF Forget
<1>2. TypeOK'
  <2>1. job' \in [Jobs -> JobType] BY EmptyTypes DEF TypeOK
  <2>2. output' \in [Panes \cup Jobs -> OutputType] BY <1>1, EmptyTypes DEF TypeOK
  <2>3. ended' \in [Panes \cup Jobs -> Statuses] BY <1>1 DEF TypeOK, Statuses
  <2> QED BY <1>1, <2>1, <2>2, <2>3 DEF TypeOK, OwnersAfter
<1>3. \A k \in Jobs : k # j => job'[k] = job[k] BY DEF TypeOK
<1>4. \A x \in Panes \cup Jobs : x # j => ended'[x] = ended[x] /\ output'[x] = output[x]
  BY <1>1 DEF TypeOK
<1>5. job'[j].pid = NoPid /\ job'[j].state = "none" BY DEF TypeOK, NoJob
<1>6. \A i \in Pids : proc[i].owner \in Panes \cup Jobs \cup {Nobody} BY DEF TypeOK, ProcType
<1>7. Owners' BY <1>1, <1>3, <1>4, <1>6 DEF Owners, OwnersAfter
<1>8. JobsKnow'
  BY <1>1, <1>3, <1>4, <1>5 DEF JobsKnow, OwnersAfter, TypeOK, JobType
<1>9. EmptySlots' BY DEF EmptySlots
<1>10. PanesKnow' BY <1>1, <1>4, <1>6 DEF PanesKnow, OwnersAfter
<1> QED BY <1>2, <1>7, <1>8, <1>9, <1>10 DEF JobResult

(* A dead job whose output has ended has the status of its process.        *)
LEMMA JobErrorStep ==
  ASSUME IInv, NEW j \in Jobs, job_error_callback(j)
  PROVE  IInv'
<1> USE DEF job_error_callback
<1>1. CASE job[j].state = "DEAD"
  <2>1. Completed(j, job[j].status) = {}
    BY <1>1 DEF Completed, Fault, IInv, JobsKnow
  <2>2. job' = [job EXCEPT ![j] = NoJob] /\ Forget(j, TRUE) /\ faults' = faults /\ pane' = pane
    BY <1>1, <2>1
  <2> HIDE DEF job_error_callback
  <2> QED BY <2>2, FreeStep
<1>2. CASE job[j].state = "RUNNING"
  <2> USE DEF IInv
  <2> DEFINE new == [job[j] EXCEPT !.state = "CLOSED"]
  <2>1. job' = [job EXCEPT ![j] = new] /\ UNCHANGED <<pane, output, proc, ended, faults>>
        /\ ~output[j].open
    BY <1>2 DEF Forget
  <2>2. new \in JobType /\ new.state = "CLOSED" /\ new.pid = job[j].pid
    BY DEF TypeOK, JobType
  <2> HIDE DEF new, job_error_callback
  <2>3. TypeOK' BY <2>1, <2>2 DEF TypeOK
  <2>4. \A k \in Jobs : job'[k] = IF k = j THEN new ELSE job[k] BY <2>1 DEF TypeOK
  <2>5. Owners' BY <2>1, <2>2, <2>4 DEF Owners
  <2>6. JobsKnow' BY <1>2, <2>1, <2>2, <2>4 DEF JobsKnow
  <2>7. EmptySlots' BY <2>1 DEF EmptySlots
  <2>8. PanesKnow' BY <2>1 DEF PanesKnow
  <2> QED BY <2>1, <2>3, <2>5, <2>6, <2>7, <2>8 DEF JobResult
<1> QED BY <1>1, <1>2

(* The pane takes over what the job knew.                                  *)
LEMMA PopupStep ==
  ASSUME IInv, NEW j \in Jobs, NEW p \in Panes, NEW r \in Remains, popup_make_pane(j, p, r)
  PROVE  IInv'
<1> USE Distinct DEF IInv
<1> DEFINE wp == [NoPane EXCEPT !.exists = TRUE, !.fd = TRUE, !.event = "live",
                                !.pid = job[j].pid, !.remain = r]
<1>1. /\ pane' = [pane EXCEPT ![p] = wp] /\ OwnersAfter(proc', j, p)
      /\ output' = [output EXCEPT ![p] = output[j], ![j] = Closed]
      /\ ended' = [ended EXCEPT ![p] = ended[j], ![j] = "none"]
      /\ job' = [job EXCEPT ![j] = NoJob]
      /\ faults \subseteq faults' /\ "incomplete" \notin faults' /\ ~pane[p].exists
  BY GivenToOwners DEF popup_make_pane, Fault, JobResult
<1>2. /\ wp \in PaneType /\ wp.exists /\ wp.pid = job[j].pid
      /\ "STATUSREADY" \notin wp.flags
  <2>1. job[j].pid \in Pids \cup {NoPid} /\ r \in 0 .. 3
    BY ChildrenAssumption DEF TypeOK, JobType
  <2> QED BY <2>1 DEF NoPane, PaneType, Flags, Statuses
<1> HIDE DEF wp
<1>3. TypeOK'
  <2>1. job' \in [Jobs -> JobType] BY <1>1, EmptyTypes DEF TypeOK
  <2>2. output' \in [Panes \cup Jobs -> OutputType] BY <1>1, EmptyTypes DEF TypeOK
  <2>3. ended' \in [Panes \cup Jobs -> Statuses] BY <1>1 DEF TypeOK, Statuses
  <2>4. pane' \in [Panes -> PaneType] BY <1>1, <1>2 DEF TypeOK
  <2> QED BY <1>1, <2>1, <2>2, <2>3, <2>4 DEF TypeOK, OwnersAfter
<1>4. \A k \in Jobs : k # j => job'[k] = job[k] BY <1>1 DEF TypeOK
<1>5. \A x \in Panes \cup Jobs : x # j /\ x # p => ended'[x] = ended[x] /\ output'[x] = output[x]
  BY <1>1 DEF TypeOK
<1>6. job'[j].pid = NoPid /\ job'[j].state = "none" BY <1>1 DEF TypeOK, NoJob
<1>7. ended'[p] = ended[j] /\ pane'[p] = wp /\ \A q \in Panes : q # p => pane'[q] = pane[q]
  BY <1>1 DEF TypeOK
<1>8. \A i \in Pids : proc[i].owner \in Panes \cup Jobs \cup {Nobody} /\ proc[i].owner # p
  BY <1>1, NoPaneNoProcess DEF TypeOK, ProcType
<1>9. ASSUME NEW i \in Pids
      PROVE  /\ proc'[i].state = proc[i].state /\ proc'[i].status = proc[i].status
             /\ proc'[i].owner = IF proc[i].owner = j THEN p ELSE proc[i].owner
  BY <1>1 DEF OwnersAfter
<1>13. Owners'
  <2> SUFFICES ASSUME NEW i \in Pids
      PROVE  /\ proc'[i].state = "none" => proc'[i].owner = Nobody
             /\ proc'[i].owner \in Panes =>
                  pane'[proc'[i].owner].pid = i /\ pane'[proc'[i].owner].exists
             /\ proc'[i].owner \in Jobs => job'[proc'[i].owner].pid = i
             /\ proc'[i].state = "zombie" /\ proc'[i].owner # Nobody =>
                  ended'[proc'[i].owner] = proc'[i].status
    BY DEF Owners
  <2>1. CASE proc[i].owner = j
    <3>1. job[j].pid = i /\ proc[i].state # "none"
          /\ (proc[i].state = "zombie" => ended[j] = proc[i].status)
      BY <2>1 DEF Owners
    <3> QED BY <3>1, <2>1, <1>2, <1>7, <1>9
  <2>2. CASE proc[i].owner # j
    <3>1. proc'[i].owner = proc[i].owner BY <2>2, <1>9
    <3> QED BY <3>1, <2>2, <1>4, <1>5, <1>7, <1>8, <1>9 DEF Owners
  <2> QED BY <2>1, <2>2
<1>10. JobsKnow'
  BY <1>1, <1>4, <1>5, <1>6 DEF JobsKnow, OwnersAfter, TypeOK, JobType
<1>11. EmptySlots' BY <1>2, <1>7 DEF EmptySlots
<1>12. PanesKnow'
  <2> SUFFICES ASSUME "reused" \notin faults', NEW q \in Panes, "STATUSREADY" \in pane'[q].flags
               PROVE  pane'[q].status = ended'[q] /\ \A i \in Pids : proc'[i].owner # q
    BY DEF PanesKnow
  <2>1. q # p /\ pane'[q] = pane[q] /\ ended'[q] = ended[q] BY <1>2, <1>5, <1>7
  <2>2. pane[q].status = ended[q] /\ \A i \in Pids : proc[i].owner # q
    BY <1>1, <2>1 DEF PanesKnow
  <2> QED BY <1>9, <2>1, <2>2
<1> QED BY <1>1, <1>3, <1>13, <1>10, <1>11, <1>12 DEF JobResult

(* Only the owner's record of how its process ended changes.               *)
LEMMA ExitsStep ==
  ASSUME IInv, NEW pid \in Pids, NEW status \in {"ok", "failed"}, ProcessExits(pid, status)
  PROVE  IInv'
<1> USE Distinct DEF IInv
<1>1. /\ proc[pid].state = "running" /\ UNCHANGED <<pane, job, output, faults>>
      /\ proc' = [proc EXCEPT ![pid].state = "zombie", ![pid].status = status]
      /\ ended' = IF proc[pid].owner = Nobody THEN ended
                  ELSE [ended EXCEPT ![proc[pid].owner] = status]
  BY DEF ProcessExits
<1>2. proc[pid].owner \in Panes \cup Jobs \cup {Nobody} BY DEF TypeOK, ProcType
<1>3. TypeOK'
  <2>1. proc' \in [Pids -> ProcType] BY ZenonT(60), <1>1 DEF TypeOK, ProcType, Statuses
  <2>2. ended' \in [Panes \cup Jobs -> Statuses] BY <1>1, <1>2 DEF TypeOK, Statuses
  <2> QED BY <1>1, <2>1, <2>2 DEF TypeOK
<1>4. /\ proc'[pid].owner = proc[pid].owner /\ proc'[pid].state = "zombie"
      /\ proc'[pid].status = status /\ \A i \in Pids : i # pid => proc'[i] = proc[i]
  BY <1>1 DEF TypeOK, ProcType
<1>5. /\ proc[pid].owner # Nobody => ended'[proc[pid].owner] = status
      /\ \A x \in Panes \cup Jobs : x # proc[pid].owner => ended'[x] = ended[x]
  BY <1>1, <1>2 DEF TypeOK
<1>6. \A i \in Pids : i # pid /\ proc[pid].owner # Nobody => proc[i].owner # proc[pid].owner
  BY <1>2 DEF Owners
<1>7. Owners'
  <2>1. \A i \in Pids : proc[i].owner \in Panes \cup Jobs \cup {Nobody} BY DEF TypeOK, ProcType
  <2>2. ASSUME NEW i \in Pids, i # pid, proc[i].owner # Nobody
        PROVE  ended'[proc[i].owner] = ended[proc[i].owner]
    BY <2>1, <2>2, <1>5, <1>6
  <2> SUFFICES ASSUME NEW i \in Pids
      PROVE  /\ proc'[i].state = "none" => proc'[i].owner = Nobody
             /\ proc'[i].owner \in Panes =>
                  pane'[proc'[i].owner].pid = i /\ pane'[proc'[i].owner].exists
             /\ proc'[i].owner \in Jobs => job'[proc'[i].owner].pid = i
             /\ proc'[i].state = "zombie" /\ proc'[i].owner # Nobody =>
                  ended'[proc'[i].owner] = proc'[i].status
    BY DEF Owners
  <2>3. CASE i = pid BY <2>3, <1>1, <1>4, <1>5 DEF Owners
  <2>4. CASE i # pid
    <3>1. proc'[i] = proc[i] /\ pane' = pane /\ job' = job BY <2>4, <1>1, <1>4
    <3>2. proc[i].owner # Nobody => ended'[proc[i].owner] = ended[proc[i].owner] BY <2>4, <2>2
    <3> QED BY <3>1, <3>2 DEF Owners
  <2> QED BY <2>3, <2>4
<1>8. JobsKnow'
  <2>1. \A j \in Jobs : job[j].pid \in Pids \cup {NoPid} BY DEF TypeOK, JobType
  <2>2. \A j \in Jobs : job[j].state = "DEAD" => proc[pid].owner # j
    BY DEF JobsKnow, Owners
  <2>3. \A i \in Pids : proc'[i].owner = proc[i].owner BY <1>4
  <2>4. \A j \in Jobs : job[j].state = "DEAD" => ended'[j] = ended[j] BY <1>5, <2>2
  <2> QED BY <1>1, <2>1, <2>3, <2>4 DEF JobsKnow
<1>9. EmptySlots' BY <1>1 DEF EmptySlots
<1>10. PanesKnow'
  <2> SUFFICES ASSUME "reused" \notin faults', NEW q \in Panes, "STATUSREADY" \in pane'[q].flags
               PROVE  pane'[q].status = ended'[q] /\ \A i \in Pids : proc'[i].owner # q
    BY DEF PanesKnow
  <2>1. pane[q].status = ended[q] /\ \A i \in Pids : proc[i].owner # q
    BY <1>1 DEF PanesKnow
  <2> QED BY ZenonT(60), <1>1, <1>4, <1>5, <2>1
<1> QED BY <1>1, <1>3, <1>7, <1>8, <1>9, <1>10 DEF JobResult

(* SIGCHLD.  The job with this number is the owner of the process, whose   *)
(* status it gets; so is the pane with it, unless the number was used      *)
(* again.                                                                  *)
LEMMA ChildExitedStep ==
  ASSUME IInv, NEW pid \in Pids, server_child_exited(pid)
  PROVE  IInv'
<1> USE Distinct DEF IInv
<1> DEFINE same == {p \in Panes : pane[p].exists /\ pane[p].pid = pid}
           hit == {p \in same : \A o \in same : p <= o}
           dying(p) == [pane[p] EXCEPT !.status = proc[pid].status,
                                       !.flags = @ \cup {"STATUSREADY", "EXITED"}]
           after(p) == DestroyIfReady(dying(p), output[p].unread)
           done == {j \in Jobs : job[j].pid = pid /\ job[j].state = "CLOSED"}
           over == done \cup {p \in Panes : pane[p].exists /\ ~pane'[p].exists}
<1>1. /\ proc[pid].state = "zombie" /\ proc' = [proc EXCEPT ![pid] = NoProc]
      /\ pane' = [p \in Panes |-> IF p \in hit THEN after(p) ELSE pane[p]]
      /\ job' = job_check_died(pid)
  BY ZenonT(60) DEF server_child_exited, PaneDied
<1>2. /\ output' = [x \in DOMAIN output |-> IF x \in over THEN Closed ELSE output[x]]
      /\ ended' = [x \in DOMAIN ended |-> IF x \in over THEN "none" ELSE ended[x]]
  BY ZenonT(60) DEF server_child_exited, PaneDied
<1>3. faults' = faults \cup Fault(\E p \in hit : proc[pid].owner # p, "reused")
                     \cup UNION {Completed(j, proc[pid].status) : j \in done}
  BY ZenonT(60) DEF server_child_exited, PaneDied
<1>4. proc[pid] \in ProcType /\ proc[pid].status \in Statuses BY DEF TypeOK, ProcType
<1>5. ASSUME NEW p \in Panes
      PROVE  /\ p \notin hit => pane'[p] = pane[p]
             /\ p \in hit =>
                  /\ pane[p].exists /\ pane[p].pid = pid
                  /\ \/ pane'[p] = NoPane
                     \/ /\ pane'[p] \in PaneType /\ pane'[p].exists /\ pane'[p].pid = pid
                        /\ pane'[p].status = proc[pid].status
  <2>1. dying(p) \in PaneType /\ dying(p).exists = pane[p].exists /\ dying(p).pid = pane[p].pid
        /\ dying(p).status = proc[pid].status
    BY ZenonT(60), <1>4 DEF TypeOK, PaneType, Flags
  <2>2. after(p) = NoPane \/ Alike(after(p), dying(p))
    <3> HIDE DEF dying
    <3> QED BY <2>1, DestroyIfReadyPane
  <2>3. /\ p \notin hit => pane'[p] = pane[p]
        /\ p \in hit => pane[p].exists /\ pane[p].pid = pid /\ pane'[p] = after(p)
    <3> HIDE DEF after, dying
    <3> QED BY <1>1
  <2> HIDE DEF after, dying, hit
  <2> QED BY <2>1, <2>2, <2>3 DEF Alike
<1>6. ASSUME NEW j \in Jobs
      PROVE  /\ job[j].pid # pid => job'[j] = job[j]
             /\ job[j].pid = pid => /\ proc[pid].owner = j /\ ended[j] = proc[pid].status
                                    /\ j \in done => job'[j] = NoJob
                                    /\ j \notin done => job'[j] = [state |-> "DEAD", pid |-> NoPid,
                                                                  status |-> proc[pid].status]
  <2>1. job[j].pid = pid => proc[pid].owner = j BY DEF JobsKnow
  <2>2. job[j].pid = pid => ended[j] = proc[pid].status BY ZenonT(60), <2>1, <1>1 DEF Owners
  <2>3. job'[j] = IF job[j].pid # pid THEN job[j]
                  ELSE IF job[j].state = "CLOSED" THEN NoJob
                  ELSE [state |-> "DEAD", pid |-> NoPid, status |-> proc[pid].status]
    BY <1>1 DEF job_check_died
  <2> QED BY <2>1, <2>2, <2>3
<1>7. \A j \in done : Completed(j, proc[pid].status) = {}
  BY <1>6 DEF Completed, Fault, JobsKnow
<1>8. /\ faults \subseteq faults' /\ "incomplete" \notin faults'
      /\ "reused" \notin faults' => "reused" \notin faults /\ \A p \in hit : proc[pid].owner = p
  <2>1. UNION {Completed(j, proc[pid].status) : j \in done} = {} BY <1>7
  <2> HIDE DEF hit, done
  <2> QED BY <1>3, <2>1 DEF Fault, JobResult
<1>9. \A p \in Panes : p \in over => p \in hit /\ pane'[p] = NoPane
  <2>1. \A p \in Panes : p \notin Jobs OBVIOUS
  <2> QED BY <1>5, <2>1
<1>10. \A j \in Jobs : j \in over <=> j \in done OBVIOUS
<1>11. \A x \in Panes \cup Jobs : /\ x \in over => output'[x] = Closed /\ ended'[x] = "none"
                                 /\ x \notin over => output'[x] = output[x] /\ ended'[x] = ended[x]
  <2> HIDE DEF over
  <2> QED BY <1>2 DEF TypeOK
<1>12. \A j \in done : job[j].pid = pid /\ j \in Jobs OBVIOUS
<1>13. \A p \in Panes : pane[p].exists /\ ~pane'[p].exists => p \in over OBVIOUS
<1>14. NoPane \in PaneType /\ ~NoPane.exists /\ "STATUSREADY" \notin NoPane.flags
  BY EmptyTypes DEF NoPane
<1>15. /\ proc'[pid] = NoProc /\ NoProc.owner = Nobody /\ NoProc.state = "none"
       /\ \A i \in Pids : i # pid => proc'[i] = proc[i]
  BY <1>1 DEF TypeOK, NoProc
<1>16. output' \in [Panes \cup Jobs -> OutputType] /\ ended' \in [Panes \cup Jobs -> Statuses]
       /\ proc' \in [Pids -> ProcType]
  <2> HIDE DEF over
  <2>1. "none" \in Statuses BY DEF Statuses
  <2> QED BY <1>1, <1>2, <2>1, EmptyTypes DEF TypeOK
<1> HIDE DEF hit, done, over, after, dying, same
<1>17. TypeOK'
  <2>1. pane' \in [Panes -> PaneType]
    <3>1. \A p \in Panes : pane'[p] \in PaneType BY <1>5, <1>14 DEF TypeOK
    <3>2. pane' = [p \in Panes |-> pane'[p]] BY <1>1
    <3> QED BY <3>1, <3>2
  <2>2. job' \in [Jobs -> JobType]
    <3>1. \A j \in Jobs : job'[j] \in JobType
      BY <1>4, <1>6, EmptyTypes DEF TypeOK, JobType
    <3>2. job' = [j \in Jobs |-> job'[j]] BY <1>1 DEF job_check_died
    <3> QED BY <3>1, <3>2
  <2> QED BY <1>16, <2>1, <2>2 DEF TypeOK
<1>18. Owners'
  <2> SUFFICES ASSUME NEW i \in Pids, i # pid
      PROVE  /\ proc[i].state = "none" => proc[i].owner = Nobody
             /\ proc[i].owner \in Panes =>
                  pane'[proc[i].owner].pid = i /\ pane'[proc[i].owner].exists
             /\ proc[i].owner \in Jobs => job'[proc[i].owner].pid = i
             /\ proc[i].state = "zombie" /\ proc[i].owner # Nobody =>
                  ended'[proc[i].owner] = proc[i].status
    BY <1>15 DEF Owners
  <2>1. proc[i].owner \in Panes \cup Jobs \cup {Nobody} BY DEF TypeOK, ProcType
  <2>2. proc[i].owner \in Panes => pane'[proc[i].owner] = pane[proc[i].owner]
    BY <1>5 DEF Owners
  <2>3. proc[i].owner \in Jobs => job'[proc[i].owner] = job[proc[i].owner]
    BY <1>6 DEF Owners
  <2>4. proc[i].owner \in Panes => proc[i].owner \notin over
    BY <1>5, <1>9 DEF Owners
  <2>5. proc[i].owner \in Jobs => proc[i].owner \notin over
    BY <1>10, <1>12 DEF Owners
  <2> QED BY <1>11, <2>1, <2>2, <2>3, <2>4, <2>5 DEF Owners
<1>19. JobsKnow'
  <2> SUFFICES ASSUME NEW j \in Jobs
      PROVE  /\ job'[j].pid # NoPid => proc'[job'[j].pid].owner = j
             /\ job'[j].pid # NoPid <=> job'[j].state \in {"RUNNING", "CLOSED"}
             /\ job'[j].state = "CLOSED" => ~output'[j].open
             /\ job'[j].state = "DEAD" => job'[j].status = ended'[j]
    BY DEF JobsKnow
  <2>1. CASE job[j].pid # pid
    <3>1. job'[j] = job[j] /\ j \notin over BY <2>1, <1>6, <1>10, <1>12
    <3>2. job[j].pid \in Pids \cup {NoPid} BY DEF TypeOK, JobType
    <3> QED BY <2>1, <3>1, <3>2, <1>11, <1>15 DEF JobsKnow
  <2>2. CASE job[j].pid = pid /\ j \in done BY <2>2, <1>6 DEF NoJob
  <2>3. CASE job[j].pid = pid /\ j \notin done BY <2>3, <1>6, <1>10, <1>11
  <2> QED BY <2>1, <2>2, <2>3
<1>20. EmptySlots' BY <1>5 DEF EmptySlots
<1>21. PanesKnow'
  <2> SUFFICES ASSUME "reused" \notin faults', NEW q \in Panes, "STATUSREADY" \in pane'[q].flags
               PROVE  pane'[q].status = ended'[q] /\ \A i \in Pids : proc'[i].owner # q
    BY DEF PanesKnow
  <2>1. q \notin over BY <1>9, <1>14
  <2>2. CASE q \notin hit
    <3>1. pane'[q] = pane[q] BY <2>2, <1>5
    <3>2. pane[q].status = ended[q] /\ \A i \in Pids : proc[i].owner # q
      BY <3>1, <1>8 DEF PanesKnow
    <3> QED BY <3>1, <3>2, <2>1, <1>11, <1>15
  <2>3. CASE q \in hit
    <3>1. proc[pid].owner = q BY <2>3, <1>8
    <3>2. ended[q] = proc[pid].status BY <3>1, <1>1 DEF Owners
    <3>3. pane'[q].status = proc[pid].status BY <2>3, <1>5, <1>14
    <3>4. \A i \in Pids : i # pid => proc[i].owner # q BY <2>3, <1>5 DEF Owners
    <3> QED BY <3>2, <3>3, <3>4, <2>1, <1>11, <1>15
  <2> QED BY <2>2, <2>3
<1> QED BY <1>8, <1>17, <1>18, <1>19, <1>20, <1>21 DEF JobResult

-----------------------------------------------------------------------------
(* Every step preserves the invariant.                                     *)
LEMMA NextIInv == IInv /\ [Next]_vars => IInv'
<1> SUFFICES ASSUME IInv, [Next]_vars PROVE IInv' OBVIOUS
<1>1. CASE UNCHANGED vars
  BY <1>1 DEF vars, IInv, TypeOK, Owners, JobsKnow, EmptySlots, PanesKnow, JobResult
<1>2. ASSUME NEW p \in Panes,
             \/ PaneCallback(p)
             \/ window_pane_error_callback(p, TRUE)
             \/ server_kill_pane(p)
             \/ server_client_handle_key(p)
             \/ cmd_pipe_pane_read_callback(p)
             \/ cmd_pipe_pane_error_callback(p)
      PROVE  IInv'
  BY <1>2, PaneReadStep, DeathStep DEF PaneCallback
<1>3. ASSUME NEW p \in Panes, NEW r \in Remains, SetRemain(p, r) PROVE IInv'
  BY <1>3, SetRemainStep
<1>4. ASSUME NEW p \in Panes, NEW pid \in Pids, NEW r \in Remains, spawn_pane(p, pid, r) PROVE IInv'
  BY <1>4, SpawnStep
<1>5. ASSUME NEW p \in Panes, NEW kill \in BOOLEAN, NEW pid \in Pids, cmd_respawn_pane(p, kill, pid)
      PROVE  IInv'
  BY <1>5, RespawnStep
<1>6. ASSUME NEW p \in Panes, NEW kill \in BOOLEAN, cmd_respawn_pane_fails(p, kill) PROVE IInv'
  BY <1>6, RespawnFailsStep
<1>7. ASSUME NEW p \in Panes, NEW kind \in Pipes \cup {"none"}, cmd_pipe_pane(p, kind) PROVE IInv'
  BY <1>7, PipeStep
<1>8. ASSUME NEW p \in Panes, ProcessWrites(p) PROVE IInv' BY <1>8, OutputStep
<1>9. ASSUME NEW j \in Jobs, NEW pid \in Pids, job_run(j, pid) PROVE IInv' BY <1>9, RunStep
<1>10. ASSUME NEW j \in Jobs, job_error_callback(j) PROVE IInv' BY <1>10, JobErrorStep
<1>11. ASSUME NEW j \in Jobs, job_free(j) PROVE IInv'
  BY <1>11, FreeStep DEF job_free
<1>12. ASSUME NEW j \in Jobs, NEW p \in Panes, NEW r \in Remains, popup_make_pane(j, p, r) PROVE IInv'
  BY <1>12, PopupStep
<1>13. ASSUME NEW x \in Panes \cup Jobs, OutputCloses(x) PROVE IInv' BY <1>13, OutputStep
<1>14. ASSUME NEW pid \in Pids, NEW status \in {"ok", "failed"}, ProcessExits(pid, status)
       PROVE  IInv'
  BY <1>14, ExitsStep
<1>15. ASSUME NEW pid \in Pids, server_child_exited(pid) PROVE IInv' BY <1>15, ChildExitedStep
<1> QED
  BY <1>1, <1>2, <1>3, <1>4, <1>5, <1>6, <1>7, <1>8, <1>9, <1>10, <1>11, <1>12, <1>13, <1>14, <1>15
  DEF Next

LEMMA Invariance == Spec => []IInv
BY InitIInv, NextIInv, PTL DEF Spec

(* Every record keeps its shape.                                           *)
THEOREM TypeCorrect == Spec => []TypeOK
<1>1. IInv => TypeOK BY DEF IInv
<1> QED BY <1>1, Invariance, PTL

(* The status of a dead pane, which decides whether it is kept, is that of *)
(* its own process, through respawns, popups made panes and SIGCHLD in any *)
(* order, until the number of a dead process is used again for another.    *)
THEOREM StatusIsOwnHolds == Spec => []StatusIsOwn
<1>1. IInv => StatusIsOwn BY DEF IInv, PanesKnow, StatusIsOwn
<1> QED BY <1>1, Invariance, PTL

(* A job completes with the status of its own process and only when its    *)
(* output has ended, whichever of SIGCHLD and the end of the output came   *)
(* first.                                                                  *)
THEOREM JobResultHolds == Spec => []JobResult
<1>1. IInv => JobResult BY DEF IInv
<1> QED BY <1>1, Invariance, PTL


-----------------------------------------------------------------------------
(* Messages: About(T, s) are those of a type in T for stream s.            *)
DownTypes == {"WRITE_OPEN", "WRITE", "WRITE_CLOSE", "READ_OPEN", "READ_CANCEL", "EXIT"}
UpTypes == {"WRITE_READY", "READ", "READ_DONE"}
Down == {m \in [type : DownTypes, stream : Streams \cup {0}, error : BOOLEAN] :
            m.type = "EXIT" <=> m.stream = 0}
Up == [type : UpTypes, stream : Streams, error : BOOLEAN]
About(T, s) == {m \in Down \cup Up : m.type \in T /\ m.stream = s}
ToClient(T, s) == Among(down, About(T, s))
ToServer(T, s) == Among(up, About(T, s))
Prints == About({"WRITE"}, STDOUT)
Refused == {m \in About({"WRITE_READY"}, STDOUT) : m.error}

ServerFile == [kind : {"write", "read", "input"}, buffer : Nat, error : BOOLEAN, closed : BOOLEAN]
ClientFile == [mode : {"read", "write"}, event : BOOLEAN, output : Nat]

(* A table of streams.                                                     *)
Table(table, Entry) ==
    DOMAIN table \subseteq Streams /\ \A s \in DOMAIN table : table[s] \in Entry

(* What the two processes and the queues between them hold.                *)
FileTypes ==
    /\ Table(files, ServerFile) /\ IsFiniteSet(DOMAIN files)
    /\ Table(cfiles, ClientFile) /\ Table(finished, ServerFile)
    /\ gone \subseteq Files /\ due \in Seq(Streams)
    /\ phase \in {"loop", "peer", "due"} /\ handled \in BOOLEAN /\ pollout \in BOOLEAN
    /\ exit \in {"no", "EXIT", "EXITED"} /\ dead \in BOOLEAN
    /\ client \in {"running", "exited", "killed", "unknown write", "unknown cancel"}
    /\ exitflag \in BOOLEAN /\ broken \in BOOLEAN /\ reused \in BOOLEAN
    /\ printed \in 0 .. MaxPrint /\ written \in Nat /\ reads \in 0 .. MaxReads
    /\ down \in Seq(Down) /\ up \in Seq(Up)

(* A stream is written or read, never both.                                *)
IsRead(s) ==
    \/ ToClient({"READ_OPEN", "READ_CANCEL"}, s)
    \/ ToServer({"READ", "READ_DONE"}, s)
    \/ s \in DOMAIN cfiles /\ cfiles[s].mode = "read"
    \/ s \in DOMAIN files /\ files[s].kind # "write"
IsWritten(s) ==
    \/ ToClient({"WRITE_OPEN", "WRITE", "WRITE_CLOSE"}, s)
    \/ ToServer({"WRITE_READY"}, s)
    \/ s \in DOMAIN cfiles /\ (cfiles[s].mode = "write" \/ cfiles[s].output > 0)
    \/ s \in DOMAIN files /\ files[s].kind = "write"

(* The life of a file that is written: open, ready, data, close.           *)
Life(s) ==
    /\ IsRead(s) => ~IsWritten(s)
    /\ IsRead(s) \/ IsWritten(s) => s \in DOMAIN files \cup gone
    /\ ToClient({"WRITE_OPEN"}, s) =>
          s \notin DOMAIN cfiles /\ ~ToServer({"WRITE_READY"}, s)
    /\ Bars(down, About({"WRITE_OPEN"}, s), About(DownTypes, s))
    /\ ToServer({"WRITE_READY"}, s) =>
          s \in DOMAIN cfiles /\ ~ToClient(DownTypes, s)
    /\ Bars(up, About({"WRITE_READY"}, s), About({"WRITE_READY"}, s))
    /\ ToClient({"WRITE", "WRITE_CLOSE"}, s) => s \in DOMAIN cfiles
    /\ Bars(down, About({"WRITE_CLOSE"}, s), About(DownTypes, s))

(* Standard output is opened before anything is printed, and never closed. *)
StdoutLife ==
    /\ ~IsRead(STDOUT) /\ ~ToClient({"WRITE_CLOSE"}, STDOUT)
    /\ STDOUT \notin DOMAIN cfiles => Precedes(down, About({"WRITE_OPEN"}, STDOUT), Prints)
    /\ STDOUT \in DOMAIN files /\ ~dead => STDOUT \in DOMAIN cfiles \/ ToClient({"WRITE_OPEN"}, STDOUT)
    /\ Among(up, Refused) => broken
    /\ STDOUT \in ToSet(due) => broken \/ dead
    /\ STDOUT \in DOMAIN cfiles /\ ~cfiles[STDOUT].event => broken

(* What was printed is written, waits somewhere, or is lost.               *)
OutputLeft == IF STDOUT \in DOMAIN cfiles THEN cfiles[STDOUT].output ELSE 0
BufferLeft == IF STDOUT \in DOMAIN files THEN files[STDOUT].buffer ELSE 0
OutputTotal == written + OutputLeft + Occurs(down, Prints) + BufferLeft
Account ==
    /\ OutputTotal <= printed
    /\ client = "running" /\ ~broken => OutputTotal = printed

(* The exit is behind all that was printed, on both sides.                 *)
Exiting ==
    /\ exit = "EXITED" => \A s \in DOMAIN files : files[s].buffer = 0
    /\ ToClient({"EXIT"}, 0) => exit = "EXITED"
    /\ Bars(down, About({"EXIT"}, 0), Prints)
    /\ exitflag => exit = "EXITED" /\ ~ToClient({"WRITE"}, STDOUT)
    /\ client = "exited" => exitflag
    /\ dead => client # "running" /\ down = <<>>

(* A file that waits for its callback has failed or is empty.              *)
Done ==
    /\ gone \cap DOMAIN files = {}
    /\ DOMAIN finished \subseteq gone
    /\ \A s \in ToSet(due) \cap Files : s \in DOMAIN files \cup gone
    /\ \A s \in ToSet(due) \cap Files \cap DOMAIN files :
          files[s].kind = "write" /\ ~files[s].error => files[s].buffer = 0

(* The inductive invariant of FileSpec.                                    *)
FileInv ==
    /\ FileTypes /\ \A s \in Files : Life(s)
    /\ StdoutLife /\ Account /\ Exiting /\ Done
    /\ OutputComplete /\ SuccessMeansSent

-----------------------------------------------------------------------------
LEMMA AboutIs ==
  ASSUME NEW m \in Down \cup Up, NEW T, NEW s
  PROVE  m \in About(T, s) <=> m.type \in T /\ m.stream = s
  BY DEF About

LEMMA StreamFacts ==
  /\ STDOUT \notin Files /\ 0 \notin Streams /\ STDOUT \in Streams /\ Files \subseteq Streams
  /\ \A s \in Files : s > 2 /\ s \in Nat
  BY FilesAssumption DEF STDOUT, Streams

(* A message to the client is sent.                                        *)
LEMMA DownSent ==
  ASSUME FileTypes, NEW x \in Down, down' = Append(down, x)
  PROVE  /\ down' \in Seq(Down)
         /\ \A T, t : ToClient(T, t)' <=> ToClient(T, t) \/ (x.type \in T /\ x.stream = t)
         /\ \A T, t, S, u : Bars(down, About(T, t), About(S, u)) /\ (~ToClient(T, t) \/ x.type \notin S \/ x.stream # u)
               => Bars(down', About(T, t), About(S, u))
         /\ \A T, t, S, u : Precedes(down, About(T, t), About(S, u)) /\ (ToClient(T, t) \/ x.type \notin S \/ x.stream # u)
               => Precedes(down', About(T, t), About(S, u))
         /\ Occurs(down, Prints) \in Nat /\ Occurs(down', Prints) \in Nat
         /\ Occurs(down', Prints) = Occurs(down, Prints) + IF x.type = "WRITE" /\ x.stream = STDOUT THEN 1 ELSE 0
<1>0. down \in Seq(Down) BY DEF FileTypes
<1>1. \A T, t : x \in About(T, t) <=> x.type \in T /\ x.stream = t BY AboutIs
<1>2. <<x>> \in Seq(Down) /\ down' = down \o <<x>> BY <1>0, AppendIsConcat
<1>3. \A A, B : (Among(<<x>>, A) <=> x \in A) /\ Bars(<<x>>, A, B) BY OrderOne
<1>4. /\ down \o <<x>> \in Seq(Down)
      /\ \A A : Among(down \o <<x>>, A) <=> Among(down, A) \/ Among(<<x>>, A)
      /\ \A A, B : Bars(down, A, B) /\ Bars(<<x>>, A, B) /\ (~Among(down, A) \/ ~Among(<<x>>, B)) => Bars(down \o <<x>>, A, B)
      /\ \A A, B : Precedes(down, A, B) /\ (Among(down, A) \/ ~Among(<<x>>, B)) => Precedes(down \o <<x>>, A, B)
  BY <1>0, <1>2, OrderConcat
<1>5. Occurs(down', Prints) = Occurs(down, Prints) + IF x \in Prints THEN 1 ELSE 0 BY <1>0, OccursAppend
<1>6. x \in Prints <=> x.type = "WRITE" /\ x.stream = STDOUT BY <1>1 DEF Prints
<1>7. \A T, t : ToClient(T, t)' <=> ToClient(T, t) \/ (x.type \in T /\ x.stream = t)
  <2> TAKE T, t
  <2>1. Among(<<x>>, About(T, t)) <=> x.type \in T /\ x.stream = t BY <1>1, <1>3
  <2> QED BY <1>2, <1>4, <2>1 DEF ToClient
<1>8. \A T, t, S, u : Bars(down, About(T, t), About(S, u)) /\ (~ToClient(T, t) \/ x.type \notin S \/ x.stream # u)
               => Bars(down', About(T, t), About(S, u))
  <2> TAKE T, t, S, u
  <2>1. Among(<<x>>, About(S, u)) <=> x.type \in S /\ x.stream = u BY <1>1, <1>3
  <2>2. Bars(<<x>>, About(T, t), About(S, u)) BY <1>3
  <2> QED BY <1>2, <1>4, <2>1, <2>2 DEF ToClient
<1>9. \A T, t, S, u : Precedes(down, About(T, t), About(S, u)) /\ (ToClient(T, t) \/ x.type \notin S \/ x.stream # u)
               => Precedes(down', About(T, t), About(S, u))
  <2> TAKE T, t, S, u
  <2>1. Among(<<x>>, About(S, u)) <=> x.type \in S /\ x.stream = u BY <1>1, <1>3
  <2> QED BY <1>2, <1>4, <2>1 DEF ToClient
<1>10. Occurs(down, Prints) \in Nat /\ Occurs(down', Prints) \in Nat BY <1>0, <1>2, <1>4, OccursType
<1> QED BY <1>2, <1>4, <1>5, <1>6, <1>7, <1>8, <1>9, <1>10

(* A message to the client is received.                                    *)
LEMMA DownTaken ==
  ASSUME FileTypes, down # <<>>, down' = Tail(down), NEW x, x = Head(down)
  PROVE  /\ x \in Down /\ down' \in Seq(Down)
         /\ \A T, t : ToClient(T, t) <=> ToClient(T, t)' \/ (x.type \in T /\ x.stream = t)
         /\ \A T, t, S, u : Bars(down, About(T, t), About(S, u)) => Bars(down', About(T, t), About(S, u))
         /\ \A T, t, S, u : Bars(down, About(T, t), About(S, u)) /\ x.type \in T /\ x.stream = t => ~ToClient(S, u)'
         /\ \A T, t, S, u : Precedes(down, About(T, t), About(S, u)) /\ ~(x.type \in T /\ x.stream = t)
               => ~(x.type \in S /\ x.stream = u) /\ Precedes(down', About(T, t), About(S, u))
         /\ Occurs(down, Prints) \in Nat /\ Occurs(down', Prints) \in Nat
         /\ Occurs(down, Prints) = Occurs(down', Prints) + IF x.type = "WRITE" /\ x.stream = STDOUT THEN 1 ELSE 0
<1>0. down \in Seq(Down) BY DEF FileTypes
<1>1. /\ x \in Down /\ down' \in Seq(Down)
      /\ \A A : Among(down, A) <=> x \in A \/ Among(down', A)
      /\ \A A, B : Bars(down, A, B) => Bars(down', A, B) /\ (x \in A => ~Among(down', B))
      /\ \A A, B : Precedes(down, A, B) /\ x \notin A => x \notin B /\ Precedes(down', A, B)
  BY <1>0, OrderTail
<1>2. Occurs(down, Prints) = Occurs(down', Prints) + IF x \in Prints THEN 1 ELSE 0 BY <1>0, OccursTail
<1>3. \A T, t : x \in About(T, t) <=> x.type \in T /\ x.stream = t BY <1>1, AboutIs
<1>4. x \in Prints <=> x.type = "WRITE" /\ x.stream = STDOUT BY <1>3 DEF Prints
<1>5. \A T, t : ToClient(T, t) <=> ToClient(T, t)' \/ (x.type \in T /\ x.stream = t) BY <1>1, <1>3 DEF ToClient
<1>6. \A T, t, S, u : Bars(down, About(T, t), About(S, u)) => Bars(down', About(T, t), About(S, u)) BY <1>1
<1>7. \A T, t, S, u : Bars(down, About(T, t), About(S, u)) /\ x.type \in T /\ x.stream = t => ~ToClient(S, u)'
  BY <1>1, <1>3 DEF ToClient
<1>8. \A T, t, S, u : Precedes(down, About(T, t), About(S, u)) /\ ~(x.type \in T /\ x.stream = t)
               => ~(x.type \in S /\ x.stream = u) /\ Precedes(down', About(T, t), About(S, u))
  BY <1>1, <1>3
<1>9. Occurs(down, Prints) \in Nat /\ Occurs(down', Prints) \in Nat BY <1>0, <1>1, OccursType
<1> QED BY <1>1, <1>2, <1>4, <1>5, <1>6, <1>7, <1>8, <1>9

(* A message to the server is sent.                                        *)
LEMMA UpSent ==
  ASSUME FileTypes, NEW x \in Up, up' = Append(up, x)
  PROVE  /\ up' \in Seq(Up)
         /\ \A T, t : ToServer(T, t)' <=> ToServer(T, t) \/ (x.type \in T /\ x.stream = t)
         /\ \A T, t, S, u : Bars(up, About(T, t), About(S, u)) /\ (~ToServer(T, t) \/ x.type \notin S \/ x.stream # u)
               => Bars(up', About(T, t), About(S, u))
         /\ Among(up', Refused) <=> Among(up, Refused) \/ (x.type = "WRITE_READY" /\ x.stream = STDOUT /\ x.error)
<1>0. up \in Seq(Up) BY DEF FileTypes
<1>1. \A T, t : x \in About(T, t) <=> x.type \in T /\ x.stream = t BY AboutIs
<1>2. <<x>> \in Seq(Up) /\ up' = up \o <<x>> BY <1>0, AppendIsConcat
<1>3. \A A, B : (Among(<<x>>, A) <=> x \in A) /\ Bars(<<x>>, A, B) BY OrderOne
<1>4. /\ up \o <<x>> \in Seq(Up)
      /\ \A A : Among(up \o <<x>>, A) <=> Among(up, A) \/ Among(<<x>>, A)
      /\ \A A, B : Bars(up, A, B) /\ Bars(<<x>>, A, B) /\ (~Among(up, A) \/ ~Among(<<x>>, B)) => Bars(up \o <<x>>, A, B)
  BY <1>0, <1>2, OrderConcat
<1>5. x \in Refused <=> x.type = "WRITE_READY" /\ x.stream = STDOUT /\ x.error
  BY <1>1 DEF Refused
<1>7. \A T, t : ToServer(T, t)' <=> ToServer(T, t) \/ (x.type \in T /\ x.stream = t)
  <2> TAKE T, t
  <2>1. Among(<<x>>, About(T, t)) <=> x.type \in T /\ x.stream = t BY <1>1, <1>3
  <2> QED BY <1>2, <1>4, <2>1 DEF ToServer
<1>8. \A T, t, S, u : Bars(up, About(T, t), About(S, u)) /\ (~ToServer(T, t) \/ x.type \notin S \/ x.stream # u)
               => Bars(up', About(T, t), About(S, u))
  <2> TAKE T, t, S, u
  <2>1. Among(<<x>>, About(S, u)) <=> x.type \in S /\ x.stream = u BY <1>1, <1>3
  <2>2. Bars(<<x>>, About(T, t), About(S, u)) BY <1>3
  <2> QED BY <1>2, <1>4, <2>1, <2>2 DEF ToServer
<1> QED BY <1>2, <1>3, <1>4, <1>5, <1>7, <1>8

(* A message to the server is received.                                    *)
LEMMA UpTaken ==
  ASSUME FileTypes, up # <<>>, up' = Tail(up), NEW x, x = Head(up)
  PROVE  /\ x \in Up /\ up' \in Seq(Up)
         /\ \A T, t : ToServer(T, t) <=> ToServer(T, t)' \/ (x.type \in T /\ x.stream = t)
         /\ \A T, t, S, u : Bars(up, About(T, t), About(S, u)) => Bars(up', About(T, t), About(S, u))
         /\ \A T, t, S, u : Bars(up, About(T, t), About(S, u)) /\ x.type \in T /\ x.stream = t => ~ToServer(S, u)'
         /\ Among(up, Refused) <=> Among(up', Refused) \/ (x.type = "WRITE_READY" /\ x.stream = STDOUT /\ x.error)
<1>0. up \in Seq(Up) BY DEF FileTypes
<1>1. /\ x \in Up /\ up' \in Seq(Up)
      /\ \A A : Among(up, A) <=> x \in A \/ Among(up', A)
      /\ \A A, B : Bars(up, A, B) => Bars(up', A, B) /\ (x \in A => ~Among(up', B))
  BY <1>0, OrderTail
<1>3. \A T, t : x \in About(T, t) <=> x.type \in T /\ x.stream = t BY <1>1, AboutIs
<1>4. x \in Refused <=> x.type = "WRITE_READY" /\ x.stream = STDOUT /\ x.error BY <1>3 DEF Refused
<1>5. \A T, t : ToServer(T, t) <=> ToServer(T, t)' \/ (x.type \in T /\ x.stream = t) BY <1>1, <1>3 DEF ToServer
<1>6. \A T, t, S, u : Bars(up, About(T, t), About(S, u)) => Bars(up', About(T, t), About(S, u)) BY <1>1
<1>7. \A T, t, S, u : Bars(up, About(T, t), About(S, u)) /\ x.type \in T /\ x.stream = t => ~ToServer(S, u)'
  BY <1>1, <1>3 DEF ToServer
<1> QED BY <1>1, <1>4, <1>5, <1>6, <1>7

(* A message to the client has one of the types of such messages.          *)
LEMMA AnyType ==
  ASSUME NEW q \in Seq(Down), NEW T, NEW s, Among(q, About(T, s))
  PROVE  Among(q, About(DownTypes, s))
<1>1. PICK i \in DOMAIN q : q[i] \in About(T, s) BY DEF Among
<1>2. q[i] \in Down BY <1>1, LenProperties, ElementOfSeq
<1>3. q[i] \in About(DownTypes, s) BY <1>1, <1>2 DEF About, Down
<1> QED BY <1>1, <1>3 DEF Among

Counted ==
    /\ Occurs(down, Prints) \in Nat /\ (Occurs(down, Prints) = 0 <=> ~ToClient({"WRITE"}, STDOUT))
    /\ OutputLeft \in Nat /\ BufferLeft \in Nat /\ OutputTotal \in Nat /\ written \in Nat /\ printed \in Nat

LEMMA Counts == FileTypes => Counted
<1> SUFFICES ASSUME FileTypes PROVE Counted OBVIOUS
<1>1. down \in Seq(Down) BY DEF FileTypes
<1>2. Occurs(down, Prints) \in Nat BY <1>1, OccursType
<1>3. Occurs(down, Prints) = 0 <=> ~ToClient({"WRITE"}, STDOUT)
  <2>1. Occurs(down, Prints) = 0 <=> \A x \in ToSet(down) : x \notin Prints BY <1>1, OccursNone
  <2> QED BY <2>1 DEF Among, ToSet, ToClient, Prints
<1>4. OutputLeft \in Nat
  <2>1. \A s \in DOMAIN cfiles : cfiles[s].output \in Nat BY DEF FileTypes, Table, ClientFile
  <2> QED BY <2>1 DEF OutputLeft
<1>5. BufferLeft \in Nat
  <2>1. \A s \in DOMAIN files : files[s].buffer \in Nat BY DEF FileTypes, Table, ServerFile
  <2> QED BY <2>1 DEF BufferLeft
<1>6. written \in Nat /\ printed \in Nat
  <2>1. printed \in 0 .. MaxPrint /\ written \in Nat BY DEF FileTypes
  <2> QED BY <2>1, BoundsNat
<1> QED BY <1>2, <1>3, <1>4, <1>5, <1>6 DEF OutputTotal, Counted

LEMMA CountsNext == (FileTypes => Counted)'
  BY Counts, PTL

(* A step that sends nothing new about a stream, and leaves its entries.   *)
Untouched(t) ==
    /\ \A T : ToClient(T, t)' => ToClient(T, t)
    /\ \A T : ToServer(T, t)' => ToServer(T, t)
    /\ \A T, S : Bars(down, About(T, t), About(S, t)) => Bars(down', About(T, t), About(S, t))
    /\ \A T, S : Bars(up, About(T, t), About(S, t)) => Bars(up', About(T, t), About(S, t))
    /\ t \in DOMAIN cfiles' <=> t \in DOMAIN cfiles
    /\ t \in DOMAIN cfiles' => cfiles'[t].mode = cfiles[t].mode
    /\ t \in DOMAIN cfiles' /\ cfiles[t].mode # "write" => cfiles'[t].output = cfiles[t].output
    /\ t \in DOMAIN files' => t \in DOMAIN files /\ files'[t].kind = files[t].kind
    /\ t \in Files /\ t \in DOMAIN files \cup gone => t \in DOMAIN files' \cup gone'

LEMMA KeptReads ==
  ASSUME NEW t, Untouched(t)
  PROVE  (IsRead(t)' => IsRead(t)) /\ (IsWritten(t)' => IsWritten(t))
  BY DEF Untouched, IsRead, IsWritten

LEMMA LifeKept ==
  ASSUME NEW t \in Files, Life(t), Untouched(t)
  PROVE  Life(t)'
<1>1. (IsRead(t)' => IsRead(t)) /\ (IsWritten(t)' => IsWritten(t)) BY KeptReads
<1>2. /\ (IsRead(t) => ~IsWritten(t))'
      /\ (IsRead(t) \/ IsWritten(t) => t \in DOMAIN files \cup gone)'
  BY <1>1 DEF Life, Untouched
<1>3. /\ (ToClient({"WRITE_OPEN"}, t) => t \notin DOMAIN cfiles /\ ~ToServer({"WRITE_READY"}, t))'
      /\ (ToServer({"WRITE_READY"}, t) => t \in DOMAIN cfiles /\ ~ToClient(DownTypes, t))'
      /\ (ToClient({"WRITE", "WRITE_CLOSE"}, t) => t \in DOMAIN cfiles)'
  BY DEF Life, Untouched
<1>4. /\ Bars(down, About({"WRITE_OPEN"}, t), About(DownTypes, t))'
      /\ Bars(up, About({"WRITE_READY"}, t), About({"WRITE_READY"}, t))'
      /\ Bars(down, About({"WRITE_CLOSE"}, t), About(DownTypes, t))'
  BY DEF Life, Untouched
<1> QED BY <1>2, <1>3, <1>4 DEF Life

(* A step about one stream, s.                                             *)
LEMMA LifeElsewhere ==
  ASSUME FileInv, NEW s, \A t \in Streams : t # s => Untouched(t), s \in Files => Untouched(s) \/ Life(s)'
  PROVE  \A t \in Files : Life(t)'
<1>1. \A t \in Files : Life(t) /\ t \in Streams BY StreamFacts DEF FileInv
<1>2. ASSUME NEW t \in Files, Untouched(t) PROVE Life(t)' BY <1>1, <1>2, LifeKept
<1> QED BY <1>1, <1>2

LEMMA StdoutKept ==
  ASSUME FileInv, Untouched(STDOUT),
         Precedes(down, About({"WRITE_OPEN"}, STDOUT), Prints) => Precedes(down', About({"WRITE_OPEN"}, STDOUT), Prints),
         ToClient({"WRITE_OPEN"}, STDOUT) /\ ~dead' => ToClient({"WRITE_OPEN"}, STDOUT)',
         STDOUT \in DOMAIN cfiles' => cfiles'[STDOUT].event = cfiles[STDOUT].event,
         Among(up', Refused) => Among(up, Refused),
         UNCHANGED broken, dead => dead', STDOUT \in ToSet(due') /\ ~dead' => STDOUT \in ToSet(due)
  PROVE  StdoutLife'
<1>1. StdoutLife BY DEF FileInv
<1>2. (~IsRead(STDOUT))' BY <1>1, KeptReads DEF StdoutLife
<1>3. (~ToClient({"WRITE_CLOSE"}, STDOUT))' BY <1>1 DEF StdoutLife, Untouched
<1>4. (STDOUT \notin DOMAIN cfiles => Precedes(down, About({"WRITE_OPEN"}, STDOUT), Prints))' BY <1>1 DEF StdoutLife, Untouched
<1>5. (STDOUT \in DOMAIN files /\ ~dead => STDOUT \in DOMAIN cfiles \/ ToClient({"WRITE_OPEN"}, STDOUT))' BY <1>1 DEF StdoutLife, Untouched
<1>6. (STDOUT \in ToSet(due) => broken \/ dead)' BY <1>1 DEF StdoutLife
<1>7. (Among(up, Refused) => broken)' /\ (STDOUT \in DOMAIN cfiles /\ ~cfiles[STDOUT].event => broken)' BY <1>1 DEF StdoutLife, Untouched
<1> QED BY <1>2, <1>3, <1>4, <1>5, <1>6, <1>7 DEF StdoutLife

(* A step about a stream that is read.                                     *)
LEMMA ReadStep ==
  ASSUME FileInv, NEW s \in Streams, IsRead(s)
  PROVE  /\ s \in Files /\ ~IsWritten(s) /\ s \in DOMAIN files \cup gone
         /\ (\A t \in Streams : t # s => Untouched(t)) /\ ~IsWritten(s)' /\ (s \in DOMAIN files \cup gone)'
               => \A t \in Files : Life(t)'
<1>1. s \in Files BY DEF FileInv, StdoutLife, Streams
<1>2. Life(s) BY <1>1 DEF FileInv
<1>3. ~IsWritten(s) /\ s \in DOMAIN files \cup gone BY <1>2 DEF Life
<1>4. ASSUME ~IsWritten(s)', (s \in DOMAIN files \cup gone)' PROVE Life(s)'
  <2>1. /\ ~ToClient({"WRITE_OPEN"}, s)' /\ ~ToClient({"WRITE", "WRITE_CLOSE"}, s)' /\ ~ToClient({"WRITE_CLOSE"}, s)'
        /\ ~ToServer({"WRITE_READY"}, s)'
    BY <1>4 DEF IsWritten, ToClient, Among, About
  <2>2. /\ Bars(down', About({"WRITE_OPEN"}, s), About(DownTypes, s))
        /\ Bars(up', About({"WRITE_READY"}, s), About({"WRITE_READY"}, s))
        /\ Bars(down', About({"WRITE_CLOSE"}, s), About(DownTypes, s))
    BY <2>1, OrderNone DEF ToClient, ToServer
  <2> QED BY <1>4, <2>1, <2>2 DEF Life
<1> QED BY <1>1, <1>3, <1>4, LifeElsewhere

(* The client has nothing left to write.                                   *)
LEMMA Leaving ==
  ASSUME FileTypes', Exiting', exitflag', \A t \in DOMAIN cfiles' : cfiles'[t].output = 0
  PROVE  OutputTotal' = written'
<1>1. OutputLeft' = 0 BY DEF OutputLeft
<1>2. BufferLeft' = 0 BY DEF Exiting, BufferLeft
<1>3. Occurs(down', Prints) = 0 /\ written' \in Nat
  <2>1. ~ToClient({"WRITE"}, STDOUT)' /\ down' \in Seq(Down) /\ written' \in Nat BY DEF Exiting, FileTypes
  <2>2. Occurs(down', Prints) = 0 <=> \A x \in ToSet(down') : x \notin Prints BY <2>1, OccursNone
  <2> QED BY <2>1, <2>2 DEF Among, ToSet, ToClient, Prints
<1>4. OutputTotal' = written' + OutputLeft' + Occurs(down', Prints) + BufferLeft' BY ONLY DEF OutputTotal
<1>5. OutputTotal' = written' + 0 + 0 + 0 BY ONLY Zenon, <1>1, <1>2, <1>3, <1>4
<1>6. \A n \in Nat : n + 0 + 0 + 0 = n OBVIOUS
<1> QED BY ONLY Zenon, <1>3, <1>5, <1>6

-----------------------------------------------------------------------------
(* The client receives a message.                                          *)
LEMMA ReceivingFacts ==
  ASSUME FileInv, NEW type \in DownTypes, Receiving(type), NEW m, m = Head(down)
  PROVE  /\ client = "running" /\ m \in Down /\ m.type = type
         /\ UNCHANGED <<files, gone, due, exit, dead, phase, handled, pollout, printed, reads, finished, reused>>
         /\ down # <<>> /\ down' = Tail(down)
         /\ type # "EXIT" => m.stream \in Streams
         /\ type = "EXIT" => m.stream = 0
         /\ Done' /\ SuccessMeansSent'
<1>1. /\ client = "running" /\ down # <<>> /\ m.type = type /\ down' = Tail(down)
      /\ UNCHANGED <<files, gone, due, exit, dead, phase, handled, pollout, printed, reads, finished, reused>>
  BY DEF Receiving, servervars, turnvars
<1>2. m \in Down BY <1>1, DownTaken DEF FileInv
<1>3. (type # "EXIT" => m.stream \in Streams) /\ (type = "EXIT" => m.stream = 0)
  BY <1>1, <1>2, StreamFacts DEF Down
<1>4. Done' /\ SuccessMeansSent' BY <1>1 DEF FileInv, Done, SuccessMeansSent
<1> QED BY <1>1, <1>2, <1>3, <1>4

(* What waits in the queue stays in order.                                 *)
LEMMA ExitingTaken ==
  ASSUME FileInv, down # <<>>, down' = Tail(down), UNCHANGED <<exit, exitflag, dead, files>>,
         client = "running", client' = "exited" => exitflag
  PROVE  Exiting'
<1>1. Exiting /\ FileTypes BY DEF FileInv
<1>2. /\ \A T, t : ToClient(T, t)' => ToClient(T, t)
      /\ Bars(down, About({"EXIT"}, 0), Prints) => Bars(down', About({"EXIT"}, 0), Prints)
  BY <1>1, DownTaken DEF Prints
<1>3. ~dead BY <1>1 DEF Exiting
<1> QED BY <1>1, <1>2, <1>3 DEF Exiting

LEMMA WriteOpenStep ==
  ASSUME FileInv, NEW b \in BOOLEAN, file_write_open(b)
  PROVE  FileInv'
<1> DEFINE m == Head(down)
           s == m.stream
           r == Msg("WRITE_READY", s, ~(s \notin DOMAIN cfiles /\ b))
<1>1. /\ Receiving("WRITE_OPEN")
      /\ UNCHANGED <<client, exitflag, written>>
      /\ up' = Append(up, r)
      /\ broken' = (broken \/ (s = STDOUT /\ r.error))
      /\ r.error = (s \in DOMAIN cfiles \/ ~b)
      /\ s \in DOMAIN cfiles => cfiles' = cfiles
      /\ s \notin DOMAIN cfiles => cfiles' = With(cfiles, s, Opened("write", b))
  BY DEF file_write_open, Msg
<1>2. /\ client = "running" /\ m \in Down /\ m.type = "WRITE_OPEN" /\ s \in Streams
      /\ UNCHANGED <<files, gone, due, exit, dead, phase, handled, pollout, printed, reads, finished, reused>>
      /\ down # <<>> /\ down' = Tail(down)
      /\ Done' /\ SuccessMeansSent'
  BY <1>1, ReceivingFacts DEF DownTypes
<1>3. /\ FileTypes /\ StdoutLife /\ Account /\ OutputComplete BY DEF FileInv
<1>4. r \in Up /\ r.type = "WRITE_READY" /\ r.stream = s BY <1>2 DEF Msg, Up, UpTypes
<1> HIDE DEF m, r
<1>5. /\ down' \in Seq(Down)
      /\ \A T, t : ToClient(T, t) <=> ToClient(T, t)' \/ ("WRITE_OPEN" \in T /\ s = t)
      /\ \A T, t, S, u : Bars(down, About(T, t), About(S, u)) => Bars(down', About(T, t), About(S, u))
      /\ \A T, t, S, u : Bars(down, About(T, t), About(S, u)) /\ "WRITE_OPEN" \in T /\ s = t => ~ToClient(S, u)'
      /\ Precedes(down, About({"WRITE_OPEN"}, STDOUT), Prints) /\ s # STDOUT => Precedes(down', About({"WRITE_OPEN"}, STDOUT), Prints)
      /\ Occurs(down, Prints) = Occurs(down', Prints)
  BY <1>2, <1>3, DownTaken DEF m, Prints
<1>6. /\ up' \in Seq(Up)
      /\ \A T, t : ToServer(T, t)' <=> ToServer(T, t) \/ ("WRITE_READY" \in T /\ s = t)
      /\ \A T, t, S, u : Bars(up, About(T, t), About(S, u)) /\ (~ToServer(T, t) \/ s # u) => Bars(up', About(T, t), About(S, u))
      /\ Among(up', Refused) <=> Among(up, Refused) \/ (s = STDOUT /\ r.error)
  BY <1>1, <1>3, <1>4, UpSent
<1> DEFINE new == Opened("write", b)
<1>7. new \in ClientFile /\ new.mode = "write" /\ new.output = 0 /\ new.event = b
  BY DEF Opened, ClientFile
<1> HIDE DEF new, s
<1>8. /\ DOMAIN cfiles' = DOMAIN cfiles \cup {s}
      /\ \A t \in DOMAIN cfiles : cfiles'[t] = cfiles[t]
      /\ s \notin DOMAIN cfiles => cfiles'[s] = new
  <2>1. CASE s \in DOMAIN cfiles BY <1>1, <2>1
  <2>2. CASE s \notin DOMAIN cfiles
    <3>1. cfiles' = With(cfiles, s, new) BY <1>1, <2>2 DEF new
    <3>2. DOMAIN cfiles' = DOMAIN cfiles \cup {s} /\ cfiles'[s] = new BY <3>1 DEF With
    <3>3. \A t \in DOMAIN cfiles : t # s => cfiles'[t] = cfiles[t] BY <3>1 DEF With
    <3> QED BY <2>2, <3>2, <3>3
  <2> QED BY <2>1, <2>2
<1>20. FileTypes'
  <2>1. Table(cfiles, ClientFile)' BY <1>2, <1>3, <1>7, <1>8 DEF FileTypes, Table
  <2>2. broken' \in BOOLEAN BY <1>1, <1>3 DEF FileTypes
  <2> QED BY <1>1, <1>2, <1>3, <1>5, <1>6, <2>1, <2>2 DEF FileTypes, Table
<1>21. ASSUME NEW t \in Streams, t # s PROVE Untouched(t)
  BY <1>2, <1>5, <1>6, <1>8, <1>21 DEF Untouched
<1>22. ASSUME NEW t \in Files PROVE Life(t)'
  <2>1. Life(t) BY DEF FileInv
  <2>2. CASE t = s
    <3>1. /\ ToClient({"WRITE_OPEN"}, t) /\ ToClient({"WRITE_OPEN", "WRITE", "WRITE_CLOSE"}, t) BY <1>5, <2>2
    <3>2. ~ToClient(DownTypes, t)' BY <1>5, <2>1, <2>2 DEF Life
    <3>3. \A T : ~ToClient(T, t)' BY <1>5, <3>2, AnyType DEF ToClient
    <3>4. /\ IsWritten(t) /\ ~IsRead(t) /\ t \in DOMAIN files \cup gone
          /\ t \notin DOMAIN cfiles /\ ~ToServer({"WRITE_READY"}, t)
      BY <3>1, <2>1 DEF Life, IsWritten
    <3>5. ~IsRead(t)'
      BY <1>2, <1>5, <1>6, <1>7, <1>8, <2>2, <3>3, <3>4 DEF IsRead
    <3> QED BY <1>2, <1>5, <1>6, <1>8, <2>1, <2>2, <3>3, <3>4, <3>5 DEF Life
  <2>3. CASE t # s BY <2>1, <2>3, <1>21, LifeKept, StreamFacts
  <2> QED BY <2>2, <2>3
<1>23. StdoutLife'
  <2>1. ~IsRead(STDOUT)'
    <3>1. ~IsRead(STDOUT) BY <1>3 DEF StdoutLife
    <3> QED BY <1>2, <1>5, <1>6, <1>7, <1>8, <3>1 DEF IsRead
  <2>2. (~ToClient({"WRITE_CLOSE"}, STDOUT))' /\ (STDOUT \in ToSet(due) => broken \/ dead)'
    BY <1>1, <1>2, <1>3, <1>5 DEF StdoutLife
  <2>3. (STDOUT \notin DOMAIN cfiles => Precedes(down, About({"WRITE_OPEN"}, STDOUT), Prints))'
    BY <1>2, <1>3, <1>5, <1>8 DEF StdoutLife
  <2>4. (STDOUT \in DOMAIN files /\ ~dead => STDOUT \in DOMAIN cfiles \/ ToClient({"WRITE_OPEN"}, STDOUT))'
    BY <1>2, <1>3, <1>5, <1>8 DEF StdoutLife
  <2>5. (Among(up, Refused) => broken)'
    BY <1>1, <1>3, <1>6 DEF StdoutLife
  <2>6. (STDOUT \in DOMAIN cfiles /\ ~cfiles[STDOUT].event => broken)'
    BY <1>1, <1>3, <1>7, <1>8 DEF StdoutLife
  <2> QED BY <2>1, <2>2, <2>3, <2>4, <2>5, <2>6 DEF StdoutLife
<1>24. Account'
  <2>1. OutputLeft' = OutputLeft BY <1>7, <1>8 DEF OutputLeft
  <2>2. BufferLeft' = BufferLeft BY <1>2 DEF BufferLeft
  <2> QED BY <1>1, <1>2, <1>3, <1>5, <2>1, <2>2 DEF Account, OutputTotal
<1>25. Exiting' BY <1>1, <1>2, ExitingTaken
<1>26. OutputComplete' BY <1>1, <1>2, <1>3 DEF OutputComplete
<1> QED BY <1>2, <1>20, <1>22, <1>23, <1>24, <1>25, <1>26 DEF FileInv

LEMMA WriteDataStep ==
  ASSUME FileInv, file_write_data
  PROVE  FileInv'
<1> DEFINE m == Head(down)
           s == m.stream
<1>1. /\ Receiving("WRITE") /\ UNCHANGED <<exitflag, up, written, broken>>
      /\ s \notin DOMAIN cfiles \/ UNCHANGED client
      /\ s \in DOMAIN cfiles => cfiles' = IF cfiles[s].event THEN [cfiles EXCEPT ![s].output = @ + 1] ELSE cfiles
  BY DEF file_write_data
<1>2. /\ client = "running" /\ m \in Down /\ m.type = "WRITE" /\ s \in Streams
      /\ UNCHANGED <<files, gone, due, exit, dead, phase, handled, pollout, printed, reads, finished, reused>>
      /\ down # <<>> /\ down' = Tail(down)
      /\ Done' /\ SuccessMeansSent'
  BY <1>1, ReceivingFacts DEF DownTypes
<1>3. /\ FileTypes /\ StdoutLife /\ Account /\ OutputComplete BY DEF FileInv
<1> HIDE DEF m
<1>4. /\ down' \in Seq(Down)
      /\ \A T, t : ToClient(T, t) <=> ToClient(T, t)' \/ ("WRITE" \in T /\ s = t)
      /\ \A T, t, S, u : Bars(down, About(T, t), About(S, u)) => Bars(down', About(T, t), About(S, u))
      /\ Precedes(down, About({"WRITE_OPEN"}, STDOUT), Prints) => s # STDOUT /\ Precedes(down', About({"WRITE_OPEN"}, STDOUT), Prints)
      /\ Occurs(down, Prints) \in Nat /\ Occurs(down', Prints) \in Nat
      /\ Occurs(down, Prints) = Occurs(down', Prints) + IF s = STDOUT THEN 1 ELSE 0
  BY <1>2, <1>3, DownTaken DEF m, Prints
<1> HIDE DEF s
<1>5. s \in DOMAIN cfiles
  <2>1. CASE s = STDOUT BY <2>1, <1>3, <1>4 DEF StdoutLife
  <2>2. CASE s \in Files BY <2>2, <1>4 DEF FileInv, Life
  <2> QED BY <1>2, <2>1, <2>2 DEF Streams
<1>6. cfiles[s].mode = "write"
  <2>1. IsWritten(s) BY <1>4 DEF IsWritten
  <2>2. ~IsRead(s) BY <2>1, <1>2, <1>3 DEF FileInv, Life, StdoutLife, Streams
  <2> QED BY <1>3, <1>5, <2>2 DEF IsRead, FileTypes, Table, ClientFile
<1>7. /\ DOMAIN cfiles' = DOMAIN cfiles
      /\ \A t \in DOMAIN cfiles : cfiles'[t].mode = cfiles[t].mode /\ cfiles'[t].event = cfiles[t].event
      /\ \A t \in DOMAIN cfiles : t # s => cfiles'[t] = cfiles[t]
      /\ cfiles'[s].output = IF cfiles[s].event THEN cfiles[s].output + 1 ELSE cfiles[s].output
      /\ cfiles'[s] \in ClientFile
  <2>1. cfiles[s] \in ClientFile BY <1>3, <1>5 DEF FileTypes, Table
  <2>2. CASE ~cfiles[s].event BY <1>1, <1>5, <2>1, <2>2
  <2>3. CASE cfiles[s].event
    <3>1. cfiles' = [cfiles EXCEPT ![s].output = @ + 1] BY <1>1, <1>5, <2>3
    <3>2. cfiles'[s] = [cfiles[s] EXCEPT !.output = @ + 1] /\ DOMAIN cfiles' = DOMAIN cfiles BY <3>1, <1>5
    <3>3. \A t \in DOMAIN cfiles : t # s => cfiles'[t] = cfiles[t] BY <3>1
    <3>4. /\ cfiles'[s] \in ClientFile /\ cfiles'[s].output = cfiles[s].output + 1
          /\ cfiles'[s].mode = cfiles[s].mode /\ cfiles'[s].event = cfiles[s].event
      BY <3>2, <2>1 DEF ClientFile
    <3> QED BY <2>3, <3>2, <3>3, <3>4
  <2> QED BY <2>2, <2>3
<1>20. FileTypes'
  <2>1. Table(cfiles, ClientFile)' BY <1>2, <1>3, <1>7 DEF FileTypes, Table
  <2> QED BY <1>1, <1>2, <1>3, <1>4, <1>5, <2>1 DEF FileTypes, Table
<1>21. \A t \in Streams : Untouched(t)
  BY <1>1, <1>2, <1>4, <1>6, <1>7 DEF Untouched, ToServer
<1>22. \A t \in Files : Life(t)' BY <1>2, <1>21, LifeElsewhere
<1>23. StdoutLife' BY <1>1, <1>2, <1>4, <1>7, <1>21, StdoutKept, StreamFacts
<1>24. Account'
  <2>1. CASE s = STDOUT
    <3>1. OutputLeft' = OutputLeft + 1 \/ (OutputLeft' = OutputLeft /\ broken)
      BY <1>3, <1>5, <1>7, <2>1 DEF OutputLeft, StdoutLife
    <3>2. BufferLeft' = BufferLeft BY <1>2 DEF BufferLeft
    <3>3. Occurs(down, Prints) = Occurs(down', Prints) + 1 BY <1>4, <2>1
    <3>4. OutputTotal' = OutputTotal \/ (broken /\ OutputTotal = OutputTotal' + 1)
      BY <1>1, <1>3, <1>20, <3>1, <3>2, <3>3, Counts, CountsNext DEF Counted, OutputTotal
    <3> QED BY <1>1, <1>2, <1>3, <1>5, <1>20, <3>4, Counts, CountsNext DEF Account, Counted
  <2>2. CASE s # STDOUT
    <3>1. OutputLeft' = OutputLeft BY <1>7, <2>2 DEF OutputLeft
    <3>2. BufferLeft' = BufferLeft BY <1>2 DEF BufferLeft
    <3>3. Occurs(down, Prints) = Occurs(down', Prints) BY <1>4, <2>2
    <3> QED BY <1>1, <1>2, <1>3, <1>5, <3>1, <3>2, <3>3 DEF Account, OutputTotal
  <2> QED BY <2>1, <2>2
<1>25. Exiting' BY <1>1, <1>2, <1>5, ExitingTaken
<1>26. OutputComplete' BY <1>1, <1>2, <1>3, <1>5 DEF OutputComplete
<1> QED BY <1>2, <1>20, <1>22, <1>23, <1>24, <1>25, <1>26 DEF FileInv

LEMMA WriteCloseStep ==
  ASSUME FileInv, file_write_close, NEW s, s = Head(down).stream
  PROVE  FileInv'
<1> DEFINE m == Head(down)
<1>1. /\ Receiving("WRITE_CLOSE") /\ UNCHANGED <<exitflag, up, written, broken>>
      /\ s \notin DOMAIN cfiles \/ UNCHANGED client
      /\ s \in DOMAIN cfiles => cfiles' = IF cfiles[s].output = 0 THEN Without(cfiles, s) ELSE cfiles
  BY DEF file_write_close
<1>2. /\ client = "running" /\ m \in Down /\ m.type = "WRITE_CLOSE" /\ s \in Streams
      /\ UNCHANGED <<files, gone, due, exit, dead, phase, handled, pollout, printed, reads, finished, reused>>
      /\ down # <<>> /\ down' = Tail(down)
      /\ Done' /\ SuccessMeansSent'
  BY <1>1, ReceivingFacts DEF DownTypes
<1>3. /\ FileTypes /\ StdoutLife /\ Account /\ OutputComplete BY DEF FileInv
<1>4. /\ down' \in Seq(Down)
      /\ \A T, t : ToClient(T, t) <=> ToClient(T, t)' \/ ("WRITE_CLOSE" \in T /\ s = t)
      /\ \A T, t, S, u : Bars(down, About(T, t), About(S, u)) => Bars(down', About(T, t), About(S, u))
      /\ \A T, t, S, u : Bars(down, About(T, t), About(S, u)) /\ "WRITE_CLOSE" \in T /\ s = t => ~ToClient(S, u)'
      /\ Precedes(down, About({"WRITE_OPEN"}, STDOUT), Prints) => Precedes(down', About({"WRITE_OPEN"}, STDOUT), Prints)
      /\ Occurs(down, Prints) = Occurs(down', Prints)
  BY <1>2, <1>3, DownTaken DEF Prints
<1> HIDE DEF m
<1>5. /\ s # STDOUT /\ s \in Files /\ s \in DOMAIN cfiles
      /\ ~ToServer({"WRITE_READY"}, s) /\ ~IsRead(s) /\ s \in DOMAIN files \cup gone /\ Life(s)
  <2>1. s \in Files BY <1>2, <1>3, <1>4 DEF StdoutLife, Streams
  <2>2. Life(s) /\ IsWritten(s) /\ ToClient({"WRITE", "WRITE_CLOSE"}, s) /\ ToClient(DownTypes, s)
    BY <2>1, <1>4 DEF FileInv, IsWritten, DownTypes
  <2> QED BY <2>1, <2>2, StreamFacts DEF Life
<1>6. /\ DOMAIN cfiles' = DOMAIN cfiles \ {s} \/ cfiles' = cfiles
      /\ \A t \in DOMAIN cfiles' : t \in DOMAIN cfiles /\ cfiles'[t] = cfiles[t]
  BY <1>1, <1>5 DEF Without
<1>20. FileTypes'
  <2>1. Table(cfiles, ClientFile)' BY <1>3, <1>6 DEF FileTypes, Table
  <2> QED BY <1>1, <1>2, <1>3, <1>4, <1>5, <2>1 DEF FileTypes, Table
<1>21. ASSUME NEW t \in Streams, t # s PROVE Untouched(t)
  BY <1>1, <1>2, <1>4, <1>6, <1>21 DEF Untouched, ToServer
<1>22. \A t \in Files : Life(t)'
  <2>1. \A T : ~ToClient(T, s)'
    <3>1. ~ToClient(DownTypes, s)' BY <1>4, <1>5 DEF Life
    <3> QED BY <1>4, <3>1, AnyType DEF ToClient
  <2>2. ~IsRead(s)' BY <1>1, <1>2, <1>5, <1>6, <2>1 DEF IsRead, ToServer
  <2>3. Life(s)' BY <1>1, <1>2, <1>4, <1>5, <2>1, <2>2 DEF Life, ToServer
  <2> QED BY <1>21, <2>3, LifeElsewhere
<1>23. StdoutLife' BY <1>1, <1>2, <1>4, <1>5, <1>6, <1>21, StdoutKept, StreamFacts
<1>24. Account'
  <2>1. OutputLeft' = OutputLeft BY <1>5, <1>6 DEF OutputLeft
  <2>2. BufferLeft' = BufferLeft BY <1>2 DEF BufferLeft
  <2> QED BY <1>1, <1>2, <1>3, <1>4, <1>5, <2>1, <2>2 DEF Account, OutputTotal
<1>25. Exiting' BY <1>1, <1>2, <1>5, ExitingTaken
<1>26. OutputComplete' BY <1>1, <1>2, <1>3, <1>5 DEF OutputComplete
<1> QED BY <1>2, <1>20, <1>22, <1>23, <1>24, <1>25, <1>26 DEF FileInv

LEMMA ReadOpenStep ==
  ASSUME FileInv, NEW b \in BOOLEAN, file_read_open(b), NEW s, s = Head(down).stream
  PROVE  FileInv'
<1> DEFINE m == Head(down)
           r == Msg("READ_DONE", s, TRUE)
           new == Opened("read", b)
<1>1. /\ Receiving("READ_OPEN") /\ UNCHANGED <<client, exitflag, written, broken>>
      /\ cfiles' = IF s \in DOMAIN cfiles THEN cfiles ELSE With(cfiles, s, new)
      /\ UNCHANGED up \/ up' = Append(up, r)
  BY DEF file_read_open
<1>2. /\ client = "running" /\ m \in Down /\ m.type = "READ_OPEN" /\ s \in Streams
      /\ UNCHANGED <<files, gone, due, exit, dead, phase, handled, pollout, printed, reads, finished, reused>>
      /\ down # <<>> /\ down' = Tail(down)
      /\ Done' /\ SuccessMeansSent'
  BY <1>1, ReceivingFacts DEF DownTypes
<1>3. /\ FileTypes /\ StdoutLife /\ Account /\ OutputComplete BY DEF FileInv
<1>4. r \in Up /\ r.type = "READ_DONE" /\ r.stream = s BY <1>2 DEF Msg, Up, UpTypes
<1>5. new \in ClientFile /\ new.mode = "read" /\ new.output = 0 BY DEF Opened, ClientFile
<1> HIDE DEF r, new
<1>6. /\ down' \in Seq(Down)
      /\ \A T, t : ToClient(T, t) <=> ToClient(T, t)' \/ ("READ_OPEN" \in T /\ s = t)
      /\ \A T, t, S, u : Bars(down, About(T, t), About(S, u)) => Bars(down', About(T, t), About(S, u))
      /\ Precedes(down, About({"WRITE_OPEN"}, STDOUT), Prints) => Precedes(down', About({"WRITE_OPEN"}, STDOUT), Prints)
      /\ Occurs(down, Prints) = Occurs(down', Prints)
  BY <1>2, <1>3, DownTaken DEF Prints
<1> HIDE DEF m
<1>7. /\ up' \in Seq(Up)
      /\ \A T, t : ToServer(T, t)' => ToServer(T, t) \/ ("READ_DONE" \in T /\ s = t)
      /\ \A T, t, S : t # s /\ Bars(up, About(T, t), About(S, t)) => Bars(up', About(T, t), About(S, t))
      /\ Among(up', Refused) => Among(up, Refused)
  <2>1. CASE UNCHANGED up BY <2>1, <1>3 DEF ToServer, FileTypes
  <2>2. CASE up' = Append(up, r) BY <1>3, <1>4, <2>2, UpSent
  <2> QED BY <1>1, <2>1, <2>2
<1>8. /\ s \in Files /\ ~IsWritten(s) /\ s \in DOMAIN files \cup gone
      /\ (\A t \in Streams : t # s => Untouched(t)) /\ ~IsWritten(s)' /\ (s \in DOMAIN files \cup gone)'
               => \A t \in Files : Life(t)'
  <2>1. IsRead(s) BY <1>6 DEF IsRead
  <2> QED BY <1>2, <2>1, ReadStep
<1>9. /\ DOMAIN cfiles' = DOMAIN cfiles \cup {s}
      /\ \A t \in DOMAIN cfiles : cfiles'[t] = cfiles[t]
      /\ s \notin DOMAIN cfiles => cfiles'[s] = new
  <2>1. CASE s \in DOMAIN cfiles BY <1>1, <2>1
  <2>2. CASE s \notin DOMAIN cfiles
    <3>1. cfiles' = With(cfiles, s, new) BY <1>1, <2>2
    <3>2. DOMAIN cfiles' = DOMAIN cfiles \cup {s} /\ cfiles'[s] = new BY <3>1 DEF With
    <3>3. \A t \in DOMAIN cfiles : t # s => cfiles'[t] = cfiles[t] BY <3>1 DEF With
    <3> QED BY <2>2, <3>2, <3>3
  <2> QED BY <2>1, <2>2
<1>20. FileTypes'
  <2>1. Table(cfiles, ClientFile)' BY <1>2, <1>3, <1>5, <1>9 DEF FileTypes, Table
  <2> QED BY <1>1, <1>2, <1>3, <1>6, <1>7, <2>1 DEF FileTypes, Table
<1>21. ASSUME NEW t \in Streams, t # s PROVE Untouched(t)
  BY <1>2, <1>6, <1>7, <1>9, <1>21 DEF Untouched
<1>22. \A t \in Files : Life(t)'
  <2>1. ~IsWritten(s)' BY <1>2, <1>5, <1>6, <1>7, <1>8, <1>9 DEF IsWritten
  <2> QED BY <1>2, <1>8, <1>21, <2>1
<1>23. StdoutLife' BY <1>1, <1>2, <1>6, <1>7, <1>8, <1>9, <1>21, StdoutKept, StreamFacts
<1>24. Account'
  <2>1. OutputLeft' = OutputLeft BY <1>8, <1>9, StreamFacts DEF OutputLeft
  <2>2. BufferLeft' = BufferLeft BY <1>2 DEF BufferLeft
  <2> QED BY <1>1, <1>2, <1>3, <1>6, <2>1, <2>2 DEF Account, OutputTotal
<1>25. Exiting' BY <1>1, <1>2, ExitingTaken
<1>26. OutputComplete' BY <1>1, <1>2, <1>3 DEF OutputComplete
<1> QED BY <1>2, <1>20, <1>22, <1>23, <1>24, <1>25, <1>26 DEF FileInv

LEMMA ReadCancelStep ==
  ASSUME FileInv, file_read_cancel, NEW s, s = Head(down).stream
  PROVE  FileInv'
<1> DEFINE m == Head(down)
           r == Msg("READ_DONE", s, FALSE)
<1>1. /\ Receiving("READ_CANCEL") /\ UNCHANGED <<exitflag, written, broken>>
      /\ \/ client' = "unknown cancel" /\ UNCHANGED <<cfiles, up>>
         \/ UNCHANGED client /\ up' = Append(up, r) /\ cfiles' = Without(cfiles, s)
  BY DEF file_read_cancel
<1>2. /\ client = "running" /\ m \in Down /\ m.type = "READ_CANCEL" /\ s \in Streams
      /\ UNCHANGED <<files, gone, due, exit, dead, phase, handled, pollout, printed, reads, finished, reused>>
      /\ down # <<>> /\ down' = Tail(down)
      /\ Done' /\ SuccessMeansSent'
  BY <1>1, ReceivingFacts DEF DownTypes
<1>3. /\ FileTypes /\ StdoutLife /\ Account /\ OutputComplete BY DEF FileInv
<1>4. r \in Up /\ r.type = "READ_DONE" /\ r.stream = s BY <1>2 DEF Msg, Up, UpTypes
<1> HIDE DEF r
<1>6. /\ down' \in Seq(Down)
      /\ \A T, t : ToClient(T, t) <=> ToClient(T, t)' \/ ("READ_CANCEL" \in T /\ s = t)
      /\ \A T, t, S, u : Bars(down, About(T, t), About(S, u)) => Bars(down', About(T, t), About(S, u))
      /\ Precedes(down, About({"WRITE_OPEN"}, STDOUT), Prints) => Precedes(down', About({"WRITE_OPEN"}, STDOUT), Prints)
      /\ Occurs(down, Prints) = Occurs(down', Prints)
  BY <1>2, <1>3, DownTaken DEF Prints
<1> HIDE DEF m
<1>7. /\ up' \in Seq(Up)
      /\ \A T, t : ToServer(T, t)' => ToServer(T, t) \/ ("READ_DONE" \in T /\ s = t)
      /\ \A T, t, S : t # s /\ Bars(up, About(T, t), About(S, t)) => Bars(up', About(T, t), About(S, t))
      /\ Among(up', Refused) => Among(up, Refused)
  <2>1. CASE UNCHANGED up BY <2>1, <1>3 DEF ToServer, FileTypes
  <2>2. CASE up' = Append(up, r) BY <1>3, <1>4, <2>2, UpSent
  <2> QED BY <1>1, <2>1, <2>2
<1>8. /\ s \in Files /\ ~IsWritten(s) /\ s \in DOMAIN files \cup gone
      /\ (\A t \in Streams : t # s => Untouched(t)) /\ ~IsWritten(s)' /\ (s \in DOMAIN files \cup gone)'
               => \A t \in Files : Life(t)'
  <2>1. IsRead(s) BY <1>6 DEF IsRead
  <2> QED BY <1>2, <2>1, ReadStep
<1>9. /\ \A t : t # s => (t \in DOMAIN cfiles' <=> t \in DOMAIN cfiles)
      /\ \A t \in DOMAIN cfiles' : t \in DOMAIN cfiles /\ cfiles'[t] = cfiles[t]
  BY <1>1 DEF Without
<1>20. FileTypes'
  <2>1. Table(cfiles, ClientFile)' BY <1>3, <1>9 DEF FileTypes, Table
  <2> QED BY ZenonT(60), <1>1, <1>2, <1>3, <1>6, <1>7, <2>1 DEF FileTypes, Table
<1>21. ASSUME NEW t \in Streams, t # s PROVE Untouched(t)
  BY <1>2, <1>6, <1>7, <1>9, <1>21 DEF Untouched
<1>22. \A t \in Files : Life(t)'
  <2>1. ~IsWritten(s)' BY <1>2, <1>6, <1>7, <1>8, <1>9 DEF IsWritten
  <2> QED BY <1>2, <1>8, <1>21, <2>1
<1>23. StdoutLife' BY <1>1, <1>2, <1>6, <1>7, <1>8, <1>9, <1>21, StdoutKept, StreamFacts
<1>24. Account'
  <2>1. OutputLeft' = OutputLeft BY <1>8, <1>9, StreamFacts DEF OutputLeft
  <2>2. BufferLeft' = BufferLeft BY <1>2 DEF BufferLeft
  <2> QED BY <1>1, <1>2, <1>3, <1>6, <2>1, <2>2 DEF Account, OutputTotal
<1>25. Exiting' BY <1>1, <1>2, ExitingTaken
<1>26. OutputComplete' BY <1>1, <1>2, <1>3 DEF OutputComplete
<1> QED BY <1>2, <1>20, <1>22, <1>23, <1>24, <1>25, <1>26 DEF FileInv

(* The client exits if it was told to and everything is written: then      *)
(* what was printed has been.                                              *)
LEMMA ExitStep ==
  ASSUME FileInv, FileTypes', Exiting', Account', client = "running",
         ExitIfWritten(cfiles', exitflag'), OutputTotal' = OutputTotal \/ broken',
         UNCHANGED printed, broken => broken'
  PROVE  OutputComplete'
<1>1. CASE client' = "exited" /\ ~broken'
  <2>1. exitflag' /\ \A t \in DOMAIN cfiles' : cfiles'[t].output = 0
    BY <1>1 DEF ExitIfWritten
  <2>2. OutputTotal' = written' BY <2>1, Leaving
  <2>3. OutputTotal = printed BY <1>1 DEF FileInv, Account
  <2> QED BY <1>1, <2>2, <2>3 DEF OutputComplete
<1>2. CASE client' # "exited" \/ broken'
  BY <1>2 DEF OutputComplete, ExitIfWritten
<1> QED BY <1>1, <1>2

LEMMA DispatchExitStep ==
  ASSUME FileInv, client_dispatch_exit
  PROVE  FileInv'
<1> DEFINE m == Head(down)
<1>1. /\ Receiving("EXIT") /\ UNCHANGED <<cfiles, up, written, broken>>
      /\ exitflag' = TRUE /\ ExitIfWritten(cfiles', exitflag')
      /\ client' \in {client, "exited"}
  BY DEF client_dispatch_exit, ExitIfWritten
<1>2. /\ client = "running" /\ m \in Down /\ m.type = "EXIT" /\ m.stream = 0
      /\ UNCHANGED <<files, gone, due, exit, dead, phase, handled, pollout, printed, reads, finished, reused>>
      /\ down # <<>> /\ down' = Tail(down)
      /\ Done' /\ SuccessMeansSent'
  BY <1>1, ReceivingFacts DEF DownTypes
<1>3. /\ FileTypes /\ StdoutLife /\ Account /\ Exiting BY DEF FileInv
<1>4. /\ down' \in Seq(Down)
      /\ \A T, t : ToClient(T, t) <=> ToClient(T, t)' \/ ("EXIT" \in T /\ t = 0)
      /\ \A T, t, S, u : Bars(down, About(T, t), About(S, u)) => Bars(down', About(T, t), About(S, u))
      /\ Bars(down, About({"EXIT"}, 0), Prints) => ~ToClient({"WRITE"}, STDOUT)'
      /\ Precedes(down, About({"WRITE_OPEN"}, STDOUT), Prints) => Precedes(down', About({"WRITE_OPEN"}, STDOUT), Prints)
      /\ Occurs(down, Prints) = Occurs(down', Prints)
  BY <1>2, <1>3, DownTaken DEF Prints
<1> HIDE DEF m
<1>20. FileTypes'
  BY <1>1, <1>2, <1>3, <1>4 DEF FileTypes, Table
<1>21. \A t \in Streams : Untouched(t)
  BY <1>1, <1>2, <1>4, StreamFacts DEF Untouched, ToServer
<1>22. \A t \in Files : Life(t)' BY <1>21, LifeElsewhere, StreamFacts
<1>23. StdoutLife' BY <1>1, <1>2, <1>4, <1>21, StdoutKept, StreamFacts
<1>24. Account' /\ OutputTotal' = OutputTotal
  <2>1. OutputLeft' = OutputLeft /\ BufferLeft' = BufferLeft BY <1>1, <1>2 DEF OutputLeft, BufferLeft
  <2> QED BY <1>1, <1>2, <1>3, <1>4, <2>1 DEF Account, OutputTotal
<1>25. Exiting'
  <2>1. ToClient({"EXIT"}, 0) /\ exit = "EXITED" /\ ~dead BY <1>2, <1>3, <1>4 DEF Exiting
  <2> QED BY <1>1, <1>2, <1>3, <1>4, <2>1 DEF Exiting, Prints
<1>26. OutputComplete' BY <1>1, <1>2, <1>20, <1>24, <1>25, ExitStep
<1> QED BY <1>2, <1>20, <1>22, <1>23, <1>24, <1>25, <1>26 DEF FileInv

LEMMA ReadCallbackStep ==
  ASSUME FileInv, NEW s \in Streams, file_read_callback(s)
  PROVE  FileInv'
<1> DEFINE r == Msg("READ", s, FALSE)
<1>1. /\ client = "running" /\ up' = Append(up, r) /\ reads' \in 0 .. MaxReads
      /\ s \in DOMAIN cfiles /\ cfiles[s].mode = "read"
      /\ UNCHANGED <<files, gone, due, exit, dead, phase, handled, pollout, printed, finished, reused>>
      /\ UNCHANGED <<cfiles, client, exitflag, written, broken, down>>
  BY BoundsNat DEF file_read_callback, Reading, servervars, turnvars, clientvars, FileInv, FileTypes
<1>2. r \in Up /\ r.type = "READ" /\ r.stream = s BY DEF Msg, Up, UpTypes
<1>3. FileTypes BY DEF FileInv
<1> HIDE DEF r
<1>4. /\ up' \in Seq(Up)
      /\ \A T, t : ToServer(T, t)' <=> ToServer(T, t) \/ ("READ" \in T /\ s = t)
      /\ \A T, t, S : t # s /\ Bars(up, About(T, t), About(S, t)) => Bars(up', About(T, t), About(S, t))
      /\ Among(up', Refused) => Among(up, Refused)
  BY <1>1, <1>2, <1>3, UpSent
<1>5. /\ s \in Files /\ ~IsWritten(s) /\ s \in DOMAIN files \cup gone
      /\ (\A t \in Streams : t # s => Untouched(t)) /\ ~IsWritten(s)' /\ (s \in DOMAIN files \cup gone)'
               => \A t \in Files : Life(t)'
  <2>1. IsRead(s) BY <1>1 DEF IsRead
  <2> QED BY <2>1, ReadStep
<1>6. FileTypes' BY <1>1, <1>3, <1>4 DEF FileTypes, Table
<1>7. ASSUME NEW t \in Streams, t # s PROVE Untouched(t)
  BY <1>1, <1>4, <1>7 DEF Untouched, ToClient
<1>8. \A t \in Files : Life(t)'
  <2>1. ~IsWritten(s)' BY <1>1, <1>4, <1>5 DEF IsWritten, ToClient
  <2> QED BY <1>1, <1>5, <1>7, <2>1
<1>9. StdoutLife' BY <1>1, <1>4, <1>5, <1>7, StdoutKept, StreamFacts DEF ToClient
<1>10. Account' BY <1>1 DEF FileInv, Account, OutputTotal, OutputLeft, BufferLeft
<1>11. Exiting' /\ Done' BY <1>1 DEF FileInv, Exiting, Done, ToClient
<1>12. OutputComplete' /\ SuccessMeansSent' BY <1>1 DEF FileInv, OutputComplete, SuccessMeansSent
<1> QED BY <1>6, <1>8, <1>9, <1>10, <1>11, <1>12 DEF FileInv

LEMMA ReadErrorCallbackStep ==
  ASSUME FileInv, NEW s \in Streams, NEW b \in BOOLEAN, file_read_error_callback(s, b)
  PROVE  FileInv'
<1> DEFINE r == Msg("READ_DONE", s, b)
<1>1. /\ client = "running" /\ up' = Append(up, r) /\ cfiles' = Without(cfiles, s)
      /\ s \in DOMAIN cfiles /\ cfiles[s].mode = "read"
      /\ UNCHANGED <<files, gone, due, exit, dead, phase, handled, pollout, printed, reads, finished, reused>>
      /\ UNCHANGED <<client, exitflag, written, broken, down>>
  BY DEF file_read_error_callback, Reading, servervars, turnvars, history
<1>2. r \in Up /\ r.type = "READ_DONE" /\ r.stream = s BY DEF Msg, Up, UpTypes
<1>3. FileTypes BY DEF FileInv
<1> HIDE DEF r
<1>4. /\ up' \in Seq(Up)
      /\ \A T, t : ToServer(T, t)' <=> ToServer(T, t) \/ ("READ_DONE" \in T /\ s = t)
      /\ \A T, t, S : t # s /\ Bars(up, About(T, t), About(S, t)) => Bars(up', About(T, t), About(S, t))
      /\ Among(up', Refused) => Among(up, Refused)
  BY <1>1, <1>2, <1>3, UpSent
<1>5. /\ s \in Files /\ ~IsWritten(s) /\ s \in DOMAIN files \cup gone
      /\ (\A t \in Streams : t # s => Untouched(t)) /\ ~IsWritten(s)' /\ (s \in DOMAIN files \cup gone)'
               => \A t \in Files : Life(t)'
  <2>1. IsRead(s) BY <1>1 DEF IsRead
  <2> QED BY <2>1, ReadStep
<1>6. /\ \A t : t # s => (t \in DOMAIN cfiles' <=> t \in DOMAIN cfiles)
      /\ \A t \in DOMAIN cfiles' : t # s /\ t \in DOMAIN cfiles /\ cfiles'[t] = cfiles[t]
  BY <1>1 DEF Without
<1>7. FileTypes' BY <1>1, <1>3, <1>4, <1>6 DEF FileTypes, Table
<1>8. ASSUME NEW t \in Streams, t # s PROVE Untouched(t)
  BY <1>1, <1>4, <1>6, <1>8 DEF Untouched, ToClient
<1>9. \A t \in Files : Life(t)'
  <2>1. ~IsWritten(s)' BY <1>1, <1>4, <1>5, <1>6 DEF IsWritten, ToClient
  <2> QED BY <1>1, <1>5, <1>8, <2>1
<1>10. StdoutLife' BY <1>1, <1>4, <1>5, <1>6, <1>8, StdoutKept, StreamFacts DEF ToClient
<1>11. Account'
  <2>1. OutputLeft' = OutputLeft BY <1>5, <1>6, StreamFacts DEF OutputLeft
  <2> QED BY <1>1, <2>1 DEF FileInv, Account, OutputTotal, BufferLeft
<1>12. Exiting' /\ Done' BY <1>1 DEF FileInv, Exiting, Done, ToClient
<1>13. OutputComplete' /\ SuccessMeansSent' BY <1>1 DEF FileInv, OutputComplete, SuccessMeansSent
<1> QED BY <1>7, <1>9, <1>10, <1>11, <1>12, <1>13 DEF FileInv

(* A stream of the client drains or breaks.                                *)
LEMMA WrittenStep ==
  ASSUME FileInv, NEW s \in Streams, client = "running",
         s \in DOMAIN cfiles, cfiles[s].event, cfiles[s].output > 0,
         NEW e, e \in ClientFile, cfiles' = [cfiles EXCEPT ![s] = e], e.mode = "write", e.output = 0,
         \/ /\ e.event
            /\ written' = written + (IF s = STDOUT THEN cfiles[s].output ELSE 0)
            /\ UNCHANGED broken
         \/ ~e.event /\ broken' = (broken \/ s = STDOUT) /\ UNCHANGED written,
         UNCHANGED <<files, gone, due, exit, dead, phase, handled, pollout, printed, reads, finished, reused>>,
         UNCHANGED <<exitflag, down, up>>, ExitIfWritten(cfiles', exitflag)
  PROVE  FileInv'
<1>1. FileTypes /\ StdoutLife /\ Account /\ Exiting BY DEF FileInv
<1>2. cfiles[s].mode = "write"
  <2>1. IsWritten(s) BY DEF IsWritten
  <2>2. ~IsRead(s) BY <2>1, <1>1 DEF FileInv, Life, StdoutLife, Streams
  <2> QED BY <1>1, <2>2 DEF IsRead, FileTypes, Table, ClientFile
<1>3. DOMAIN cfiles' = DOMAIN cfiles /\ cfiles'[s] = e /\ \A t \in DOMAIN cfiles : t # s => cfiles'[t] = cfiles[t]
  OBVIOUS
<1>4. client' \in {client, "exited"} /\ (client' = "exited" => exitflag) BY DEF ExitIfWritten
<1>5. cfiles[s].output \in Nat BY <1>1 DEF FileTypes, Table, ClientFile
<1>6. FileTypes'
  <2>1. Table(cfiles, ClientFile)' BY <1>1, <1>3 DEF FileTypes, Table
  <2>2. broken' \in BOOLEAN BY <1>1 DEF FileTypes
  <2>3. written' \in Nat
    <3>1. written \in Nat BY <1>1 DEF FileTypes
    <3> QED BY <1>5, <3>1
  <2> QED BY <1>1, <1>4, <2>1, <2>2, <2>3 DEF FileTypes, Table
<1>7. \A t \in Streams : Untouched(t) BY <1>2, <1>3 DEF Untouched, ToClient, ToServer
<1>8. \A t \in Files : Life(t)' BY <1>7, LifeElsewhere
<1>9. StdoutLife'
  <2>1. Untouched(STDOUT) /\ STDOUT \in Streams BY <1>7, StreamFacts
  <2>2. (~IsRead(STDOUT))' BY <1>1, <2>1, KeptReads DEF StdoutLife
  <2>3. broken => broken' OBVIOUS
  <2>4. (STDOUT \in DOMAIN cfiles /\ ~cfiles[STDOUT].event => broken)' BY <1>1, <1>3, <2>3 DEF StdoutLife
  <2> QED BY <1>1, <1>3, <2>2, <2>3, <2>4 DEF StdoutLife, ToClient
<1>10. OutputTotal' = OutputTotal \/ (s = STDOUT /\ broken' /\ OutputTotal' <= OutputTotal)
  <2>0. BufferLeft' = BufferLeft /\ Occurs(down', Prints) = Occurs(down, Prints) BY DEF BufferLeft
  <2>1. CASE s # STDOUT
    <3>1. OutputLeft' = OutputLeft /\ written' = written BY <1>1, <1>3, <2>1 DEF OutputLeft, FileTypes
    <3> QED BY <2>0, <3>1 DEF OutputTotal
  <2>2. CASE s = STDOUT
    <3>1. OutputLeft = cfiles[s].output /\ OutputLeft' = 0 BY <1>3, <2>2 DEF OutputLeft
    <3>2. OutputTotal = written + cfiles[s].output + Occurs(down, Prints) + BufferLeft
          /\ OutputTotal' = written' + 0 + Occurs(down, Prints) + BufferLeft
      BY <2>0, <3>1 DEF OutputTotal
    <3>3. written \in Nat /\ Occurs(down, Prints) \in Nat /\ BufferLeft \in Nat BY <1>1, Counts DEF Counted
    <3>4. CASE written' = written + cfiles[s].output BY <1>5, <3>2, <3>3, <3>4
    <3>5. CASE broken' /\ written' = written BY <1>5, <2>2, <3>2, <3>3, <3>5
    <3> QED BY <2>2, <3>4, <3>5
  <2> QED BY <2>1, <2>2
<1>11. Account'
  <2>1. OutputTotal \in Nat /\ OutputTotal' \in Nat /\ printed \in Nat BY <1>1, <1>6, Counts, CountsNext DEF Counted
  <2>2. broken => broken' OBVIOUS
  <2> QED BY <1>1, <1>10, <2>1, <2>2 DEF Account
<1>12. Exiting' /\ Done' BY <1>1, <1>4 DEF FileInv, Exiting, Done, ToClient
<1>13. OutputComplete'
  <2>1. ExitIfWritten(cfiles', exitflag') BY DEF ExitIfWritten
  <2>2. broken => broken' OBVIOUS
  <2> QED BY <1>6, <1>10, <1>11, <1>12, <2>1, <2>2, ExitStep
<1>14. SuccessMeansSent' BY DEF FileInv, SuccessMeansSent
<1> QED BY <1>6, <1>8, <1>9, <1>11, <1>12, <1>13, <1>14 DEF FileInv

LEMMA WriteCallbackStep ==
  ASSUME FileInv, NEW s \in Streams, file_write_callback(s) \/ file_write_error_callback(s)
  PROVE  FileInv'
<1>1. cfiles[s] \in ClientFile /\ s \in DOMAIN cfiles BY DEF FileInv, FileTypes, Table, file_write_callback, file_write_error_callback
<1>2. cfiles[s].output > 0 BY DEF file_write_callback, file_write_error_callback
<1>3. cfiles[s].mode = "write"
  <2>1. IsWritten(s) BY <1>1, <1>2 DEF IsWritten
  <2>2. ~IsRead(s) BY <2>1 DEF FileInv, Life, StdoutLife, Streams
  <2> QED BY <1>1, <2>2 DEF IsRead, ClientFile
<1>4. written \in Nat /\ cfiles[s].output \in Nat BY <1>1 DEF FileInv, FileTypes, ClientFile
<1>5. CASE file_write_callback(s)
  <2> DEFINE e == [cfiles[s] EXCEPT !.output = 0]
  <2>1. e \in ClientFile /\ e.mode = "write" /\ e.output = 0 /\ e.event = cfiles[s].event BY <1>1, <1>3 DEF ClientFile
  <2>2. cfiles' = [cfiles EXCEPT ![s] = e] BY <1>1, <1>5 DEF file_write_callback
  <2> HIDE DEF e
  <2>3. written' = written + (IF s = STDOUT THEN cfiles[s].output ELSE 0) BY <1>4, <1>5 DEF file_write_callback, Count
  <2> QED BY <1>5, <2>1, <2>2, <2>3, WrittenStep DEF file_write_callback, servervars, turnvars
<1>6. CASE file_write_error_callback(s)
  <2> DEFINE e == Opened("write", FALSE)
  <2>1. e \in ClientFile /\ e.mode = "write" /\ e.output = 0 /\ e.event = FALSE BY DEF Opened, ClientFile
  <2>2. cfiles' = [cfiles EXCEPT ![s] = e] BY <1>6 DEF file_write_error_callback
  <2> HIDE DEF e
  <2> QED BY <1>6, <2>1, <2>2, WrittenStep DEF file_write_error_callback, servervars, turnvars
<1> QED BY <1>5, <1>6

LEMMA KilledStep ==
  ASSUME FileInv, Killed
  PROVE  FileInv'
<1>1. /\ client = "running" /\ client' = "killed"
      /\ UNCHANGED <<files, gone, due, exit, dead, phase, handled, pollout, printed, reads, finished, reused>>
      /\ UNCHANGED <<cfiles, exitflag, written, broken, down, up>>
  BY DEF Killed, servervars, turnvars, history
<1>2. FileTypes'
  <2>1. FileTypes BY DEF FileInv
  <2>2. (Table(files, ServerFile) /\ IsFiniteSet(DOMAIN files) /\ Table(cfiles, ClientFile) /\ Table(finished, ServerFile))'
    BY <1>1, <2>1 DEF FileTypes, Table
  <2>3. (gone \subseteq Files /\ due \in Seq(Streams) /\ phase \in {"loop", "peer", "due"})'
    BY <1>1, <2>1 DEF FileTypes
  <2>4. (handled \in BOOLEAN /\ pollout \in BOOLEAN /\ exit \in {"no", "EXIT", "EXITED"} /\ dead \in BOOLEAN)'
    BY <1>1, <2>1 DEF FileTypes
  <2>5. (client \in {"running", "exited", "killed", "unknown write", "unknown cancel"})'
    BY <1>1, <2>1 DEF FileTypes
  <2>6. (exitflag \in BOOLEAN /\ broken \in BOOLEAN /\ reused \in BOOLEAN)' BY <1>1, <2>1 DEF FileTypes
  <2>7. (printed \in 0 .. MaxPrint /\ written \in Nat /\ reads \in 0 .. MaxReads)' BY <1>1, <2>1 DEF FileTypes
  <2>8. (down \in Seq(Down) /\ up \in Seq(Up))' BY <1>1, <2>1 DEF FileTypes
  <2> QED BY <2>2, <2>3, <2>4, <2>5, <2>6, <2>7, <2>8 DEF FileTypes
<1>3. \A t \in Streams : Untouched(t) BY <1>1 DEF Untouched, ToClient, ToServer
<1>4. \A t \in Files : Life(t)' BY <1>3, LifeElsewhere, StreamFacts
<1>5. StdoutLife' BY <1>1, <1>3, StdoutKept, StreamFacts DEF ToClient
<1>6. Account' BY <1>1 DEF FileInv, Account, OutputTotal, OutputLeft, BufferLeft
<1>7. Exiting' /\ Done' BY <1>1 DEF FileInv, Exiting, Done, ToClient
<1>8. OutputComplete' /\ SuccessMeansSent' BY <1>1 DEF FileInv, OutputComplete, SuccessMeansSent
<1> QED BY <1>2, <1>4, <1>5, <1>6, <1>7, <1>8 DEF FileInv

-----------------------------------------------------------------------------
(* The server. *)

(* What file_push sends of a file with n chunks in its buffer.             *)
Pushes(n, s, T, t) ==
    t = s /\ (("WRITE" \in T /\ n > 0) \/ ("WRITE_CLOSE" \in T /\ s > 2))

LEMMA PushedFacts ==
  ASSUME NEW s \in Streams, NEW cf, cf.buffer \in Nat, NEW P, P = Pushed(cf, s)
  PROVE  /\ P \in Seq(Down)
         /\ \A T, t : Among(P, About(T, t)) <=> Pushes(cf.buffer, s, T, t)
         /\ \A S, t, u : Bars(P, About({"WRITE_CLOSE"}, t), About(S, u))
         /\ Occurs(P, Prints) = IF s = STDOUT THEN cf.buffer ELSE 0
<1> DEFINE n == cf.buffer
           wr == Msg("WRITE", s, FALSE)
           c == Msg("WRITE_CLOSE", s, FALSE)
           W == [i \in 1 .. n |-> wr]
           C == IF s > 2 THEN <<c>> ELSE <<>>
<1>1. s # 0 BY StreamFacts
<1>2. wr \in Down /\ c \in Down BY <1>1 DEF Msg, Down, DownTypes
<1>3. /\ \A T, t : wr \in About(T, t) <=> "WRITE" \in T /\ t = s
      /\ \A T, t : c \in About(T, t) <=> "WRITE_CLOSE" \in T /\ t = s
  BY <1>2, AboutIs DEF Msg
<1> HIDE DEF wr, c
<1>4. P = W \o C BY DEF Pushed, wr, c
<1>5. W \in Seq(Down) /\ Len(W) = n /\ DOMAIN W = 1 .. n /\ \A i \in 1 .. n : W[i] = wr
  BY <1>2
<1>6. C \in Seq(Down) BY <1>2
<1> HIDE DEF W
<1>7. \A A : Among(W, A) <=> n > 0 /\ wr \in A BY <1>5 DEF Among
<1>8. \A A : (Among(C, A) <=> s > 2 /\ c \in A) BY OrderEmpty, OrderOne
<1>9. \A A, B : Bars(C, A, B) BY OrderEmpty, OrderOne
<1>10. \A S, t, u : Bars(W, About({"WRITE_CLOSE"}, t), About(S, u))
  BY <1>3, <1>5 DEF Bars
<1> HIDE DEF C
<1>11. /\ W \o C \in Seq(Down)
       /\ \A A : Among(W \o C, A) <=> Among(W, A) \/ Among(C, A)
       /\ \A A, B : Bars(W, A, B) /\ Bars(C, A, B) /\ (~Among(W, A) \/ ~Among(C, B)) => Bars(W \o C, A, B)
  BY <1>5, <1>6, OrderConcat
<1>12. \A T, t : Among(P, About(T, t)) <=> Pushes(n, s, T, t)
  <2> TAKE T, t
  <2>1. Among(P, About(T, t)) <=> (n > 0 /\ wr \in About(T, t)) \/ (s > 2 /\ c \in About(T, t))
    BY <1>4, <1>7, <1>8, <1>11
  <2> QED BY <1>3, <2>1 DEF Pushes
<1>13. \A S, t, u : Bars(P, About({"WRITE_CLOSE"}, t), About(S, u))
  <2> TAKE S, t, u
  <2>1. ~Among(W, About({"WRITE_CLOSE"}, t)) BY <1>3, <1>7
  <2> QED BY <1>4, <1>9, <1>10, <1>11, <2>1
<1>14. Occurs(P, Prints) = IF s = STDOUT THEN n ELSE 0
  <2>1. Occurs(W \o C, Prints) = Occurs(W, Prints) + Occurs(C, Prints) BY <1>5, <1>6, OccursConcat
  <2>2. Occurs(C, Prints) = 0
    <3>1. c \notin Prints BY <1>3 DEF Prints
    <3> QED BY <3>1, OccursEmpty, OccursOne DEF C
  <2>3. Occurs(W, Prints) = IF s = STDOUT THEN n ELSE 0
    <3>1. wr \in Prints <=> s = STDOUT BY <1>3 DEF Prints
    <3>2. CASE s = STDOUT
      <4>1. Where(W, Prints) = 1 .. n BY <1>5, <3>1, <3>2 DEF Where
      <4> QED BY <3>2, <4>1, FS_Interval DEF Occurs
    <3>3. CASE s # STDOUT
      <4>1. Where(W, Prints) = {} BY <1>5, <3>1, <3>3 DEF Where
      <4> QED BY <3>3, <4>1, FS_EmptySet DEF Occurs
    <3> QED BY <3>2, <3>3
  <2> QED BY <1>4, <2>1, <2>2, <2>3
<1> QED BY <1>4, <1>11, <1>12, <1>13, <1>14

LEMMA DownPushed ==
  ASSUME FileTypes, NEW s \in Streams, NEW cf, cf.buffer \in Nat, down' = down \o Pushed(cf, s)
  PROVE  /\ down' \in Seq(Down)
         /\ \A T, t : ToClient(T, t)' <=> ToClient(T, t) \/ Pushes(cf.buffer, s, T, t)
         /\ \A T, t, S, u : Bars(down, About(T, t), About(S, u)) /\ (~ToClient(T, t) \/ ~Pushes(cf.buffer, s, S, u))
                  /\ (T = {"WRITE_CLOSE"} \/ ~Pushes(cf.buffer, s, T, t) \/ ~Pushes(cf.buffer, s, S, u))
               => Bars(down', About(T, t), About(S, u))
         /\ Precedes(down, About({"WRITE_OPEN"}, STDOUT), Prints) /\ (s = STDOUT => ToClient({"WRITE_OPEN"}, STDOUT))
               => Precedes(down', About({"WRITE_OPEN"}, STDOUT), Prints)
         /\ Occurs(down, Prints) \in Nat /\ Occurs(down', Prints) \in Nat
         /\ Occurs(down', Prints) = Occurs(down, Prints) + IF s = STDOUT THEN cf.buffer ELSE 0
<1> DEFINE n == cf.buffer
<1>0. down \in Seq(Down) BY DEF FileTypes
<1>1. PICK P : P = Pushed(cf, s) OBVIOUS
<1>2. /\ P \in Seq(Down) /\ down' = down \o P
      /\ \A T, t : Among(P, About(T, t)) <=> Pushes(n, s, T, t)
      /\ \A S, t, u : Bars(P, About({"WRITE_CLOSE"}, t), About(S, u))
      /\ Occurs(P, Prints) = IF s = STDOUT THEN n ELSE 0
  BY <1>1, PushedFacts
<1> HIDE DEF n
<1>4. /\ down \o P \in Seq(Down)
      /\ \A A : Among(down \o P, A) <=> Among(down, A) \/ Among(P, A)
      /\ \A A, B : Bars(down, A, B) /\ Bars(P, A, B) /\ (~Among(down, A) \/ ~Among(P, B)) => Bars(down \o P, A, B)
      /\ \A A, B : Precedes(down, A, B) /\ (Among(down, A) \/ ~Among(P, B)) => Precedes(down \o P, A, B)
  BY <1>0, <1>2, OrderConcat
<1>5. \A T, t : ToClient(T, t)' <=> ToClient(T, t) \/ Pushes(n, s, T, t) BY <1>2, <1>4 DEF ToClient
<1>6. ASSUME NEW T, NEW t, NEW S, NEW u,
             Bars(down, About(T, t), About(S, u)), ~ToClient(T, t) \/ ~Pushes(n, s, S, u),
             T = {"WRITE_CLOSE"} \/ ~Pushes(n, s, T, t) \/ ~Pushes(n, s, S, u)
      PROVE  Bars(down', About(T, t), About(S, u))
  <2>1. Bars(P, About(T, t), About(S, u)) BY <1>2, <1>6, OrderNone
  <2> QED BY <1>2, <1>4, <1>6, <2>1 DEF ToClient
<1>7. ASSUME Precedes(down, About({"WRITE_OPEN"}, STDOUT), Prints), s = STDOUT => ToClient({"WRITE_OPEN"}, STDOUT)
      PROVE  Precedes(down', About({"WRITE_OPEN"}, STDOUT), Prints)
  <2>1. s # STDOUT => ~Among(P, Prints) BY <1>2 DEF Prints, Pushes
  <2> QED BY <1>2, <1>4, <1>7, <2>1 DEF ToClient
<1>8. Occurs(down', Prints) = Occurs(down, Prints) + Occurs(P, Prints) BY <1>0, <1>2, OccursConcat
<1>9. Occurs(down, Prints) \in Nat /\ Occurs(down', Prints) \in Nat BY <1>0, <1>2, <1>4, OccursType
<1> QED BY <1>2, <1>4, <1>5, <1>6, <1>7, <1>8, <1>9 DEF n

(* A turn of the event loop starts or ends; the last command ends.         *)
LEMMA QuietStep ==
  ASSUME FileInv, server_client_command_done \/ StartTurn \/ EndPeer \/ EndTurn
  PROVE  FileInv'
<1>1. /\ UNCHANGED <<files, gone, due, dead, cfiles, client, exitflag, down, up, printed, written, broken, reads, finished, reused>>
      /\ phase' \in {"loop", "peer", "due"} /\ handled' \in BOOLEAN /\ pollout' \in BOOLEAN
      /\ exit' = exit \/ (exit = "no" /\ exit' = "EXIT")
  BY DEF FileInv, FileTypes, server_client_command_done, StartTurn, EndPeer, EndTurn, Commanding,
         servervars, turnvars, clientvars, history
<1>2. FileTypes'
  <2>1. FileTypes BY DEF FileInv
  <2>2. (Table(files, ServerFile) /\ IsFiniteSet(DOMAIN files) /\ Table(cfiles, ClientFile) /\ Table(finished, ServerFile))'
    BY <1>1, <2>1 DEF FileTypes, Table
  <2>3. (gone \subseteq Files /\ due \in Seq(Streams) /\ phase \in {"loop", "peer", "due"})'
    BY <1>1, <2>1 DEF FileTypes
  <2>4. (handled \in BOOLEAN /\ pollout \in BOOLEAN /\ exit \in {"no", "EXIT", "EXITED"} /\ dead \in BOOLEAN)'
    BY <1>1, <2>1 DEF FileTypes
  <2>5. (client \in {"running", "exited", "killed", "unknown write", "unknown cancel"})'
    BY <1>1, <2>1 DEF FileTypes
  <2>6. (exitflag \in BOOLEAN /\ broken \in BOOLEAN /\ reused \in BOOLEAN)' BY <1>1, <2>1 DEF FileTypes
  <2>7. (printed \in 0 .. MaxPrint /\ written \in Nat /\ reads \in 0 .. MaxReads)' BY <1>1, <2>1 DEF FileTypes
  <2>8. (down \in Seq(Down) /\ up \in Seq(Up))' BY <1>1, <2>1 DEF FileTypes
  <2> QED BY <2>2, <2>3, <2>4, <2>5, <2>6, <2>7, <2>8 DEF FileTypes
<1>3. \A t \in Streams : Untouched(t) BY <1>1 DEF Untouched, ToClient, ToServer
<1>4. \A t \in Files : Life(t)' BY <1>3, LifeElsewhere, StreamFacts
<1>5. StdoutLife' BY <1>1, <1>3, StdoutKept, StreamFacts DEF ToClient
<1>6. Account' BY <1>1 DEF FileInv, Account, OutputTotal, OutputLeft, BufferLeft
<1>7. Exiting' /\ Done' BY <1>1 DEF FileInv, Exiting, Done, ToClient
<1>8. OutputComplete' /\ SuccessMeansSent' BY <1>1 DEF FileInv, OutputComplete, SuccessMeansSent
<1> QED BY <1>2, <1>4, <1>5, <1>6, <1>7, <1>8 DEF FileInv

LEMMA CheckExitStep ==
  ASSUME FileInv, server_client_check_exit
  PROVE  FileInv'
<1> DEFINE x == Msg("EXIT", 0, FALSE)
<1>1. /\ ~dead /\ exit = "EXIT" /\ exit' = "EXITED" /\ down' = Append(down, x)
      /\ \A s \in DOMAIN files : files[s].buffer = 0
      /\ UNCHANGED <<files, gone, due, dead, phase, handled, pollout, printed, reads, finished, reused>>
      /\ UNCHANGED <<cfiles, client, exitflag, written, broken, up>>
  BY DEF server_client_check_exit, Commanding, turnvars, clientvars, history
<1>2. x \in Down /\ x.type = "EXIT" /\ x.stream = 0 BY DEF Msg, Down, DownTypes
<1>3. FileTypes /\ Exiting BY DEF FileInv
<1> HIDE DEF x
<1>4. /\ down' \in Seq(Down)
      /\ \A T, t : ToClient(T, t)' <=> ToClient(T, t) \/ ("EXIT" \in T /\ t = 0)
      /\ \A T, t, S, u : Bars(down, About(T, t), About(S, u)) /\ u # 0 => Bars(down', About(T, t), About(S, u))
      /\ Precedes(down, About({"WRITE_OPEN"}, STDOUT), Prints) => Precedes(down', About({"WRITE_OPEN"}, STDOUT), Prints)
      /\ Occurs(down', Prints) = Occurs(down, Prints)
  BY <1>1, <1>2, <1>3, DownSent DEF Prints
<1>5. FileTypes' BY <1>1, <1>3, <1>4 DEF FileTypes, Table
<1>6. \A t \in Streams : Untouched(t) BY <1>1, <1>4, StreamFacts DEF Untouched, ToServer
<1>7. \A t \in Files : Life(t)' BY <1>6, LifeElsewhere, StreamFacts
<1>8. StdoutLife' BY <1>1, <1>4, <1>6, StdoutKept, StreamFacts
<1>9. Account'
  <2>1. OutputLeft' = OutputLeft /\ BufferLeft' = BufferLeft BY <1>1 DEF OutputLeft, BufferLeft
  <2> QED BY <1>1, <1>4, <2>1 DEF FileInv, Account, OutputTotal
<1>10. Exiting'
  <2>1. Bars(down', About({"EXIT"}, 0), Prints) BY <1>3, <1>4, StreamFacts DEF Exiting, Prints
  <2> QED BY <1>1, <1>3, <1>4, <2>1, StreamFacts DEF Exiting
<1>11. Done' /\ OutputComplete' /\ SuccessMeansSent' BY <1>1 DEF FileInv, Done, OutputComplete, SuccessMeansSent
<1> QED BY <1>5, <1>7, <1>8, <1>9, <1>10, <1>11 DEF FileInv

(* A file is created: the client is asked to open it, or it is done.       *)
LEMMA NewFileStep ==
  ASSUME FileInv, NEW s \in Files, Fresh(s), Commanding, UNCHANGED <<gone, exit, history>>,
         NEW f \in ServerFile, files' = With(files, s, f),
         NEW op \in {"WRITE_OPEN", "READ_OPEN"}, f.kind = "write" <=> op = "WRITE_OPEN",
         \/ f.error /\ due' = Append(due, s) /\ UNCHANGED down
         \/ down' = Append(down, Msg(op, s, FALSE)) /\ UNCHANGED due
  PROVE  FileInv'
<1> DEFINE x == Msg(op, s, FALSE)
<1>1. /\ ~dead /\ exit = "no" /\ s \notin DOMAIN files \cup gone
      /\ UNCHANGED <<gone, dead, exit, phase, handled, pollout, printed, reads, finished, reused>>
      /\ UNCHANGED <<cfiles, client, exitflag, written, broken, up>>
      /\ s # STDOUT /\ s \in Streams
  BY StreamFacts DEF Fresh, Commanding, turnvars, clientvars, history
<1>2. x \in Down /\ x.type = op /\ x.stream = s BY <1>1, StreamFacts DEF Msg, Down, DownTypes
<1>3. FileTypes /\ Exiting /\ Done /\ StdoutLife BY DEF FileInv
<1> HIDE DEF x
<1>4. /\ down' \in Seq(Down)
      /\ \A T, t : ToClient(T, t) => ToClient(T, t)'
      /\ \A T, t : ToClient(T, t)' => ToClient(T, t) \/ (op \in T /\ s = t)
      /\ \A T, t, S, u : Bars(down, About(T, t), About(S, u)) /\ (~ToClient(T, t) \/ s # u) => Bars(down', About(T, t), About(S, u))
      /\ Precedes(down, About({"WRITE_OPEN"}, STDOUT), Prints) => Precedes(down', About({"WRITE_OPEN"}, STDOUT), Prints)
      /\ Occurs(down', Prints) = Occurs(down, Prints)
  <2>1. CASE UNCHANGED down BY <1>3, <2>1 DEF FileTypes, ToClient
  <2>2. CASE down' = Append(down, x) BY <1>1, <1>2, <1>3, <2>2, DownSent DEF Prints
  <2> QED BY <2>1, <2>2 DEF x
<1>5. /\ due' \in Seq(Streams) /\ ToSet(due) \subseteq ToSet(due') /\ ToSet(due') \subseteq ToSet(due) \cup {s}
      /\ s \in ToSet(due') => s \in ToSet(due) \/ f.error
  <2>1. due \in Seq(Streams) BY <1>3 DEF FileTypes
  <2>2. CASE UNCHANGED due BY <2>1, <2>2
  <2>3. CASE f.error /\ due' = Append(due, s)
    <3>1. ToSet(due') = ToSet(due) \cup {s} BY <1>1, <2>1, <2>3, AppendSet
    <3> QED BY <1>1, <2>1, <2>3, <3>1
  <2> QED BY <2>2, <2>3
<1>6. /\ DOMAIN files' = DOMAIN files \cup {s} /\ files'[s] = f
      /\ \A t \in DOMAIN files : files'[t] = files[t]
  <2>1. DOMAIN files' = DOMAIN files \cup {s} /\ files'[s] = f BY DEF With
  <2>2. \A t \in DOMAIN files : t # s => files'[t] = files[t] BY DEF With
  <2> QED BY <1>1, <2>1, <2>2
<1>7. FileTypes'
  <2>1. Table(files, ServerFile)' BY <1>1, <1>3, <1>6 DEF FileTypes, Table
  <2>2. IsFiniteSet(DOMAIN files)'
    <3>1. IsFiniteSet(DOMAIN files) BY <1>3 DEF FileTypes
    <3>2. IsFiniteSet(DOMAIN files \cup {s}) BY <3>1, FS_AddElement
    <3> QED BY <1>6, <3>2
  <2> QED BY <1>1, <1>3, <1>4, <1>5, <2>1, <2>2 DEF FileTypes, Table
<1>8. ASSUME NEW t \in Streams, t # s PROVE Untouched(t)
  BY <1>1, <1>4, <1>6, <1>8 DEF Untouched, ToServer
<1>9. \A t \in Files : Life(t)'
  <2>1. ~IsRead(s) /\ ~IsWritten(s) BY <1>1 DEF FileInv, Life
  <2>2. /\ \A T : T \in SUBSET DownTypes => ~ToClient(T, s)
        /\ s \notin DOMAIN cfiles /\ ~ToServer({"WRITE_READY"}, s) /\ ~ToServer({"READ", "READ_DONE"}, s)
    <3>1. s \notin DOMAIN cfiles /\ ~ToServer({"WRITE_READY"}, s) /\ ~ToServer({"READ", "READ_DONE"}, s)
      BY <2>1, <1>3 DEF IsRead, IsWritten, FileTypes, Table, ClientFile
    <3>2. ASSUME NEW T \in SUBSET DownTypes PROVE ~ToClient(T, s)
      <4>1. ~ToClient({"WRITE_OPEN", "WRITE", "WRITE_CLOSE"}, s) /\ ~ToClient({"READ_OPEN", "READ_CANCEL"}, s)
        BY <2>1 DEF IsRead, IsWritten
      <4>2. ASSUME NEW i \in DOMAIN down, down[i] \in About(T, s) PROVE FALSE
        <5>1. down[i] \in Down BY <1>3, LenProperties, ElementOfSeq DEF FileTypes
        <5>2. down[i].type # "EXIT" BY <1>1, <4>2, <5>1, StreamFacts DEF About, Down
        <5> QED BY <4>1, <4>2, <5>1, <5>2 DEF ToClient, Among, About, DownTypes
      <4> QED BY <4>2 DEF ToClient, Among
    <3> QED BY <3>1, <3>2
  <2>3. Life(s)
    BY <1>1 DEF FileInv
  <2>4. /\ ~ToClient({"WRITE_OPEN"}, s) /\ ~ToClient({"WRITE", "WRITE_CLOSE"}, s) /\ ~ToClient({"WRITE_CLOSE"}, s)
        /\ ~ToClient({"WRITE_OPEN", "WRITE", "WRITE_CLOSE"}, s) /\ ~ToClient({"READ_OPEN", "READ_CANCEL"}, s)
    BY <2>2 DEF DownTypes
  <2>5. (IsRead(s) => ~IsWritten(s))'
    BY <1>1, <1>4, <1>6, <2>2, <2>4 DEF IsRead, IsWritten, ToServer
  <2>6. Life(s)'
    BY <1>1, <1>4, <1>6, <2>2, <2>3, <2>4, <2>5 DEF Life, ToServer
  <2> QED BY <1>8, <2>6, LifeElsewhere
<1>10. StdoutLife' BY <1>1, <1>4, <1>5, <1>8, StdoutKept, StreamFacts
<1>11. Account'
  <2>1. OutputLeft' = OutputLeft BY <1>1 DEF OutputLeft
  <2>2. BufferLeft' = BufferLeft BY <1>1, <1>6 DEF BufferLeft
  <2> QED BY <1>1, <1>4, <2>1, <2>2 DEF FileInv, Account, OutputTotal
<1>12. Exiting'
  <2>1. ~ToClient({"EXIT"}, 0) /\ ~exitflag /\ client # "exited" BY <1>1, <1>3 DEF Exiting
  <2>2. Bars(down', About({"EXIT"}, 0), Prints) BY <1>3, <1>4, <2>1 DEF Exiting, Prints
  <2> QED BY <1>1, <1>3, <1>4, <2>1, <2>2, StreamFacts DEF Exiting
<1>13. Done' BY <1>1, <1>3, <1>5, <1>6 DEF Done
<1>14. OutputComplete' /\ SuccessMeansSent' BY <1>1 DEF FileInv, OutputComplete, SuccessMeansSent
<1> QED BY <1>7, <1>9, <1>10, <1>11, <1>12, <1>13, <1>14 DEF FileInv

LEMMA FileWriteStep ==
  ASSUME FileInv, NEW s \in Files, NEW b \in BOOLEAN, file_write(s, b)
  PROVE  FileInv'
<1>1. PICK f : f = [NewFile("write", 1) EXCEPT !.error = b] OBVIOUS
<1>2. f \in ServerFile /\ f.kind = "write" /\ f.error = b BY <1>1 DEF NewFile, ServerFile
<1>3. files' = With(files, s, f) BY <1>1 DEF file_write
<1>4. \/ f.error /\ due' = Append(due, s) /\ UNCHANGED down
      \/ down' = Append(down, Msg("WRITE_OPEN", s, FALSE)) /\ UNCHANGED due
  BY <1>2 DEF file_write
<1> QED BY <1>2, <1>3, <1>4, NewFileStep DEF file_write

LEMMA FileReadStep ==
  ASSUME FileInv, NEW s \in Files, NEW kind \in {"read", "input"}, NEW b \in BOOLEAN, file_read(s, kind, b)
  PROVE  FileInv'
<1>1. PICK f : f = [NewFile(kind, 0) EXCEPT !.error = b] OBVIOUS
<1>2. f \in ServerFile /\ f.kind = kind /\ f.error = b BY <1>1 DEF NewFile, ServerFile
<1>3. files' = With(files, s, f) BY <1>1 DEF file_read
<1>4. \/ f.error /\ due' = Append(due, s) /\ UNCHANGED down
      \/ down' = Append(down, Msg("READ_OPEN", s, FALSE)) /\ UNCHANGED due
  BY <1>2 DEF file_read
<1> QED BY <1>2, <1>3, <1>4, NewFileStep DEF file_read

(* The first chunk printed waits for the client to open the stream.        *)
LEMMA FirstPrintStep ==
  ASSUME FileInv, file_print, STDOUT \notin DOMAIN files
  PROVE  FileInv'
<1> DEFINE x == Msg("WRITE_OPEN", STDOUT, FALSE)
           f == NewFile("write", 1)
<1>1. /\ ~dead /\ exit = "no" /\ printed' = printed + 1 /\ printed < MaxPrint
      /\ UNCHANGED <<gone, due, exit, dead, phase, handled, pollout, reads, finished, reused>>
      /\ UNCHANGED <<cfiles, client, exitflag, written, broken, up>>
      /\ files' = With(files, STDOUT, f) /\ down' = Append(down, x)
  BY DEF file_print, Commanding, turnvars, clientvars
<1>2. x \in Down /\ x.type = "WRITE_OPEN" /\ x.stream = STDOUT BY StreamFacts DEF Msg, Down, DownTypes, STDOUT
<1>3. f \in ServerFile /\ f.kind = "write" /\ f.buffer = 1 BY DEF NewFile, ServerFile
<1>4. FileTypes /\ Exiting /\ Done /\ StdoutLife BY DEF FileInv
<1> HIDE DEF x, f
<1>5. /\ down' \in Seq(Down)
      /\ \A T, t : ToClient(T, t)' <=> ToClient(T, t) \/ ("WRITE_OPEN" \in T /\ STDOUT = t)
      /\ \A T, t, S, u : Bars(down, About(T, t), About(S, u)) /\ u # STDOUT => Bars(down', About(T, t), About(S, u))
      /\ Bars(down, About({"EXIT"}, 0), Prints) => Bars(down', About({"EXIT"}, 0), Prints)
      /\ Precedes(down, About({"WRITE_OPEN"}, STDOUT), Prints) => Precedes(down', About({"WRITE_OPEN"}, STDOUT), Prints)
      /\ Occurs(down', Prints) = Occurs(down, Prints)
  BY <1>1, <1>2, <1>4, DownSent DEF Prints
<1>6. /\ DOMAIN files' = DOMAIN files \cup {STDOUT} /\ files'[STDOUT] = f
      /\ \A t \in DOMAIN files : files'[t] = files[t]
  <2>1. DOMAIN files' = DOMAIN files \cup {STDOUT} /\ files'[STDOUT] = f BY <1>1 DEF With
  <2>2. \A t \in DOMAIN files : t # STDOUT => files'[t] = files[t] BY <1>1 DEF With
  <2> QED BY <2>1, <2>2
<1>7. FileTypes'
  <2>1. Table(files, ServerFile)' BY <1>3, <1>4, <1>6, StreamFacts DEF FileTypes, Table
  <2>2. IsFiniteSet(DOMAIN files)'
    <3>1. IsFiniteSet(DOMAIN files) BY <1>4 DEF FileTypes
    <3>2. IsFiniteSet(DOMAIN files \cup {STDOUT}) BY <3>1, FS_AddElement
    <3> QED BY <1>6, <3>2
  <2>3. printed' \in 0 .. MaxPrint
    <3>1. printed \in 0 .. MaxPrint BY <1>4 DEF FileTypes
    <3>2. printed' = printed + 1 /\ printed < MaxPrint BY <1>1
    <3> QED BY <3>1, <3>2, BoundsNat
  <2> QED BY <1>1, <1>4, <1>5, <2>1, <2>2, <2>3 DEF FileTypes, Table
<1>8. ASSUME NEW t \in Streams, t # STDOUT PROVE Untouched(t)
  BY <1>1, <1>5, <1>6, <1>8 DEF Untouched, ToServer
<1>9. \A t \in Files : Life(t)' BY <1>8, LifeElsewhere, StreamFacts
<1>10. StdoutLife'
  <2>1. ~IsRead(STDOUT)' BY <1>1, <1>3, <1>4, <1>5, <1>6 DEF StdoutLife, IsRead, ToServer
  <2> QED BY <1>1, <1>4, <1>5, <2>1 DEF StdoutLife
<1>11. Account' /\ OutputTotal' = OutputTotal + 1
  <2>1. OutputLeft' = OutputLeft BY <1>1 DEF OutputLeft
  <2>2. BufferLeft' = 1 /\ BufferLeft = 0 BY <1>3, <1>6 DEF BufferLeft
  <2>3. OutputTotal' = OutputTotal + 1 BY <1>1, <1>4, <1>5, <2>1, <2>2, Counts DEF Counted, OutputTotal
  <2>4. OutputTotal \in Nat /\ printed \in Nat BY <1>4, Counts DEF Counted
  <2> QED BY <1>1, <2>3, <2>4 DEF FileInv, Account
<1>12. Exiting' /\ client' # "exited"
  <2>1. ~ToClient({"EXIT"}, 0) /\ ~exitflag /\ client # "exited" BY <1>1, <1>4 DEF Exiting
  <2> QED BY <1>1, <1>4, <1>5, <2>1, StreamFacts DEF Exiting
<1>13. Done'
  <2>1. STDOUT \notin Files /\ gone \subseteq Files BY <1>4, StreamFacts DEF FileTypes
  <2> QED BY <1>1, <1>4, <1>6, <2>1 DEF Done
<1>14. OutputComplete' /\ SuccessMeansSent' BY <1>1, <1>12 DEF FileInv, OutputComplete, SuccessMeansSent
<1> QED BY <1>7, <1>9, <1>10, <1>11, <1>12, <1>13, <1>14 DEF FileInv

(* The next ones are pushed at once.                                       *)
LEMMA NextPrintStep ==
  ASSUME FileInv, file_print, STDOUT \in DOMAIN files
  PROVE  FileInv'
<1>0. PICK cf : cf = [files[STDOUT] EXCEPT !.buffer = @ + 1] OBVIOUS
<1>1. /\ ~dead /\ exit = "no" /\ printed' = printed + 1 /\ printed < MaxPrint
      /\ UNCHANGED <<gone, due, exit, dead, phase, handled, pollout, reads, finished, reused>>
      /\ UNCHANGED <<cfiles, client, exitflag, written, broken, up>>
      /\ files' = [files EXCEPT ![STDOUT].buffer = 0] /\ down' = down \o Pushed(cf, STDOUT)
  BY <1>0 DEF file_print, Commanding, turnvars, clientvars
<1>2. files[STDOUT] \in ServerFile BY DEF FileInv, FileTypes, Table
<1>3. cf.buffer = files[STDOUT].buffer + 1 /\ cf.buffer \in Nat BY <1>0, <1>2 DEF ServerFile
<1>4. FileTypes /\ Exiting /\ Done /\ StdoutLife BY DEF FileInv
<1>5. \A T, t : Pushes(cf.buffer, STDOUT, T, t) <=> t = STDOUT /\ "WRITE" \in T BY <1>3, <1>2 DEF Pushes, STDOUT, ServerFile
<1>6. /\ down' \in Seq(Down)
      /\ \A T, t : ToClient(T, t)' <=> ToClient(T, t) \/ Pushes(cf.buffer, STDOUT, T, t)
      /\ \A T, t, S, u : Bars(down, About(T, t), About(S, u)) /\ (~ToClient(T, t) \/ ~Pushes(cf.buffer, STDOUT, S, u))
               /\ (T = {"WRITE_CLOSE"} \/ ~Pushes(cf.buffer, STDOUT, T, t) \/ ~Pushes(cf.buffer, STDOUT, S, u))
            => Bars(down', About(T, t), About(S, u))
      /\ Precedes(down, About({"WRITE_OPEN"}, STDOUT), Prints) /\ ToClient({"WRITE_OPEN"}, STDOUT)
            => Precedes(down', About({"WRITE_OPEN"}, STDOUT), Prints)
      /\ Occurs(down, Prints) \in Nat /\ Occurs(down', Prints) = Occurs(down, Prints) + cf.buffer
  BY <1>1, <1>3, <1>4, DownPushed, StreamFacts
<1>7. /\ DOMAIN files' = DOMAIN files /\ files'[STDOUT].buffer = 0 /\ files'[STDOUT] \in ServerFile
      /\ files'[STDOUT].kind = files[STDOUT].kind
      /\ \A t \in DOMAIN files : t # STDOUT => files'[t] = files[t]
  BY <1>1, <1>2 DEF ServerFile
<1>8. FileTypes'
  <2>1. Table(files, ServerFile)' BY <1>4, <1>7 DEF FileTypes, Table
  <2>2. printed' \in 0 .. MaxPrint
    <3>1. printed \in 0 .. MaxPrint BY <1>4 DEF FileTypes
    <3>2. printed' = printed + 1 /\ printed < MaxPrint BY <1>1
    <3> QED BY <3>1, <3>2, BoundsNat
  <2>3. IsFiniteSet(DOMAIN files)' BY <1>4, <1>7 DEF FileTypes
  <2> QED BY <1>1, <1>4, <1>6, <2>1, <2>2, <2>3 DEF FileTypes, Table
<1>9. ASSUME NEW t \in Streams, t # STDOUT PROVE Untouched(t)
  BY <1>1, <1>5, <1>6, <1>7, <1>9 DEF Untouched, ToServer
<1>10. \A t \in Files : Life(t)' BY <1>9, LifeElsewhere, StreamFacts
<1>11. StdoutLife'
  <2>1. ~IsRead(STDOUT)' BY <1>1, <1>4, <1>5, <1>6, <1>7 DEF StdoutLife, IsRead, ToServer
  <2> QED BY <1>1, <1>4, <1>5, <1>6, <1>7, <2>1 DEF StdoutLife
<1>12. Account'
  <2>1. OutputLeft' = OutputLeft BY <1>1 DEF OutputLeft
  <2>2. BufferLeft' = 0 /\ BufferLeft = files[STDOUT].buffer BY <1>7 DEF BufferLeft
  <2>3. OutputTotal' = OutputTotal + 1
    <3>1. OutputTotal' = written + OutputLeft + (Occurs(down, Prints) + cf.buffer) + 0
      BY <1>1, <1>6, <2>1, <2>2 DEF OutputTotal
    <3>2. OutputTotal = written + OutputLeft + Occurs(down, Prints) + files[STDOUT].buffer BY <2>2 DEF OutputTotal
    <3>3. written \in Nat /\ OutputLeft \in Nat /\ files[STDOUT].buffer \in Nat
      BY <1>2, <1>4, Counts DEF Counted, ServerFile
    <3> QED BY <1>3, <1>6, <3>1, <3>2, <3>3
  <2>4. OutputTotal \in Nat /\ printed \in Nat BY <1>4, Counts DEF Counted
  <2> QED BY <1>1, <2>3, <2>4 DEF FileInv, Account
<1>13. Exiting' /\ client' # "exited"
  <2>1. ~ToClient({"EXIT"}, 0) /\ ~exitflag /\ client # "exited" BY <1>1, <1>4 DEF Exiting
  <2>2. Bars(down', About({"EXIT"}, 0), Prints) BY <1>4, <1>5, <1>6, <2>1, StreamFacts DEF Exiting, Prints
  <2> QED BY <1>1, <1>4, <1>5, <1>6, <2>1, <2>2, StreamFacts DEF Exiting
<1>14. Done'
  <2>1. STDOUT \notin Files BY StreamFacts
  <2> QED BY <1>1, <1>4, <1>7, <2>1 DEF Done
<1>15. OutputComplete' /\ SuccessMeansSent' BY <1>1, <1>13 DEF FileInv, OutputComplete, SuccessMeansSent
<1> QED BY <1>8, <1>10, <1>11, <1>12, <1>13, <1>14, <1>15 DEF FileInv

(* The server handles a message.                                           *)
LEMMA HandlingFacts ==
  ASSUME FileInv, NEW type \in UpTypes, Handling(type), NEW m, m = Head(up)
  PROVE  /\ ~dead /\ m \in Up /\ m.type = type /\ m.stream \in Streams /\ up # <<>> /\ up' = Tail(up)
         /\ UNCHANGED <<gone, dead, phase, pollout, cfiles, client, exitflag, printed, written, broken, reads, finished, reused>>
         /\ handled' \in BOOLEAN
         /\ SuccessMeansSent' /\ OutputComplete'
         /\ up' \in Seq(Up)
         /\ \A T, t : ToServer(T, t) <=> ToServer(T, t)' \/ (type \in T /\ m.stream = t)
         /\ \A T, t, S, u : Bars(up, About(T, t), About(S, u)) => Bars(up', About(T, t), About(S, u))
         /\ \A T, t, S, u : Bars(up, About(T, t), About(S, u)) /\ type \in T /\ m.stream = t => ~ToServer(S, u)'
         /\ Among(up, Refused) <=> Among(up', Refused) \/ (type = "WRITE_READY" /\ m.stream = STDOUT /\ m.error)
<1>1. /\ ~dead /\ m.type = type /\ up # <<>> /\ up' = Tail(up) /\ handled' = TRUE
      /\ UNCHANGED <<gone, dead, phase, pollout, cfiles, client, exitflag, printed, written, broken, reads, finished, reused>>
  BY DEF Handling, clientvars
<1>2. /\ m \in Up /\ up' \in Seq(Up)
      /\ \A T, t : ToServer(T, t) <=> ToServer(T, t)' \/ (m.type \in T /\ m.stream = t)
      /\ \A T, t, S, u : Bars(up, About(T, t), About(S, u)) => Bars(up', About(T, t), About(S, u))
      /\ \A T, t, S, u : Bars(up, About(T, t), About(S, u)) /\ m.type \in T /\ m.stream = t => ~ToServer(S, u)'
      /\ Among(up, Refused) <=> Among(up', Refused) \/ (m.type = "WRITE_READY" /\ m.stream = STDOUT /\ m.error)
  BY <1>1, UpTaken DEF FileInv
<1>3. m.stream \in Streams BY <1>2 DEF Up
<1>4. SuccessMeansSent' /\ OutputComplete' BY <1>1 DEF FileInv, SuccessMeansSent, OutputComplete
<1> QED BY <1>1, <1>2, <1>3, <1>4

(* A message is ignored.                                                   *)
LEMMA IgnoredStep ==
  ASSUME FileInv, NEW type \in UpTypes, Handling(type), UNCHANGED <<files, due, exit, down>>
  PROVE  FileInv'
<1>1. PICK m : m = Head(up) OBVIOUS
<1>2. /\ UNCHANGED <<files, due, exit, down>>
      /\ UNCHANGED <<gone, dead, phase, pollout, cfiles, client, exitflag, printed, written, broken, reads, finished, reused>>
      /\ handled' \in BOOLEAN
      /\ SuccessMeansSent' /\ OutputComplete'
      /\ up' \in Seq(Up)
      /\ \A T, t : ToServer(T, t)' => ToServer(T, t)
      /\ \A T, t, S, u : Bars(up, About(T, t), About(S, u)) => Bars(up', About(T, t), About(S, u))
      /\ Among(up', Refused) => Among(up, Refused)
  BY <1>1, HandlingFacts
<1>3. FileTypes' BY ZenonT(60), <1>2 DEF FileInv, FileTypes, Table
<1>4. \A t \in Streams : Untouched(t) BY <1>2 DEF Untouched, ToClient
<1>5. \A t \in Files : Life(t)' BY <1>4, LifeElsewhere, StreamFacts
<1>6. StdoutLife' BY <1>2, <1>4, StdoutKept, StreamFacts DEF ToClient
<1>7. Account' BY <1>2 DEF FileInv, Account, OutputTotal, OutputLeft, BufferLeft
<1>8. Exiting' /\ Done' BY <1>2 DEF FileInv, Exiting, Done, ToClient
<1> QED BY <1>2, <1>3, <1>5, <1>6, <1>7, <1>8 DEF FileInv

(* A file is ready, and it is pushed: a file is then done.                 *)
LEMMA ReadyStep ==
  ASSUME FileInv, file_write_ready, NEW s, s = Head(up).stream, s \in DOMAIN files, ~Head(up).error
  PROVE  FileInv'
<1>0. PICK cf : cf = files[s] OBVIOUS
<1>1. /\ Handling("WRITE_READY") /\ UNCHANGED exit
      /\ down' = down \o Pushed(cf, s) /\ files' = [files EXCEPT ![s].buffer = 0]
      /\ due' = IF s > 2 THEN Append(due, s) ELSE due
  BY <1>0 DEF file_write_ready
<1>2. /\ ~dead /\ s \in Streams
      /\ UNCHANGED <<gone, dead, phase, pollout, cfiles, client, exitflag, printed, written, broken, reads, finished, reused>>
      /\ handled' \in BOOLEAN
      /\ SuccessMeansSent' /\ OutputComplete'
      /\ up' \in Seq(Up)
      /\ \A T, t : ToServer(T, t) <=> ToServer(T, t)' \/ ("WRITE_READY" \in T /\ s = t)
      /\ \A T, t, S, u : Bars(up, About(T, t), About(S, u)) => Bars(up', About(T, t), About(S, u))
      /\ \A T, t, S, u : Bars(up, About(T, t), About(S, u)) /\ "WRITE_READY" \in T /\ s = t => ~ToServer(S, u)'
      /\ Among(up', Refused) => Among(up, Refused)
  BY <1>1, HandlingFacts DEF UpTypes
<1>3. cf \in ServerFile /\ cf.buffer \in Nat BY <1>0 DEF FileInv, FileTypes, Table, ServerFile
<1>4. FileTypes /\ Exiting /\ Done /\ StdoutLife BY DEF FileInv
<1>5. /\ down' \in Seq(Down)
      /\ \A T, t : ToClient(T, t)' <=> ToClient(T, t) \/ Pushes(cf.buffer, s, T, t)
      /\ \A T, t, S, u : Bars(down, About(T, t), About(S, u)) /\ (~ToClient(T, t) \/ ~Pushes(cf.buffer, s, S, u))
               /\ (T = {"WRITE_CLOSE"} \/ ~Pushes(cf.buffer, s, T, t) \/ ~Pushes(cf.buffer, s, S, u))
            => Bars(down', About(T, t), About(S, u))
      /\ Precedes(down, About({"WRITE_OPEN"}, STDOUT), Prints) /\ (s = STDOUT => ToClient({"WRITE_OPEN"}, STDOUT))
            => Precedes(down', About({"WRITE_OPEN"}, STDOUT), Prints)
      /\ Occurs(down, Prints) \in Nat /\ Occurs(down', Prints) = Occurs(down, Prints) + IF s = STDOUT THEN cf.buffer ELSE 0
  BY <1>1, <1>2, <1>3, <1>4, DownPushed
<1>6. /\ DOMAIN files' = DOMAIN files /\ files'[s].buffer = 0 /\ files'[s] \in ServerFile
      /\ files'[s].kind = files[s].kind
      /\ \A t \in DOMAIN files : t # s => files'[t] = files[t]
  BY <1>0, <1>1, <1>3 DEF ServerFile
<1>7. /\ due' \in Seq(Streams) /\ ToSet(due) \subseteq ToSet(due') /\ ToSet(due') \subseteq ToSet(due) \cup {s}
      /\ s = STDOUT => due' = due
  <2>1. due \in Seq(Streams) BY <1>4 DEF FileTypes
  <2>2. CASE s > 2
    <3>1. due' = Append(due, s) BY <1>1, <2>2
    <3>2. ToSet(due') = ToSet(due) \cup {s} BY <1>2, <2>1, <3>1, AppendSet
    <3> QED BY <1>2, <2>1, <2>2, <3>1, <3>2 DEF STDOUT
  <2>3. CASE ~(s > 2) BY <1>1, <2>1, <2>3
  <2> QED BY <2>2, <2>3
<1>8. FileTypes'
  <2>1. Table(files, ServerFile)' BY <1>4, <1>6 DEF FileTypes, Table
  <2>2. IsFiniteSet(DOMAIN files)' BY <1>4, <1>6 DEF FileTypes
  <2> QED BY <1>1, <1>2, <1>4, <1>5, <1>7, <2>1, <2>2 DEF FileTypes, Table
<1>9. ASSUME NEW t \in Streams, t # s PROVE Untouched(t)
  <2>1. \A T : ~Pushes(cf.buffer, s, T, t) BY <1>9 DEF Pushes
  <2> QED BY <1>1, <1>2, <1>5, <1>6, <1>9, <2>1 DEF Untouched
<1>10. ASSUME s \in Files PROVE Life(s)'
  <2>1. Life(s) /\ ToServer({"WRITE_READY"}, s) BY <1>2, <1>10 DEF FileInv
  <2>2. /\ s \in DOMAIN cfiles /\ ~ToClient(DownTypes, s) /\ ~ToServer({"WRITE_READY"}, s)'
        /\ IsWritten(s) /\ ~IsRead(s)
    BY <1>2, <2>1 DEF Life, IsWritten
  <2>3. \A T : ~ToClient(T, s) BY <2>2, <1>4, AnyType DEF ToClient, FileTypes
  <2>4. ~ToClient({"WRITE_OPEN"}, s)' /\ ~IsRead(s)'
    BY <1>2, <1>5, <1>6, <2>2, <2>3 DEF Pushes, IsRead
  <2>5. Bars(down', About({"WRITE_OPEN"}, s), About(DownTypes, s)) BY <2>4, OrderNone DEF ToClient
  <2>6. Bars(down', About({"WRITE_CLOSE"}, s), About(DownTypes, s))
    BY <1>5, <2>1, <2>3 DEF Life
  <2>7. Bars(up', About({"WRITE_READY"}, s), About({"WRITE_READY"}, s)) BY <1>2, <2>1 DEF Life
  <2> QED BY <1>2, <1>6, <2>2, <2>4, <2>5, <2>6, <2>7 DEF Life
<1>11. \A t \in Files : Life(t)' BY <1>9, <1>10, LifeElsewhere
<1>12. StdoutLife'
  <2>1. CASE s # STDOUT
    <3>1. \A T : ~Pushes(cf.buffer, s, T, STDOUT) BY <2>1 DEF Pushes
    <3>2. STDOUT \in ToSet(due') => STDOUT \in ToSet(due) BY <1>7, <2>1
    <3> QED BY <1>2, <1>5, <1>9, <2>1, <3>1, <3>2, StdoutKept, StreamFacts
  <2>2. CASE s = STDOUT
    <3>1. \A T : Pushes(cf.buffer, s, T, STDOUT) => "WRITE" \in T BY <2>2 DEF Pushes, STDOUT
    <3>2. ~IsRead(STDOUT)' BY <1>2, <1>4, <1>5, <1>6, <2>2, <3>1 DEF StdoutLife, IsRead
    <3>3. STDOUT \notin DOMAIN cfiles => ToClient({"WRITE_OPEN"}, STDOUT)
      BY <1>2, <1>4, <2>2 DEF StdoutLife
    <3> QED BY <1>2, <1>4, <1>5, <1>6, <1>7, <2>2, <3>1, <3>2, <3>3 DEF StdoutLife
  <2> QED BY <2>1, <2>2
<1>13. Account'
  <2>1. OutputLeft' = OutputLeft BY <1>2 DEF OutputLeft
  <2>2. OutputTotal' = OutputTotal
    <3>1. CASE s # STDOUT
      <4>1. BufferLeft' = BufferLeft /\ Occurs(down', Prints) = Occurs(down, Prints) BY <1>5, <1>6, <3>1 DEF BufferLeft
      <4> QED BY <1>2, <2>1, <4>1 DEF OutputTotal
    <3>2. CASE s = STDOUT
      <4>1. BufferLeft' = 0 /\ BufferLeft = cf.buffer BY <1>0, <1>6, <3>2 DEF BufferLeft
      <4>2. Occurs(down', Prints) = Occurs(down, Prints) + cf.buffer BY <1>5, <3>2
      <4>3. written \in Nat /\ OutputLeft \in Nat BY <1>4, Counts DEF Counted
      <4>4. OutputTotal' = written + OutputLeft + (Occurs(down, Prints) + cf.buffer) + 0 BY <1>2, <2>1, <4>1, <4>2 DEF OutputTotal
      <4>5. OutputTotal = written + OutputLeft + Occurs(down, Prints) + cf.buffer BY <4>1 DEF OutputTotal
      <4> QED BY <1>3, <1>5, <4>3, <4>4, <4>5
    <3> QED BY <3>1, <3>2
  <2> QED BY <1>2, <2>2 DEF FileInv, Account
<1>14. Exiting'
  <2>1. ~Pushes(cf.buffer, s, {"EXIT"}, 0) BY DEF Pushes
  <2>2. exit = "EXITED" => ~Pushes(cf.buffer, s, {"WRITE"}, STDOUT)
    BY <1>0, <1>4 DEF Exiting, Pushes
  <2>3. Bars(down', About({"EXIT"}, 0), Prints) BY <1>4, <1>5, <2>1, <2>2 DEF Exiting, Prints
  <2>4. exit' = exit BY <1>1
  <2>5. exit = "EXITED" => \A t \in DOMAIN files' : files'[t].buffer = 0 BY <1>4, <1>6 DEF Exiting
  <2> QED BY <1>2, <1>4, <1>5, <2>1, <2>2, <2>3, <2>4, <2>5 DEF Exiting
<1>15. Done' BY <1>2, <1>4, <1>6, <1>7 DEF Done
<1> QED BY <1>2, <1>8, <1>11, <1>12, <1>13, <1>14, <1>15 DEF FileInv

(* A file is done: the client refused it, or its end was read.             *)
LEMMA EndedStep ==
  ASSUME FileInv, NEW type \in {"WRITE_READY", "READ_DONE"}, Handling(type), NEW m, m = Head(up),
         NEW s, s = m.stream, s \in DOMAIN files, files' = [files EXCEPT ![s].error = m.error],
         due' = Append(due, s), UNCHANGED <<exit, down>>, type = "WRITE_READY" => m.error
  PROVE  FileInv'
<1>2. /\ ~dead /\ s \in Streams /\ m \in Up
      /\ UNCHANGED <<gone, dead, phase, pollout, cfiles, client, exitflag, printed, written, broken, reads, finished, reused>>
      /\ handled' \in BOOLEAN
      /\ SuccessMeansSent' /\ OutputComplete'
      /\ up' \in Seq(Up)
      /\ \A T, t : ToServer(T, t) <=> ToServer(T, t)' \/ (type \in T /\ s = t)
      /\ \A T, t, S, u : Bars(up, About(T, t), About(S, u)) => Bars(up', About(T, t), About(S, u))
      /\ Among(up, Refused) <=> Among(up', Refused) \/ (type = "WRITE_READY" /\ s = STDOUT /\ m.error)
  BY HandlingFacts DEF UpTypes
<1>4. FileTypes /\ Exiting /\ Done /\ StdoutLife BY DEF FileInv
<1>5. m.error \in BOOLEAN /\ files[s] \in ServerFile BY <1>2, <1>4 DEF Up, FileTypes, Table
<1>6. /\ DOMAIN files' = DOMAIN files /\ files'[s].buffer = files[s].buffer /\ files'[s] \in ServerFile
      /\ files'[s].kind = files[s].kind /\ files'[s].error = m.error
      /\ \A t \in DOMAIN files : t # s => files'[t] = files[t]
  BY <1>5 DEF ServerFile
<1>7. due' \in Seq(Streams) /\ ToSet(due') = ToSet(due) \cup {s}
  <2>1. due \in Seq(Streams) BY <1>4 DEF FileTypes
  <2> QED BY <1>2, <2>1, AppendSet
<1>8. FileTypes'
  <2>1. Table(files, ServerFile)' BY <1>4, <1>6 DEF FileTypes, Table
  <2>2. IsFiniteSet(DOMAIN files)' BY <1>4, <1>6 DEF FileTypes
  <2> QED BY <1>2, <1>4, <1>7, <2>1, <2>2 DEF FileTypes, Table
<1>9. \A t \in Streams : Untouched(t) BY <1>2, <1>6 DEF Untouched, ToClient
<1>10. \A t \in Files : Life(t)' BY <1>2, <1>9, LifeElsewhere
<1>11. files[s].kind = "write" => m.error
  <2>1. CASE type = "WRITE_READY" BY <2>1
  <2>2. CASE type = "READ_DONE"
    <3>1. IsRead(s) BY <1>2, <2>2 DEF IsRead
    <3>2. ~IsWritten(s) BY <1>2, <3>1, ReadStep
    <3> QED BY <3>2 DEF IsWritten
  <2> QED BY <2>1, <2>2
<1>12. s = STDOUT => broken
  <2>1. CASE type = "WRITE_READY" BY <1>2, <1>4, <2>1 DEF StdoutLife
  <2>2. CASE type = "READ_DONE"
    <3>1. IsRead(s) BY <1>2, <2>2 DEF IsRead
    <3> QED BY <3>1, <1>4 DEF StdoutLife
  <2> QED BY <2>1, <2>2
<1>13. StdoutLife'
  <2>1. ~IsRead(STDOUT)' BY <1>4, <1>9, KeptReads, StreamFacts DEF StdoutLife
  <2> QED BY <1>2, <1>4, <1>6, <1>7, <1>12, <2>1 DEF StdoutLife, ToClient
<1>14. Account'
  <2>1. OutputLeft' = OutputLeft BY <1>2 DEF OutputLeft
  <2>2. BufferLeft' = BufferLeft BY <1>6 DEF BufferLeft
  <2> QED BY <1>2, <2>1, <2>2 DEF FileInv, Account, OutputTotal
<1>15. Exiting'
  <2>1. \A t \in DOMAIN files : files'[t].buffer = files[t].buffer BY <1>6
  <2> QED BY <1>2, <1>4, <1>6, <2>1 DEF Exiting, ToClient
<1>16. Done' BY <1>2, <1>4, <1>6, <1>7, <1>11 DEF Done
<1> QED BY <1>2, <1>8, <1>10, <1>13, <1>14, <1>15, <1>16 DEF FileInv

LEMMA WriteReadyStep ==
  ASSUME FileInv, file_write_ready
  PROVE  FileInv'
<1>1. PICK m : m = Head(up) OBVIOUS
<1>2. PICK s : s = m.stream OBVIOUS
<1>3. Handling("WRITE_READY") /\ "WRITE_READY" \in UpTypes BY DEF file_write_ready, UpTypes
<1>4. CASE s \notin DOMAIN files
  <2>1. UNCHANGED <<files, due, exit, down>> BY <1>1, <1>2, <1>4 DEF file_write_ready, Ignored
  <2> QED BY <1>3, <2>1, IgnoredStep
<1>5. CASE s \in DOMAIN files /\ m.error
  <2>1. files' = [files EXCEPT ![s].error = m.error] /\ due' = Append(due, s) /\ UNCHANGED <<exit, down>>
    <3>1. m \in Up BY <1>1, <1>3, HandlingFacts
    <3>2. m.error = TRUE BY <1>5, <3>1 DEF Up
    <3> QED BY <1>1, <1>2, <1>5, <3>2 DEF file_write_ready
  <2> QED BY <1>1, <1>2, <1>3, <1>5, <2>1, EndedStep
<1>6. CASE s \in DOMAIN files /\ ~m.error BY <1>1, <1>2, <1>6, ReadyStep
<1> QED BY <1>4, <1>5, <1>6

LEMMA ReadDoneStep ==
  ASSUME FileInv, file_read_done
  PROVE  FileInv'
<1>1. PICK m : m = Head(up) OBVIOUS
<1>2. PICK s : s = m.stream OBVIOUS
<1>3. Handling("READ_DONE") /\ "READ_DONE" \in UpTypes BY DEF file_read_done, UpTypes
<1>4. CASE s \notin DOMAIN files
  <2>1. UNCHANGED <<files, due, exit, down>> BY <1>1, <1>2, <1>4 DEF file_read_done, Ignored
  <2> QED BY <1>3, <2>1, IgnoredStep
<1>5. CASE s \in DOMAIN files
  <2>1. files' = [files EXCEPT ![s].error = m.error] /\ due' = Append(due, s) /\ UNCHANGED <<exit, down>>
    BY <1>1, <1>2, <1>5 DEF file_read_done
  <2> QED BY <1>1, <1>2, <1>3, <1>5, <2>1, EndedStep
<1> QED BY <1>4, <1>5

(* Data is read; the file is cancelled if its pane has gone.               *)
LEMMA ReadDataStep ==
  ASSUME FileInv, NEW b \in BOOLEAN, file_read_data(b), NEW s, s = Head(up).stream
  PROVE  FileInv'
<1> DEFINE x == Msg("READ_CANCEL", s, FALSE)
<1>1. Handling("READ") /\ "READ" \in UpTypes /\ UNCHANGED due BY DEF file_read_data, UpTypes
<1>2. CASE UNCHANGED <<files, exit, down>> BY <1>1, <1>2, IgnoredStep
<1>3. CASE s \in DOMAIN files /\ ~files[s].closed /\ Cancelled(s)
  <2>1. /\ exit' = (IF exit = "no" THEN "EXIT" ELSE exit)
        /\ files' = [files EXCEPT ![s].closed = TRUE] /\ down' = Append(down, x)
    BY <1>3 DEF Cancelled
  <2>2. /\ ~dead /\ s \in Streams
        /\ UNCHANGED <<gone, dead, phase, pollout, cfiles, client, exitflag, printed, written, broken, reads, finished, reused>>
        /\ handled' \in BOOLEAN
        /\ SuccessMeansSent' /\ OutputComplete'
        /\ up' \in Seq(Up)
        /\ \A T, t : ToServer(T, t) <=> ToServer(T, t)' \/ ("READ" \in T /\ s = t)
        /\ \A T, t, S, u : Bars(up, About(T, t), About(S, u)) => Bars(up', About(T, t), About(S, u))
        /\ Among(up', Refused) => Among(up, Refused)
    BY <1>1, HandlingFacts DEF UpTypes
  <2>3. x \in Down /\ x.type = "READ_CANCEL" /\ x.stream = s BY <2>2, StreamFacts DEF Msg, Down, DownTypes
  <2>4. FileTypes /\ Exiting /\ Done /\ StdoutLife BY DEF FileInv
  <2> HIDE DEF x
  <2>5. /\ s \in Files /\ ~IsWritten(s)
        /\ (\A t \in Streams : t # s => Untouched(t)) /\ ~IsWritten(s)' /\ (s \in DOMAIN files \cup gone)'
               => \A t \in Files : Life(t)'
    <3>1. IsRead(s) BY <2>2 DEF IsRead
    <3> QED BY <2>2, <3>1, ReadStep
  <2>6. /\ down' \in Seq(Down)
        /\ \A T, t : ToClient(T, t)' <=> ToClient(T, t) \/ ("READ_CANCEL" \in T /\ s = t)
        /\ \A T, t, S, u : Bars(down, About(T, t), About(S, u)) /\ s # u => Bars(down', About(T, t), About(S, u))
        /\ Precedes(down, About({"WRITE_OPEN"}, STDOUT), Prints) => Precedes(down', About({"WRITE_OPEN"}, STDOUT), Prints)
        /\ Occurs(down', Prints) = Occurs(down, Prints)
    BY <2>1, <2>3, <2>4, DownSent DEF Prints
  <2>7. /\ DOMAIN files' = DOMAIN files /\ files'[s].buffer = files[s].buffer /\ files'[s] \in ServerFile
        /\ files'[s].kind = files[s].kind /\ files'[s].error = files[s].error
        /\ \A t \in DOMAIN files : t # s => files'[t] = files[t]
    <3>1. files[s] \in ServerFile BY <1>3, <2>4 DEF FileTypes, Table
    <3> QED BY <1>3, <2>1, <3>1 DEF ServerFile
  <2>8. FileTypes'
    <3>1. Table(files, ServerFile)' BY <2>4, <2>7 DEF FileTypes, Table
    <3>2. IsFiniteSet(DOMAIN files)' BY <2>4, <2>7 DEF FileTypes
    <3> QED BY <1>1, <2>1, <2>2, <2>4, <2>6, <3>1, <3>2 DEF FileTypes, Table
  <2>9. ASSUME NEW t \in Streams, t # s PROVE Untouched(t)
    BY <2>2, <2>6, <2>7, <2>9 DEF Untouched
  <2>10. \A t \in Files : Life(t)'
    <3>1. ~IsWritten(s)' BY <2>2, <2>5, <2>6, <2>7 DEF IsWritten
    <3> QED BY <1>3, <2>5, <2>7, <2>9, <3>1
  <2>11. StdoutLife' BY <1>1, <2>2, <2>5, <2>6, <2>9, StdoutKept, StreamFacts
  <2>12. Account'
    <3>1. OutputLeft' = OutputLeft BY <2>2 DEF OutputLeft
    <3>2. BufferLeft' = BufferLeft BY <2>7 DEF BufferLeft
    <3> QED BY <2>2, <2>6, <3>1, <3>2 DEF FileInv, Account, OutputTotal
  <2>13. Exiting'
    <3>1. \A t \in DOMAIN files : files'[t].buffer = files[t].buffer BY <2>7
    <3>2. Bars(down', About({"EXIT"}, 0), Prints) BY <2>4, <2>5, <2>6, StreamFacts DEF Exiting, Prints
    <3>3. s # 0 /\ s # STDOUT BY <2>2, <2>5, StreamFacts
    <3> QED BY <2>1, <2>2, <2>4, <2>6, <2>7, <3>1, <3>2, <3>3 DEF Exiting
  <2>14. Done'
    <3>1. \A t \in DOMAIN files : /\ files'[t].buffer = files[t].buffer
                                  /\ files'[t].kind = files[t].kind /\ files'[t].error = files[t].error
      BY <2>7
    <3> QED BY <1>1, <2>2, <2>4, <2>7, <3>1 DEF Done
  <2> QED BY <2>2, <2>8, <2>10, <2>11, <2>12, <2>13, <2>14 DEF FileInv
<1> QED BY <1>2, <1>3 DEF file_read_data

(* The client is lost: every file is done, with an error.                  *)
LEMMA LostStep ==
  ASSUME FileInv, server_client_lost
  PROVE  FileInv'
<1>1. /\ client # "running" /\ dead' = TRUE /\ phase' = "due" /\ down' = <<>>
      /\ files' = [s \in DOMAIN files |-> [files[s] EXCEPT !.error = TRUE]]
      /\ UNCHANGED <<gone, exit, up, handled, pollout, printed, reads, finished, reused>>
      /\ UNCHANGED <<cfiles, client, exitflag, written, broken>>
  BY DEF server_client_lost, clientvars, history
<1>2. FileTypes /\ Exiting /\ Done /\ StdoutLife BY DEF FileInv
<1>3. due' \in Seq(Streams) /\ ToSet(due') \subseteq ToSet(due) \cup DOMAIN files
  <2>1. PICK order \in [1 .. Cardinality(DOMAIN files) -> DOMAIN files] : due' = due \o order
    BY DEF server_client_lost
  <2>2. Cardinality(DOMAIN files) \in Nat BY <1>2, FS_CardinalityType DEF FileTypes
  <2>3. order \in Seq(Streams) /\ ToSet(order) \subseteq DOMAIN files
    <3> DEFINE n == Cardinality(DOMAIN files)
    <3>1. DOMAIN files \subseteq Streams BY <1>2 DEF FileTypes, Table
    <3> HIDE DEF n
    <3>2. order \in [1 .. n -> Streams] /\ DOMAIN order = 1 .. n /\ \A i \in 1 .. n : order[i] \in DOMAIN files
      BY <2>1, <3>1 DEF n
    <3>3. n \in Nat BY <2>2 DEF n
    <3> QED BY <3>2, <3>3 DEF ToSet
  <2>4. due \in Seq(Streams) BY <1>2 DEF FileTypes
  <2> QED BY <2>1, <2>3, <2>4, ConcatSet
<1>4. /\ \A T, t : ~ToClient(T, t)' /\ \A A, B : Bars(down', A, B) /\ Precedes(down', A, B)
      /\ Occurs(down', Prints) = 0 /\ down' \in Seq(Down)
  BY <1>1, OrderEmpty, OccursEmpty DEF ToClient
<1>5. DOMAIN files' = DOMAIN files /\ \A s \in DOMAIN files : 
          /\ files'[s] \in ServerFile /\ files'[s].error = TRUE
          /\ files'[s].kind = files[s].kind /\ files'[s].buffer = files[s].buffer
  BY <1>1, <1>2 DEF FileTypes, Table, ServerFile
<1>6. FileTypes'
  <2>1. Table(files, ServerFile)' BY <1>2, <1>5 DEF FileTypes, Table
  <2>2. IsFiniteSet(DOMAIN files)' BY <1>2, <1>5 DEF FileTypes
  <2> QED BY <1>1, <1>2, <1>3, <1>4, <2>1, <2>2 DEF FileTypes, Table
<1>7. \A t \in Streams : Untouched(t) BY <1>1, <1>4, <1>5 DEF Untouched, ToServer
<1>8. \A t \in Files : Life(t)' BY <1>7, LifeElsewhere, StreamFacts
<1>9. StdoutLife' BY <1>1, <1>4, <1>7, StdoutKept, StreamFacts
<1>10. Account'
  <2>1. OutputLeft' = OutputLeft BY <1>1 DEF OutputLeft
  <2>2. BufferLeft' = BufferLeft BY <1>5 DEF BufferLeft
  <2>3. OutputTotal' <= OutputTotal BY <1>1, <1>2, <1>4, <2>1, <2>2, Counts DEF Counted, OutputTotal
  <2>4. OutputTotal \in Nat /\ OutputTotal' \in Nat /\ printed \in Nat BY <1>2, <1>6, Counts, CountsNext DEF Counted
  <2> QED BY <1>1, <2>3, <2>4 DEF FileInv, Account
<1>11. Exiting' BY <1>1, <1>2, <1>4, <1>5 DEF Exiting
<1>12. Done' BY <1>1, <1>2, <1>3, <1>5 DEF Done
<1>13. OutputComplete' /\ SuccessMeansSent' BY <1>1 DEF FileInv, OutputComplete, SuccessMeansSent
<1> QED BY <1>6, <1>8, <1>9, <1>10, <1>11, <1>12, <1>13 DEF FileInv

(* file_fire_done_cb: the file is freed.                                   *)
LEMMA FreedStep ==
  ASSUME FileInv, NEW b \in BOOLEAN, file_fire_done_cb(b), NEW s, s = Head(due), s \in DOMAIN files
  PROVE  FileInv'
<1> DEFINE x == Msg("READ_CANCEL", s, FALSE)
<1>1. /\ due # <<>> /\ due' = Tail(due)
      /\ files' = Without(files, s) /\ gone' = gone \cup (Files \cap {s})
      /\ finished' = finished \/ (s \in Files /\ finished' = With(finished, s, files[s]))
      /\ \/ UNCHANGED <<exit, down>>
         \/ /\ files[s].kind = "input" /\ ~dead
            /\ exit' = (IF exit = "no" THEN "EXIT" ELSE exit)
            /\ UNCHANGED down \/ down' = Append(down, x)
      /\ UNCHANGED <<dead, phase, handled, pollout, cfiles, client, exitflag, up, printed, written, broken, reads, reused>>
  BY DEF file_fire_done_cb, turnvars, clientvars
<1>2. FileTypes /\ Exiting /\ Done /\ StdoutLife BY DEF FileInv
<1>3. /\ due' \in Seq(Streams) /\ s \in Streams /\ ToSet(due) = ToSet(due') \cup {s}
  <2>1. due \in Seq(Streams) BY <1>2 DEF FileTypes
  <2> QED BY <1>1, <2>1, TailSet, HeadTailProperties
<1>4. files[s] \in ServerFile BY <1>2 DEF FileTypes, Table
<1>5. exit' = exit \/ (exit = "no" /\ exit' = "EXIT") BY <1>1
<1>6. /\ DOMAIN files' = DOMAIN files \ {s} /\ \A t \in DOMAIN files' : files'[t] = files[t]
  BY <1>1 DEF Without
<1>7. /\ DOMAIN finished' \subseteq DOMAIN finished \cup (Files \cap {s})
      /\ \A t \in DOMAIN finished' : (t \in DOMAIN finished /\ finished'[t] = finished[t]) \/ (t = s /\ finished'[t] = files[s])
  BY <1>1 DEF With
<1> HIDE DEF x
<1>8. /\ down' \in Seq(Down)
      /\ \A T, t : ToClient(T, t) => ToClient(T, t)'
      /\ \A T, t : ToClient(T, t)' => ToClient(T, t) \/ ("READ_CANCEL" \in T /\ s = t /\ IsRead(s) /\ s \in Files)
      /\ \A T, t, S, u : Bars(down, About(T, t), About(S, u)) => Bars(down', About(T, t), About(S, u)) \/ (s = u /\ IsRead(s) /\ s \in Files)
      /\ Precedes(down, About({"WRITE_OPEN"}, STDOUT), Prints) => Precedes(down', About({"WRITE_OPEN"}, STDOUT), Prints)
      /\ Occurs(down', Prints) = Occurs(down, Prints)
  <2>1. CASE UNCHANGED down BY <1>2, <2>1 DEF FileTypes, ToClient
  <2>2. CASE files[s].kind = "input" /\ down' = Append(down, x)
    <3>1. x \in Down /\ x.type = "READ_CANCEL" /\ x.stream = s BY <1>3, StreamFacts DEF Msg, Down, DownTypes, x
    <3>2. IsRead(s) /\ s \in Files BY <1>2, <1>3, <2>2 DEF IsRead, StdoutLife, Streams
    <3> QED BY <1>2, <2>2, <3>1, <3>2, DownSent DEF Prints
  <2> QED BY <1>1, <2>1, <2>2
<1>9. FileTypes'
  <2>1. Table(files, ServerFile)' BY <1>2, <1>6 DEF FileTypes, Table
  <2>2. IsFiniteSet(DOMAIN files)'
    <3>1. IsFiniteSet(DOMAIN files) BY <1>2 DEF FileTypes
    <3> QED BY <1>6, <3>1, FS_Subset
  <2>3. Table(finished, ServerFile)'
    <3>1. DOMAIN finished \subseteq Streams /\ \A t \in DOMAIN finished : finished[t] \in ServerFile
      BY <1>2 DEF FileTypes, Table
    <3> QED BY <1>3, <1>4, <1>7, <3>1 DEF Table
  <2>4. exit' \in {"no", "EXIT", "EXITED"} /\ gone' \subseteq Files BY <1>1, <1>2, <1>5 DEF FileTypes
  <2> QED BY <1>1, <1>2, <1>3, <1>8, <2>1, <2>2, <2>3, <2>4 DEF FileTypes, Table
<1>10. ASSUME NEW t \in Streams, t # s \/ ~IsRead(s) PROVE Untouched(t)
  <2>1. /\ \A T : ToClient(T, t)' => ToClient(T, t)
        /\ \A T, S : Bars(down, About(T, t), About(S, t)) => Bars(down', About(T, t), About(S, t))
    BY <1>8, <1>10
  <2>2. t \in Files /\ t \in DOMAIN files \cup gone => t \in DOMAIN files' \cup gone' BY <1>1, <1>6
  <2> QED BY <1>1, <1>6, <2>1, <2>2 DEF Untouched, ToServer
<1>11. \A t \in Files : Life(t)'
  <2>1. CASE ~IsRead(s) BY <1>3, <1>10, <2>1, LifeElsewhere
  <2>2. CASE IsRead(s)
    <3>1. /\ s \in Files /\ ~IsWritten(s)
          /\ (\A t \in Streams : t # s => Untouched(t)) /\ ~IsWritten(s)' /\ (s \in DOMAIN files \cup gone)'
               => \A t \in Files : Life(t)'
      BY <1>3, <2>2, ReadStep
    <3>2. ~IsWritten(s)'
      <4>1. ~ToClient({"WRITE_OPEN", "WRITE", "WRITE_CLOSE"}, s)' BY <1>8, <3>1 DEF IsWritten
      <4>2. UNCHANGED <<cfiles, up>> /\ s \notin DOMAIN files' BY <1>1, <1>6
      <4> QED BY <3>1, <4>1, <4>2 DEF IsWritten, ToServer
    <3> QED BY <1>1, <1>10, <3>1, <3>2
  <2> QED BY <2>1, <2>2
<1>12. StdoutLife'
  <2>1. ~IsRead(STDOUT) BY <1>2 DEF StdoutLife
  <2>2. Untouched(STDOUT) BY <1>10, <2>1, StreamFacts
  <2> QED BY <1>1, <1>3, <1>8, <2>2, StdoutKept
<1>13. Account'
  <2>1. OutputLeft' = OutputLeft BY <1>1 DEF OutputLeft
  <2>2. CASE s # STDOUT
    <3>1. BufferLeft' = BufferLeft BY <1>6, <2>2 DEF BufferLeft
    <3> QED BY <1>1, <1>8, <2>1, <3>1 DEF FileInv, Account, OutputTotal
  <2>3. CASE s = STDOUT
    <3>1. broken \/ client # "running" BY <1>2, <1>3, <2>3 DEF StdoutLife, Exiting
    <3>2. BufferLeft' = 0 BY <1>6, <2>3 DEF BufferLeft
    <3>3. OutputTotal' <= OutputTotal BY <1>1, <1>2, <1>8, <2>1, <3>2, Counts DEF Counted, OutputTotal
    <3>4. OutputTotal \in Nat /\ OutputTotal' \in Nat /\ printed \in Nat BY <1>2, <1>9, Counts, CountsNext DEF Counted
    <3> QED BY <1>1, <3>1, <3>3, <3>4 DEF FileInv, Account
  <2> QED BY <2>2, <2>3
<1>14. Exiting'
  <2>1. dead => down' = <<>> BY <1>1, <1>2 DEF Exiting
  <2>2. Bars(down', About({"EXIT"}, 0), Prints) BY <1>2, <1>8, StreamFacts DEF Exiting, Prints
  <2>3. s # 0 BY <1>3, StreamFacts
  <2> QED BY <1>1, <1>2, <1>5, <1>6, <1>8, <2>1, <2>2, <2>3 DEF Exiting
<1>15. Done' BY <1>1, <1>2, <1>3, <1>6, <1>7 DEF Done
<1>16. OutputComplete' BY <1>1 DEF FileInv, OutputComplete
<1>17. SuccessMeansSent'
  <2>1. s \in Files /\ files[s].kind = "write" /\ ~files[s].error => files[s].buffer = 0 BY <1>2, <1>3 DEF Done
  <2> QED BY <1>1, <1>7, <2>1 DEF FileInv, SuccessMeansSent
<1> QED BY <1>9, <1>11, <1>12, <1>13, <1>14, <1>15, <1>16, <1>17 DEF FileInv

LEMMA DoneStep ==
  ASSUME FileInv, NEW b \in BOOLEAN, file_fire_done_cb(b)
  PROVE  FileInv'
<1>1. PICK s : s = Head(due) OBVIOUS
<1>2. CASE s \in DOMAIN files BY <1>1, <1>2, FreedStep
<1>3. CASE s \notin DOMAIN files
  <2>1. /\ due # <<>> /\ due' = Tail(due) /\ reused' = TRUE
        /\ UNCHANGED <<files, gone, exit, down, finished>>
        /\ UNCHANGED <<dead, phase, handled, pollout, cfiles, client, exitflag, up, printed, written, broken, reads>>
    BY <1>1, <1>3 DEF file_fire_done_cb, turnvars, clientvars
  <2>2. due' \in Seq(Streams) /\ ToSet(due') \subseteq ToSet(due)
    <3>1. due \in Seq(Streams) BY DEF FileInv, FileTypes
    <3> QED BY <2>1, <3>1, TailSet, HeadTailProperties
  <2>3. FileTypes' BY ZenonT(60), <2>1, <2>2 DEF FileInv, FileTypes, Table
  <2>4. \A t \in Streams : Untouched(t) BY <2>1 DEF Untouched, ToClient, ToServer
  <2>5. \A t \in Files : Life(t)' BY <2>4, LifeElsewhere, StreamFacts
  <2>6. StdoutLife' BY <2>1, <2>2, <2>4, StdoutKept, StreamFacts DEF ToClient
  <2>7. Account' BY <2>1 DEF FileInv, Account, OutputTotal, OutputLeft, BufferLeft
  <2>8. Exiting' BY <2>1 DEF FileInv, Exiting, ToClient
  <2>9. Done' BY <2>1, <2>2 DEF FileInv, Done
  <2>10. OutputComplete' /\ SuccessMeansSent' BY <2>1 DEF FileInv, OutputComplete, SuccessMeansSent
  <2> QED BY <2>3, <2>5, <2>6, <2>7, <2>8, <2>9, <2>10 DEF FileInv
<1> QED BY <1>2, <1>3

-----------------------------------------------------------------------------
LEMMA FileStart == FileInit => FileInv
<1> SUFFICES ASSUME FileInit PROVE FileInv OBVIOUS
<1>1. /\ files = <<>> /\ gone = {} /\ due = <<>> /\ phase = "loop" /\ handled = FALSE /\ pollout = FALSE
      /\ exit = "no" /\ dead = FALSE /\ cfiles = <<>> /\ client = "running" /\ exitflag = FALSE
      /\ down = <<>> /\ up = <<>> /\ printed = 0 /\ written = 0 /\ broken = FALSE /\ reads = 0
      /\ finished = <<>> /\ reused = FALSE
  BY DEF FileInit
<1>2. /\ \A T, t : ~ToClient(T, t) /\ ~ToServer(T, t)
      /\ \A T, S : Bars(down, T, S) /\ Bars(up, T, S) /\ Precedes(down, T, S)
      /\ ~Among(up, Refused) /\ Occurs(down, Prints) = 0
  BY <1>1, OrderEmpty, OccursEmpty DEF ToClient, ToServer
<1>3. DOMAIN files = {} /\ DOMAIN cfiles = {} /\ DOMAIN finished = {} /\ ToSet(due) = {}
  BY <1>1, EmptyQueue
<1>4. FileTypes
  <2>1. IsFiniteSet(DOMAIN files) BY <1>3, FS_EmptySet
  <2>2. Table(files, ServerFile) /\ Table(cfiles, ClientFile) /\ Table(finished, ServerFile) BY <1>3 DEF Table
  <2>3. due \in Seq(Streams) /\ down \in Seq(Down) /\ up \in Seq(Up) BY <1>1
  <2>4. printed \in 0 .. MaxPrint /\ reads \in 0 .. MaxReads /\ written \in Nat BY <1>1, BoundsNat
  <2>5. /\ gone \subseteq Files /\ phase \in {"loop", "peer", "due"} /\ exit \in {"no", "EXIT", "EXITED"}
        /\ client \in {"running", "exited", "killed", "unknown write", "unknown cancel"}
    BY <1>1
  <2>6. handled \in BOOLEAN /\ pollout \in BOOLEAN /\ dead \in BOOLEAN BY <1>1
  <2>7. exitflag \in BOOLEAN /\ broken \in BOOLEAN /\ reused \in BOOLEAN BY <1>1
  <2> QED BY <2>1, <2>2, <2>3, <2>4, <2>5, <2>6, <2>7 DEF FileTypes
<1>5. \A s \in Files : Life(s) BY <1>2, <1>3 DEF Life, IsRead, IsWritten
<1>6. StdoutLife BY <1>2, <1>3 DEF StdoutLife, IsRead
<1>7. Account BY <1>1, <1>2, <1>3 DEF Account, OutputTotal, OutputLeft, BufferLeft
<1>8. Exiting /\ Done BY <1>1, <1>2, <1>3 DEF Exiting, Done
<1>9. OutputComplete /\ SuccessMeansSent BY <1>1, <1>3 DEF OutputComplete, SuccessMeansSent
<1> QED BY <1>4, <1>5, <1>6, <1>7, <1>8, <1>9 DEF FileInv

LEMMA FileStutter ==
  ASSUME FileInv, UNCHANGED filevars
  PROVE  FileInv'
<1>1. /\ UNCHANGED <<files, gone, due, phase, handled, pollout, exit, dead, cfiles, client>>
      /\ UNCHANGED <<exitflag, down, up, printed, written, broken, reads, finished, reused>>
  BY DEF filevars
<1>2. FileTypes'
  <2>1. FileTypes BY DEF FileInv
  <2>2. (Table(files, ServerFile) /\ IsFiniteSet(DOMAIN files) /\ Table(cfiles, ClientFile) /\ Table(finished, ServerFile))'
    BY <1>1, <2>1 DEF FileTypes, Table
  <2>3. (gone \subseteq Files /\ due \in Seq(Streams) /\ phase \in {"loop", "peer", "due"})'
    BY <1>1, <2>1 DEF FileTypes
  <2>4. (handled \in BOOLEAN /\ pollout \in BOOLEAN /\ exit \in {"no", "EXIT", "EXITED"} /\ dead \in BOOLEAN)'
    BY <1>1, <2>1 DEF FileTypes
  <2>5. (client \in {"running", "exited", "killed", "unknown write", "unknown cancel"})'
    BY <1>1, <2>1 DEF FileTypes
  <2>6. (exitflag \in BOOLEAN /\ broken \in BOOLEAN /\ reused \in BOOLEAN)' BY <1>1, <2>1 DEF FileTypes
  <2>7. (printed \in 0 .. MaxPrint /\ written \in Nat /\ reads \in 0 .. MaxReads)' BY <1>1, <2>1 DEF FileTypes
  <2>8. (down \in Seq(Down) /\ up \in Seq(Up))' BY <1>1, <2>1 DEF FileTypes
  <2> QED BY <2>2, <2>3, <2>4, <2>5, <2>6, <2>7, <2>8 DEF FileTypes
<1>3. \A t \in Streams : Untouched(t) BY <1>1 DEF Untouched, ToClient, ToServer
<1>4. \A t \in Files : Life(t)' BY <1>3, LifeElsewhere, StreamFacts
<1>5. StdoutLife' BY <1>1, <1>3, StdoutKept, StreamFacts DEF ToClient
<1>6. Account' BY <1>1 DEF FileInv, Account, OutputTotal, OutputLeft, BufferLeft
<1>7. Exiting' /\ Done' BY <1>1 DEF FileInv, Exiting, Done, ToClient
<1>8. OutputComplete' /\ SuccessMeansSent' BY <1>1 DEF FileInv, OutputComplete, SuccessMeansSent
<1> QED BY <1>2, <1>4, <1>5, <1>6, <1>7, <1>8 DEF FileInv

(* The invariant holds in every state of FileSpec.                         *)
THEOREM FileInductive == FileSpec => []FileInv
<1>1. ASSUME FileInv, [FileNext]_filevars PROVE FileInv'
  <2>1. CASE FileCommand
    <3>1. CASE file_print BY <1>1, <3>1, FirstPrintStep, NextPrintStep
    <3>2. CASE \E s \in Files, b \in BOOLEAN : file_write(s, b) BY <1>1, <3>2, FileWriteStep
    <3>3. CASE \E s \in Files, b \in BOOLEAN, kind \in {"read", "input"} : file_read(s, kind, b)
      BY <1>1, <3>3, FileReadStep
    <3>4. CASE server_client_command_done BY <1>1, <3>4, QuietStep
    <3> QED BY <2>1, <3>1, <3>2, <3>3, <3>4 DEF FileCommand
  <2>2. CASE Server
    <3>1. CASE server_client_check_exit BY <1>1, <3>1, CheckExitStep
    <3>2. CASE StartTurn \/ EndPeer \/ EndTurn BY <1>1, <3>2, QuietStep
    <3>3. CASE file_write_ready BY <1>1, <3>3, WriteReadyStep
    <3>4. CASE file_read_done BY <1>1, <3>4, ReadDoneStep
    <3>5. CASE \E b \in BOOLEAN : file_read_data(b) BY <1>1, <3>5, ReadDataStep
    <3>6. CASE \E b \in BOOLEAN : file_fire_done_cb(b) BY <1>1, <3>6, DoneStep
    <3>7. CASE server_client_lost BY <1>1, <3>7, LostStep
    <3> QED BY <2>2, <3>1, <3>2, <3>3, <3>4, <3>5, <3>6, <3>7 DEF Server
  <2>3. CASE Client
    <3>1. CASE \E b \in BOOLEAN : file_write_open(b) BY <1>1, <3>1, WriteOpenStep
    <3>2. CASE \E b \in BOOLEAN : file_read_open(b) BY <1>1, <3>2, ReadOpenStep
    <3>3. CASE file_write_data BY <1>1, <3>3, WriteDataStep
    <3>4. CASE file_write_close BY <1>1, <3>4, WriteCloseStep
    <3>5. CASE file_read_cancel BY <1>1, <3>5, ReadCancelStep
    <3>6. CASE client_dispatch_exit BY <1>1, <3>6, DispatchExitStep
    <3> QED BY <2>3, <3>1, <3>2, <3>3, <3>4, <3>5, <3>6 DEF Client
  <2>4. CASE Killed BY <1>1, <2>4, KilledStep
  <2>5. ASSUME NEW s \in Streams, Descriptor(s) \/ file_read_callback(s) PROVE FileInv'
    <3>1. CASE file_read_callback(s) BY <1>1, <3>1, ReadCallbackStep
    <3>2. CASE \E b \in BOOLEAN : file_read_error_callback(s, b) BY <1>1, <3>2, ReadErrorCallbackStep
    <3>3. CASE file_write_callback(s) \/ file_write_error_callback(s) BY <1>1, <3>3, WriteCallbackStep
    <3> QED BY <2>5, <3>1, <3>2, <3>3 DEF Descriptor
  <2>6. CASE UNCHANGED filevars BY <1>1, <2>6, FileStutter
  <2> QED BY <1>1, <2>1, <2>2, <2>3, <2>4, <2>5, <2>6 DEF FileNext
<1> QED BY <1>1, FileStart, PTL DEF FileSpec

(* Every table, queue and flag of the two processes has its type; no more  *)
(* is written than was printed.                                            *)
THEOREM FilesTyped == FileSpec => []FileTypeOK
<1>1. FileInv => FileTypeOK
  <2> SUFFICES ASSUME FileInv PROVE FileTypeOK OBVIOUS
  <2>1. FileTypes /\ Account /\ Done BY DEF FileInv
  <2>2. written \in 0 .. printed
    <3>1. /\ written \in Nat /\ OutputLeft \in Nat /\ Occurs(down, Prints) \in Nat /\ BufferLeft \in Nat /\ printed \in Nat
      BY <2>1, Counts DEF Counted
    <3> QED BY <2>1, <3>1 DEF Account, OutputTotal
  <2> QED BY <2>1, <2>2 DEF FileTypeOK, FileTypes, Table, ServerFile, ClientFile, Done
<1> QED BY <1>1, FileInductive, PTL

(* A client that was told to exit leaves only when everything printed to   *)
(* its standard output has been written, or cannot be; no write or close   *)
(* ever names a stream the client does not know (file_write_data and       *)
(* file_write_close of file.rs would be fatal).                            *)
THEOREM OutputIsComplete == FileSpec => []OutputComplete
<1>1. FileInv => OutputComplete BY DEF FileInv
<1> QED BY <1>1, FileInductive, PTL

(* save-buffer that reports no error has handed all its data to a client   *)
(* that opened the file (file_write_ready, file_fire_done_cb).             *)
THEOREM SuccessIsSent == FileSpec => []SuccessMeansSent
<1>1. FileInv => SuccessMeansSent BY DEF FileInv
<1> QED BY <1>1, FileInductive, PTL
=============================================================================
