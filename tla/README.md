# TLA+ models of ztmux

ztmux is a port of tmux to Rust. One *server* process owns sessions, windows,
panes and their terminals; *client* processes connect to it over a Unix socket,
either to attach a terminal or to run one command. The port keeps tmux's
structure (`src/src/ported/`, one file per C file) and replaces libevent by an
event loop of its own (`src/src/extensions/event_loop/`).

Every process is one thread. Nothing runs in parallel inside a process, and yet
most of the hard behaviour is concurrency: callbacks of the event loop
interleave, commands wait across many turns of the loop while other commands
run, raw pointers are kept meanwhile, signals interrupt between any two steps,
and two processes exchange messages that are in flight when either one changes
its mind. The models here are about that.

Line numbers in this text refer to the files under `src/src/`.

## 1. Inventory

`PROJECT.json` lists every component with its sources. The ones with state
that several actors share:

| component | state | operations | who else touches it | what is hard |
|---|---|---|---|---|
| wait channels (`ported/cmd_wait_for.rs`) | the tree of channels: `locked`, `woken`, the queues of waiters and lockers | signal, wait, lock, unlock, flush | items of every command queue; the loss of a client; server exit | an item may hang on a channel for ever, be woken by another queue, or belong to a client that is dead |
| command queues (`ported/cmd_queue.rs`) | one list of items per client and a global one; `queue.item`; flags FIRED and WAITING; groups | append, insert after, continue, fire, remove, remove group | all commands, keys, hooks, notifications, jobs; `server_loop` | insertion while a list is being run, items continued by address, errors that cancel a group |
| notifications (`ported/notify.rs`) | entries in the global queue with references | `notify_*`, `notify_callback` | every component that changes something | whether a hook is running is asked of the queue, not known |
| asynchronous commands (`ported/cmd_if_shell.rs`, `cmd_run_shell.rs`, `cmd_split_window.rs`) | a job or a file with the item and the client it belongs to | start, end, fail to start, target gone | jobs, files, the queue | one of several clean-up steps is missing on an error path |
| event loop (`extensions/event_loop/base.rs`, `backend.rs`) | registrations, the queue of due callbacks, generations, SIGNALS_RAISED, the wake-up pipe | `event_set/add/del/active/once/reinit`, one turn | every component; signal handlers | callbacks delete or free events that are queued; signals arrive anywhere; fork |
| client files (`ported/file.rs`) | `client_file` trees on both sides, buffers, deferred callbacks | print, write, read, cancel; open, data, close on the client | commands, `server_client_lost`, the exit of the client | messages that cross, the exit that must not overtake data, double completion |
| starting the server (`client_connect`, `client_get_lock` in `ported/client.rs`; `server_start`, `server_create_socket` in `ported/server.rs`) | the lock file and its flock, the socket's path, `lockfd` in two processes | connect, lock, unlink, fork, bind, listen, unlink the lock file, SIGUSR1 | every client that finds no server, and every server | the file that is locked may have lost its name; anybody may die between two system calls |
| client process (`ported/client.rs`) | flags, the reason to exit | dispatch, exit | the server | the exit that waits for output |
| clients in the server (`ported/server_client.rs`) | CLIENTS, flags, references | create, dispatch, lose, unref, free, check exit | queues, files, notifications, jobs | reference counts through all of these |
| peers (`ported/proc.rs`) | message buffers, PEER_BAD | read, write, dispatch, `proc_loop` | client and server | reading and writing in one callback |
| server loop (`ported/server.rs`) | SERVER_EXIT, the accept event | `server_loop`, accept, signals, start | everything | when to sleep, when to exit, start-up |
| jobs (`ported/job.rs`) | running, dead, closed | run, read, SIGCHLD, kill, hand over to a pane | commands, formats, popups | the child may end before or after its output |
| control mode (`ported/control.rs`) | per-pane blocks and offsets, the list of all blocks, the write event | queue, write, pause, continue, discard, on, off | panes and their buffers, the client's socket | order between output and notifications, fairness, age limit; bytes that are only referred to |
| sessions, windows, winlinks (`ported/session.rs`, `window.rs`) | trees with references, groups, last-window stack | create, link, unlink, move, swap, select, renumber, destroy | all commands, clients that come and go | references, group synchronisation, sessions destroyed while their clients are moved |
| panes (`ported/spawn.rs`, `server_fn.rs`, `window.rs`) | fd, pid, status, flags, pipe | spawn, death, respawn, remain-on-exit, pipe | SIGCHLD, the pane's descriptor | two independent signs of death, process numbers used again |
| layouts (`ported/layout*.rs`) | trees of cells | split, resize, close, spread, presets, text | windows | sizes at the minimum, unsigned arithmetic |
| resizing (`ported/resize.rs`, `server_client.rs`, `window.rs`) | sizes of windows from those of clients, a deferred resize, the queue of sizes of a pane, its timer | recalculate, resize, pass on | clients, options, layouts | clients that come and go, values that are stale |
| alerts (`ported/alerts.rs`) | queued windows, flags, timers | queue, callback, timer, reset | panes, sessions | deferred check of a window that changed again |
| paste buffers (`ported/paste.rs`) | two trees | add, set, rename, free | options | limit, automatic names |

Grid and screen, the input parser, terminal output, keys, options,
environment, formats, status line, modes, menus, command parsing, target
resolution, access control and the extensions (plugin host, resurrect,
triggers) are sequential; `PROJECT.json` says of each why it is left out.

How they fit together: `proc_loop` (`ported/proc.rs:242`) alternates one turn
of the event loop with `server_loop` (`ported/server.rs:321`). A turn runs
callbacks: a peer's messages, a pane's output, a job's end, a timer, a signal.
Callbacks *queue* commands and notifications. `server_loop` then runs
`cmdq_next` on the global queue and on every client's queue until no queue ran
an item, and checks who has to exit. A command may *wait*: its item stays at
the head with `CMDQ_WAITING` until somebody calls `cmdq_continue` on its
address. At the end `server_client_loop` looks at every client and window: it
resizes windows, passes sizes on to panes, drops what every client has read of
a pane's buffer and lets clients exit.

The hazards in `PROJECT.json` are what this structure is exposed to, each at
the line where it bites and with the properties that would show it.

## 2. The modules

| module | models | variables ↔ code |
|---|---|---|
| `WaitFor` | `cmd_wait_for.rs` whole | `exists` = WAIT_CHANNELS; `locked`, `woken`, `waiters`, `lockers` = fields of `wait_channel`; `waiting` = CMDQ_WAITING of the heads; `granted`, `flushed` are history |
| `CmdQueue` | `cmd_queue.rs`, `notify.rs`, `server_loop`'s passes, the asynchronous commands, client references | `list` = `cmdq_list.list`; `held` = `cmdq_list.item`; `cur`, `todo`, `ran` = where `server_loop` stands; `jobs` = the data of running if-shell, run-shell and split-window -I; `refs`, `freeing`, `freed` = a client's life |
| `EventLoop` | `base.rs`, `backend.rs` | `pending`, `active`, `next_gen` = `EventBase`; `conf`, `flag`, `gen` = fields of `event`; `raised`, `pipe`, `installed` = signals; `phase`, `running` = where `run_one_turn` stands |
| `FileIO` | `file.rs` on both sides, with the parts of `client.rs`, `server_client.rs`, `proc.rs` and `window.rs` that drive it | `files` = `c->files`; `cfiles` = CLIENT_FILES; `due` = deferred `file_fire_done_cb`; `down`, `up` = the socket |
| `ServerStart` | `client_connect`, `client_get_lock`, `server_start`, `server_create_socket`, SIGUSR1 | `pc`, `locked`, `inode` = a client in `client_connect`, its `locked` and the file behind its `lockfd`; `open`, `holds` = who has that descriptor, whose has the flock; `lockfile`, `socket` = what the two names refer to; `server` = where each server stands; `answers` = somebody listens on the socket; `faults` counts what the properties except |
| `Sessions` | `session.rs`, the winlinks of `window.rs`, `server_fn.rs`, `spawn_window` and the commands on sessions and windows | `sess[s].links` = the winlinks by index, `curw`, `lastw`, `visited` (WINLINK_VISITED), `attached` = fields of `session`; `groups` = SESSION_GROUPS; `refs` = `window.references`; `client` = session and flags of each client |
| `ControlPromise` | what a control client may rely on | `todo` = what waits, `front` = which line is behind what, `last` = the newest byte of each pane, `sent` = what the last step wrote |
| `ControlMode` | `control.rs`, `bufev.rs` as it uses it, `server_client_check_pane_buffer` and `server_client_check_exit` | `pane` = buffer (`base`, `len`, `offset`) and descriptor of each pane; `cp` = `control_pane`; `all_blocks`, `pending_list` = fields of `control_state`; `ev` = the bufferevent; `w` = where the write callback stands |
| `Children` | `job.rs`, `server_child_exited`, `server_destroy_pane`, `spawn_pane`, `cmd_respawn_pane.rs`, `cmd_pipe_pane.rs`, `popup_make_pane` | `pane`, `job` = the fields that say whether they live; `proc`, `output` = the processes and what they have open; `ended` is history |
| `PaneSize` | the size of one pane, its `resize_queue` and its terminal | `pane` = `sx`, `resize_queue`, `resize_timer`, `fd`, the size of the terminal |
| `Resizing` | `resize.rs`, `server_client.rs` and the commands that change sizes, for clients, sessions and windows; extends `PaneSize` for the pane of one window | `client` = session, flags, `tty` size, sizes given per window; `win` = `sx`, `new_sx`, RESIZE, `latest`, `manual`, options; `attached` = `session.attached`; `missed` is history |
| `Layout` | `layout.rs`, `layout_set.rs`, `layout_custom.rs` and the commands on them | `root` = `layout_root`, a tree of records; `win` = size of the window; `panes` = how many; `status` = pane-border-status |
| `QueueLemmas` | facts about sequences used as queues, for the proofs | |
| `WaitForProofs` | the theorems about `WaitFor` | |
| `ServerStartProofs` | the theorems about `ServerStart` | |
| `ResizingProofs` | the theorems about `PaneSize` and `Resizing`, the refinement among them | |
| `ProcessProofs` | the theorems about `Children` and about `FileIO` | |
| `EventLoopProofs` | the theorems about `EventLoop` | |
| `CmdQueueProofs` | the theorems about `CmdQueue` | |
| `ControlProofs` | the theorems about `ControlMode`, and that it implements `ControlPromise` | |
| `Filters` | `Only`, the subsequence of the elements in a set, for `EventLoop`, `CmdQueue` and `ControlMode` | |
| `MC*` | instances for TLC | |

An action has the name of the function it models; one call is one step, because
nothing else runs in the process meanwhile. Where a function is interrupted (a
turn of the event loop, a pass of `server_loop`), its steps are the points
where something else can happen; the write callback of control mode is one such
function, because its parts are what `ControlPromise` speaks of. `ServerStart` is about many processes, and its
steps are system calls. In `PROJECT.json`, `map` gives the lines of
each definition.

What is abstracted: command lists have two commands, and a command is one of
the kinds that differ for the queue (normal, error, inserts others, waits,
starts a background job, notifies, signals a channel); a key is bound or not; a
job is how it ends; data is a number of chunks; a deadline has passed or not; a
descriptor may be ready at any time; a size is one number in `PaneSize` and
`Resizing` and two in `Layout`.

In `Sessions`, `ControlMode`, `Children` and `Resizing` a variable `faults` (in
`Resizing` `missed`) records that the code has done something its own later
steps do not expect: a winlink left pointing to freed memory, bytes dropped
under a block, a process number used again. The properties say which of them
they except, the constant `Beyond` says after which of them the model goes on,
and section 3 lists what they are. Nothing else is excepted.

Three points of `CmdQueue` deserve a word.

* **Groups.** An error removes the items with the failed command's group
  (`cmd_queue.rs:549`). A list gets its group when it is parsed, so the
  commands of a hook, of a key binding, and of an argument in braces have the
  same group every time they are queued (`HookGroup`, `KeyGroup`,
  `BraceGroup`); everything else is parsed when it is used. `InBraces` chooses
  how the commands of background jobs were given. `ErrorsStopTheirList` holds with
  it FALSE and says why hooks and keys are safe: a hook is never inserted by a
  hook's commands, and a key is only *queued*, so that it is looked up after
  what earlier keys queued (`server_client.rs:3527`). With it TRUE
  `OnlyTheSequenceStops` fails; see disagreement 3.
* **The lent client.** An item without a client gets one for the time it runs
  (`cmd_queue.rs:684`), and what it inserts keeps it: this is where references
  are easiest to lose. `Lent` is the set of clients it may get.
* **The end of a pass.** `cmdq_next` does not count an item that starts to
  wait, so `server_loop` may go to sleep with a notification queued by
  split-window -I. `SleepsWhenIdle` states exactly what it may leave.

Four modules make something explicit that the code leaves open.

* **`Sessions`** passes the whole state through operators named after the
  functions (`session_detach(q, s, i)` returns the state after it), because the
  functions call each other in loops over sessions and clients; an action
  makes the result the next state. Options are read once per command, as `e`.
* **`ControlMode`** implements `ControlPromise` with what waits in `all_blocks`
  and in the message being put together as `todo` (`KeepsPromise`): lines are
  sent in order, a line never before output queued ahead of it, the bytes of a
  pane in order; output may be given up, never reordered or repeated.
* **`Resizing`** implements `PaneSpec` of `PaneSize` for the pane of one window
  (`PaneDriven`): clients, commands and options only ever do to a pane what
  `PaneNext` allows, so that the theorems about `PaneSize` hold of it.
* **`Layout`** takes as parameters which inputs are outside what its functions
  can do (`Unsafe`): with `Unsafe = {}` they are left out, and with one of
  "main", "hint", "full", "spread", "even" or "tiled" TLC shows what happens.

## 3. What is checked

| run | instance | states | shows |
|---|---|---|---|
| `wait_for` | 2 clients + global, 2 channels, symmetry, no bound | 68 105 | no item is on two lists or on none (`WaitersOnce`), a freed channel held nothing (`NothingLost`), nobody waits for what is there (`NoNeedlessWait`), locks exclude (`MutualExclusion`) |
| `cmd_queue` | 1 client + global, MaxLists 4, MaxJobs 1 | 1 842 849 | who continues an item points at a waiting head and no item runs twice (`WakersAreValid`), errors cancel all of their own list and nothing else (`ErrorsStopTheirList`), order (`ListsInOrder`), sleep (`SleepsWhenIdle`) |
| `cmd_queue_clients` | 2 clients + global, MaxLists 2, MaxJobs 2, fair | 253 159 | each pointer to a client has a reference (`RefsExact`), freeing happens once and finds an empty queue (`FreeIsSafe`), queues drain (`QueuesDrain`) |
| `event_loop` | 2 events, 1 signal, 6 calls, fair | 508 706 | tables without freed, stale or twice-due events that agree with the events' flags (`NoDangling`, `NothingStale`), no lost wake-up (`SignalsWake`); deferred callbacks run and signals are heard (`EventsHappen`) |
| `file_io` | 2 files + standard output, 1 print, 2 reads, fair | 561 009 | no unknown stream when writing and no output lost at exit (`OutputComplete`), success means sent (`SuccessMeansSent`); operations end (`OperationsEnd`), clients exit (`ClientsExit`) |
| `server_start` | 3 clients, MaxFaults 1, fair | 48 934 | at most one server (`OneServer`), whose socket stays (`ServerReachable`), whoever is killed; `client_connect` returns (`ConnectReturns`) |
| `sessions` | 2 sessions, 2 windows, 2 clients (the second with no-detach-on-destroy), indices 0–2 and 4 links (0–1 and 2 while there are clients), two sets of options, symmetry | 44 303 | references of windows are exact (`RefsExact`), current and last windows are links of their session (`CurrentAndLast`), groups show the same windows (`GroupShares`), an active client has a session that exists (`ClientsAttached`) |
| `control_mode` | 2 panes with 2 bytes and 1, 1 line, 1 command, fair | 190 166 | blocks are the bytes between two offsets and still in the pane's buffer (`BlocksMatch`), `ControlPromise` is implemented (`KeepsPromise`), lines and the exit come through (`OutputEnds`) |
| `children` | 1 pane, 1 job, 2 process numbers, fair | 220 698 | a pane's status is that of its process (`StatusIsOwn`), a job completes after its output (`JobResult`), dead panes are removed or shown (`PanesSettle`), jobs end (`JobsEnd`) |
| `resizing` | 2 clients (one may be a control client), 2 sessions, 2 windows, 2 sizes, 4 changes, fair | 442 391 | window sizes are what `resize.rs` would calculate now (`SizesFresh`), the queue of sizes leads from the terminal's size to the pane's (`QueueLeads`), `PaneSize` is implemented (`PaneDriven`), the terminal gets the last size (`SizesSettle`) |
| `layout` | windows of 2x7 and 5x8 (a preset makes them larger), 4 panes, sizes 2, 3 and 5 for split-window and resize-pane | 18 987 | cells tile the window (`Tiling`), resize-pane reaches its size or the nearest (`ResizeToIsExact`), a window resize reaches the new size or the layout's least (`WindowReached`) |

Bounds. `wait_for` needs none: the state space is finite. `MaxLists` counts
every list, key and notification that is ever queued: four let a list, a hook
between its commands, a key and a notification overlap, three levels of
insertion included; two lists with two clients let each client be lost while
the other's item was lent it. `MaxJobs` only limits jobs with -b, of which two
are needed for two runs of one list. Six calls of the event functions cover
register, queue, delete, register again and free of one event around a
registration of another. One print is the open, which holds data back, and the
push, which does not wait; two files let a second operation meet what the first
left on the client. Three clients are one that starts the server, one that waits
for its lock and one that comes after the lock file was removed, so that there
are two lock files at once. A fault is a client that goes on without the lock
(no lock file, or flock not supported), or a server that does not get its
socket, is told by SIGUSR1 to make it again, or ends after it had started;
the properties except what follows one, so the model stops at the first. The
deaths of clients and of servers that are still starting are not faults: safety
holds in spite of them.

Two sessions make a group, two sessions without one, or a group with one
member; two windows and four links let a window be linked twice in a session
and in both sessions; three indices leave a gap to move to and renumber away.
While there are clients two links in two indices are enough: what matters is
that each session has a window, or that one has both. Two clients of one session
are what `server_destroy_session` has to move one after the other; only the
second has no-detach-on-destroy, so that the first is sent away where the second
is moved on. One set of options has destroy-unattached keep-last and
detach-on-destroy next, the other, with renumber-windows, on and on.
Two panes share the socket of a control client, whose buffer holds less than
both have written; two bytes of a pane are what has been sent and what has not,
and one of the other pane waits between them. Two process numbers are needed for a pane that is respawned and a job, and
one of them is used again. Two clients of different size, two sessions and two
windows let each client be the reason for either size; four changes are an
attach, a second one, a change and one that meets the deferred resize. Options
and manual sizes are set for the window both sessions have; the other one keeps
its own.
In 5 columns three panes side by side are at their minimum of one column each,
and in 7 lines four panes one below the other, with no line to spare for a pane
status; 8 lines are just enough for that and leave a rest when divided by three.
Two columns are too few for two panes beside each other until a preset makes the
window wider. Four panes nest a column in a row in a column. resize-pane is given
two sizes often within reach and one that mostly is not.

Symmetry is used in `wait_for` (clients and channels) and `sessions` (windows),
which check no liveness. `CHECK_DEADLOCK FALSE` is set where a bound or the end of
the processes stops the system; wait channels, sessions and layouts never stop.

Fairness. `CmdQueue`: weak fairness of `server_loop` and of its steps, because
`proc_loop` calls it after every turn and it only returns when no queue ran an
item; callbacks, clients and jobs are not assumed to do anything. `EventLoop`:
weak fairness of the loop's own steps (a process stays in its loop, callbacks
return) and of every deadline (time passes); descriptors and signals may stay
silent. `FileIO`: weak fairness of both processes' loops and of the client's
descriptors (a file or pipe comes to its end or fails); commands need not come
and the client may be killed at any time. `ServerStart`: weak fairness of every
process (the kernel schedules it, and flock gives a free lock to one that waits);
deaths may happen but need not, and `ConnectReturns` promises nothing after one
because of disagreement 6. `ControlMode`: weak fairness of the steps of the
write callback, of the event loop writing to the socket (which may take none of
it, but not for ever) and of `server_client_loop`; panes and commands need do
nothing. `Children`: weak fairness of each callback of a pane and of a job, and
of SIGCHLD for each dead process; no process is assumed to end or to write.
`Resizing`: weak fairness of `server_client_loop` and of a pane's resize timer.

### Disagreements found

1. Run `layout_main`, `Tiling`: main-horizontal and main-vertical with two panes
   leave the other pane the size it had along the main pane's edge
   (`layout_set.rs:295`): after the tree is built, only the offsets are fixed,
   so the second cell reaches outside the window, or leaves part of it without
   a pane, until something resizes the window.

The others are configurations beside the list of runs. Each checks one
property that states what a document, comment or assertion says, and TLC shows
that it does not hold (`tlc -config MCCmdQueueNotify.cfg MCCmdQueue`):

2. `MCCmdQueueNotify`, `NotificationsKept`: `cmdq_next` leaves `queue.item` set
   when it stops at a waiting item (`cmd_queue.rs:917`), and `cmdq_continue`
   only clears the flag. Until the queue runs again `cmdq_running` ("Get running
   item if any", `src/vendor/tmux/cmd-queue.c:810`) returns an item that is not
   running; if that item belongs to a hook, every notification raised meanwhile
   is dropped.
3. `MCCmdQueueBraces`, `OnlyTheSequenceStops`: with the commands of
   `if-shell -b` in braces, two ended jobs queue the same group, and an error
   in one run removes the commands of the other.
4. `MCFileIOCancel`, `CancelsKnown`: the server cancels a read that the client
   has just ended; the client dies with `fatalx("unknown stream number")`
   (`file.rs:984`).
5. `MCFileIODone`, `DoneArgValid`: a message that ends a file and a failed
   write that loses the client in the same callback schedule
   `file_fire_done_cb` twice for one `client_file`.
6. `MCServerStartHeld`, `HeldMeansStarting`: "If already held then server start
   is happening in another client" (the comment on `client_get_lock` in
   `src/vendor/tmux/client.c:73`). A client that waited takes the lock only to
   give it back and try again (`client.rs:78`). If the client that had it first
   died, those that waited find it held by each other, and none starts a server
   until the order of their calls happens to change.
7. `MCControlShort`, `NeverShort`: turning a pane on, continuing it or discarding
   its output moves its offset forward while blocks are still in the list of
   all blocks. They then refer to bytes that
   `server_client_check_pane_buffer` may drop, and the server ends with
   `fatalx("not enough data")` in `control_append_data`.
8. `MCResizingLatest`, `LatestSize`: "latest uses the size of the client that
   had the most recent activity" (tmux.1). `server_client.rs:469` sets
   `latest` of a client's window after the sizes have been calculated, and the
   next key returns early because the client is the latest already, so that the
   window may keep the size of the client before.
9. `MCChildrenEvent`, `EventLive`: pipe-pane's callback uses the pane's
   bufferevent, which is gone once the pane's output has ended; `write_ready`
   (`extensions/event_loop/bufev.rs`) uses its bufferevent after a callback
   that may have freed it; and a failed `respawn-pane -k` leaves the pane with
   an event that was freed.

What the models except, because the code does it and no property above could
hold otherwise. Each is a label in `faults`, `missed` or `leaked`, added where
it happens, or an input kept out by `Unsafe`.

* *Event loop.* `event_active` and `event_once` promise "the next loop turn"
  (`extensions/event_loop/base.rs:336`, 402), but `dispatch` drains the queue
  until it is empty, so what a callback queues runs in the same turn.
* *Client references.* `RefsExact` of `CmdQueue` counts two leaks
  (`cmd_if_shell.rs:119`, `window.rs:2279`) and shows that there is no other.
* *Sessions.* A failed `new-window -k` leaves the current window pointing to the
  link it has removed ("dangling") and, in a group, one member without the
  window it replaced ("unshared"); `kill-window -a` in a group goes on with a
  winlink that synchronising has freed ("stale kill-window -a"); members of a
  group may come to number their windows differently, after which
  synchronising leaves a session without a current window ("indices");
  renumbering a session with a window linked twice confuses its last windows
  ("linked twice"); `new-session -t` may join a group left over from another
  session of that name ("joined"); destroy-unattached takes the session of a
  suspended client, who then wakes up without one ("deserted",
  `server_client.rs:4406`); and `server_destroy_session` chooses the session its
  clients go to before it moves them (`server_fn.rs:471`, 501), while moving a
  client destroys unattached sessions: when a client that comes first is not
  attached to the one chosen, because it has to go, is suspended or about to
  exit, destroy-unattached may take it, and the next client is moved to a
  session that is gone, whose current window is null (`server_client.rs:465`)
  ("gone"). With the default detach-on-destroy it takes two clients, of which
  the second has no-detach-on-destroy. `GoneBefore` is the exact condition,
  and each of its two causes occurs in the run. unlink-window without -k counts the references of
  queued notifications and alerts as links, and so may remove the last one of a
  window ("unlinked"). The current windows of a group are not independent as
  tmux.1 has it: `session.rs:752` keeps them by index.
* *Control mode.* Offsets moved under blocks ("skipped", "off", "relinked",
  "gone"; disagreement 7 is what may follow); no-output leaves blocks no pane
  has ("orphan"); a respawned pane starts to count anew while offsets stay
  ("respawned"); lines may be left in the list when nothing asks to write
  ("left"); an error in reading stops writing too ("end of file"), and after an
  error in writing the client never finishes its exit ("write error").
* *Children.* SIGCHLD is looked up by process number, and a number that is used
  again may be taken for the pane that had it before ("reused",
  `server.rs:582`); a pane with a pipe that only reads is never written and
  lingers; a popup of a job that is dead becomes a pane that gets no status
  ("dead job").
* *Resizing.* Suspending a client, `refresh-client -f` and a `switch-client -r`
  that returns before it sets the session (with `-T`, or without a session to
  go to) change what counts and recalculate nothing; `latest` may point to a client
  that is lost (`server_client.rs:439`).
* *Layout.* Sizes do not add up after a split -l with more than the cell can
  give but no more than its width ("hint"), a split -f beside divided cells
  that are nearly at their least ("full"), and select-layout -E next to two
  panes and a divided cell, which is not counted ("spread"). even-vertical with
  pane-border-status on and less than two lines for each pane leaves every cell
  the height of the window, because `layout_spread_cell` returns when there is
  no line for each (`layout.rs:2002`) ("even"); tiled in a window narrower than
  its columns widens the root and not the rows (`layout_set.rs:712`, 749)
  ("tiled"). "main" is disagreement 1. `Unsafe*` in the module gives the exact
  conditions; the windows of the run are such that any one of the six, allowed
  alone, breaks `Tiling`, and that the sizes just beside "even" and "tiled"
  occur.

## 4. What is proved

`WaitForProofs`, for every set of clients and of channels:

* `WaitForInvariant`: `Spec => []IInv`;
* `WaitersOnceTheorem`, `MutualExclusionTheorem`, `NothingLostTheorem`,
  `NoNeedlessWaitTheorem`: what the run `wait_for` checks on three queues.

The only assumption is that the global queue is not a client. The inductive
invariant `IInv` is the conjunction of `TypeOK` and the four invariants of the
run; none of them is inductive alone. `cmd_wait_for_remove` may free a channel
only because `NoNeedlessWait` says that an unlocked channel has no lockers;
blocking a queue keeps lists apart only because `WaitersOnce` says that a queue
that runs is on none; the lock handed over by `cmd_wait_for_unlock` has one
holder only because `MutualExclusion` held before. There is one lemma per
operation, with one step per conjunct it can disturb; what appending to and
taking the head of a sequence do to its set of elements and to its injectivity
is in `QueueLemmas`.

`ServerStartProofs`, for every set of clients:

* `ServerStartInvariant`: `Spec => []IInv`;
* `OneServerTheorem`, `ServerReachableTheorem`: what the run `server_start`
  checks for three clients.

The assumptions are those of the module: whoever may start a server is a
client, `None` is not, and `MaxFaults` is positive. `IInv` is `TypeOK`,
`OpenFiles` (which processes have `lockfd` open at which point) and, as long as
there was no fault, `Safe`:

* `Descriptors` and `Locks`: whoever is past `client_get_lock` has a lock file,
  and two holders of a lock have different files;
* `StartersHold`: a client that has decided to start a server, and a server that
  is starting, hold a lock;
* `OneLockFile`: until a server is up, all open lock files are the one the name
  refers to;
* `UpAlone`: once a server is up, no client is about to start another;
* `Sockets`: the socket belongs to the server at each of its steps.

The argument has two parts. Until a server is up there is one lock file, so the
flock excludes. When the server has removed the file's name, several clients may
hold locks on different files, and the flock excludes nothing any more; but the
server listens before it removes the name, and a client that gets a lock tries
to connect once more before it starts a server (`client.rs:147`), which then
succeeds. Either half alone is not inductive. Each action has its lemma, with
one step per part of the invariant.

`ResizingProofs`, first about `PaneSize` alone, for every set of positive sizes
and any number of resizes between two turns of the loop:

* `PaneSizeCorrect`: the queue leads step by step from the size of the terminal
  to that of the pane, whatever was left out, and when it is empty the terminal
  has the pane's size (`QueueLeads`, which the run `resizing` checks for two
  sizes);
* `PaneRedraws`: whatever `server_client_check_pane_resize` sends is a change of
  the terminal's size ("We must resize at least twice to force the application
  to redraw"), so that the application hears of it.

The invariant `PaneInv` is the types and `QueueLeads`: that consecutive entries
of the queue meet, that none of them is no change, and where it starts and ends.
This is what lets the check leave out all but the first and the last.

Then about `Resizing`, for every finite set of clients and all sets of sessions,
windows and sizes, however often anything changes:

* `ResizingTypeCorrect`, `SizesFreshHolds`: the size of a window, set or asked
  for, is what `resize.rs` would calculate now, unless `missed` says what
  changed without a recalculation;
* `PaneDrivenHolds`: `Resizing` implements `PaneSize`. Every action of
  `Resizing` is a step of `PaneNext` for the pane of the watched window, or
  leaves it alone;
* `QueueLeadsHolds`, `RedrawsHolds`: by that refinement, the two theorems about
  `PaneSize` hold of the whole.

The assumptions are `ResizingAssumption`: the set of clients is finite (only the
prover needs to be told: the smallest size is taken over it), each session has a
window, options and flags are those that exist. `TypeOK` and `SizesFresh` are
inductive together: the types include that a window that has been asked for a
size has one to take, and `SizesFresh` includes that `attached` counts the
clients of a session. What carries it is that `clients_calculate_size` depends
on the clients and options only, and that `recalculate_size` changes neither.

`ProcessProofs`, first about `Children`, for all sets of panes, jobs and process
numbers, and whatever faults the model goes on after:

* `TypeCorrect`;
* `StatusIsOwnHolds`: a pane shows the status its own process ended with;
* `JobResultHolds`: a job completes when its process has ended and its output
  was read, with the status of its own process.

The inductive invariant adds to the types and to `JobResult` who knows whom:
`Owners` (a process belongs to one pane or job, which has its number), `JobsKnow`
(a job has the number until its process was waited for, and then the status),
`EmptySlots`, and `PanesKnow` (a pane that has a status has no process any more).
Without the last, `StatusIsOwn` is not inductive: a second SIGCHLD could bring
another status. It is also where the exception lies, since a number that is used
again breaks it and nothing else does.

Then about `FileIO`, for any set of streams and any number of chunks, whatever
fails and whenever the client is killed:

* `FileInductive`: `FileSpec => []FileInv`;
* `FilesTyped`: the types, and that no more is written than was printed;
* `OutputIsComplete`: a client that was told to exit has written everything
  printed before, unless its standard output could not be opened or written, and
  it never meets a message about a stream it does not know, which would be fatal;
* `SuccessIsSent`: a write that ends without an error has handed over its data.

The only assumptions are that files have stream numbers above 2 and that the
bounds are numbers. None of the three is inductive; `FileInv` says what crosses
on the wire. A queue of messages is seen through three predicates of
`QueueLemmas`: which messages it has (`Among`), that none of one kind follows one
of another (`Bars`), and that one kind comes before another (`Precedes`).

* `Life`, for each file: data and closes are on their way only to a stream the
  client has, for the server sends them after WRITE_READY only; nothing follows
  a WRITE_CLOSE; an answer is on its way only when nothing else is. Each handler
  has a lemma for its own file, and `Untouched` says that it leaves `Life` of
  all others alone.
* `StdoutLife`: standard output is the exception, since the server prints
  without waiting for the answer; there WRITE_OPEN is in front of all data, and
  only a write that failed, or the end of the client, can finish it.
* `Account`: what was printed is written, in the client's buffer, on the wire or
  in the server's buffer; equality holds until something breaks.
* `Exiting`: the exit message is behind all data, and the server sends it when
  its buffers are empty; so a client that has read it, and has nothing left to
  write, has written all.
* `Done`: a file that waits for its callback is empty or has its error.

`EventLoopProofs`, for every finite set of events, every set of signals and any
number of calls:

* `TypeCorrect`;
* `NoDanglingHolds`, `NothingStaleHolds`: the tables of registrations and of due
  callbacks hold no event that was freed or set anew;
* `SignalsWakeHolds`: a handler is installed for the signals that are watched,
  and a raised signal has a byte in the pipe or is about to be looked at.

The inductive invariant says of each table what the loop relies on: `PendingOK`
and `ActiveOK` (entries are of events that are there, of their present
generation, and a registration is marked in its event), `OnceOK` (what
`event_once` made is no signal and is in neither table while its callback runs,
for the loop frees it without deleting it again) and `GotOK` (what the wait found
is used in the same turn, before any callback).

`CmdQueueProofs`, for all finite sets of clients and all bounds:

* `TypeCorrect`;
* `WakersAreValidHolds`: who will continue an item points at a waiting head, no
  two of them at the same one, and only a head can have run;
* `ListsInOrderHolds`: the commands of a list stay in order, and only lists
  queued later come between them;
* `FailedListsGoneHolds`: after a command failed nothing of its list is queued
  anywhere;
* `ErrorsStopTheirListHolds`: in addition an error cancels nothing of another
  list, if the commands of background jobs are not in braces. With braces it is
  false (disagreement 3), and the theorem above is what remains;
* `RefsExactHolds`: a client has a reference for each place that points at it
  and for each known leak, and no other;
* `FreeIsSafeHolds`: it is freed at most once, when nothing points at it and its
  queue is empty;
* `SleepsWhenIdleHolds`: `server_loop` goes back to sleep only when there is
  nothing to run but notifications (an action property).

The assumption `ClientsFinite` is only there so that places can be counted.

The inductive invariant `QInv` has three parts. `Types`. `AllOK`, about the
queues: each item by itself (`ItemOK`: which groups it can have, and that what
belongs to a hook runs no hooks), each two items of a queue (`Pair`), each three
(`Space`), a list in one queue only, and no item of a list that failed. `Wakers`,
about those who wait. None of the theorems is inductive alone. That two runs of
the same hook are never in a queue together, so that an error in one cannot
cancel the other, rests on a clause of `Pair`: a hook's item is only ever behind
one that runs no hooks itself or has already run. An item that waits for
if-shell inserts its commands after its hooks may have been queued; therefore
`Wakers` must say that behind a head which waits for a shell, and which may run
hooks, there is none. `Space` holds because whatever is inserted behind a head
belongs to the newest list, and is lost if a list could come back to life after
it failed; hence the last clause of `AllOK`. Queues change in few ways (the head
goes, changes its flags, gets a list behind it, or a group is removed; a list
comes at the end), each of which has one lemma; the lemma of an action says which
of them it is.

The references need a second invariant, `RInv`: what is in a client's queue is
for that client, and only notifications have a client as data (`Homed`); the
references of a client are its uses plus its leaks; a client that is freed, or
about to be, has no references, and is freed once. A use is
counted in three places (the list of clients, the items of all queues, the
jobs), and one step may move a pointer from one to another or touch several
queues, so each action is described by the items that come and go (`Changes`),
the jobs that start and end and what leaks, and the sums are compared once for
all of them. References are taken only of clients that have one: an item that
runs has the one of its queue, and this is why `RInv` needs to know where items
are. `SleepsWhenIdle` rests on `SInv`: as long as nothing ran in a pass over the
queues, those already visited are idle, for a command that waits can only have
added notifications to the global queue.

`ControlProofs`, for any set of panes, any number of bytes, lines and
commands, and every size of the buffers:

* `ControlInductive`: `Spec => []ControlInv`;
* `BlocksAreExact`: until the first fault the blocks of a pane are exactly what
  was queued for it, in order and still in its buffer, so that
  `control_append_data` never ends the server; and the list of pending panes
  agrees with their marks always;
* `PromisedUntilFault`: each step before the first fault is a step of
  `ControlPromise`;
* `ControlKeepsPromise`: with `Beyond = {}`, `ControlMode` implements
  `ControlPromise` (`KeepsPromise`, which the run `control_mode` checks).

`Beyond` is the set of faults after which the model goes on, empty in that run
too. It has to be: after a fault of section 3 bytes are dropped under a block or
repeated, and the promise is broken. `PromisedUntilFault` is the same statement
without the assumption.

`ControlInv` has a part that holds whatever happens, `Always` (types, where the
write callback stands, the list of pending panes), and one that holds until a
fault, `Clean`: the offsets of a pane stay inside its buffer (`Offsets`), its
blocks lie between its two offsets and cover every byte there (`Covers`), blocks
of one pane and lines are queued in order and without overlap (`BlockQueue`), and
the message being put together is the part of a pane's bytes in front of its
offset (`MessageGood`). Neither `Offsets` nor `Covers` is inductive alone: the
server drops what the offsets let it drop, and an offset moves with the first
block. For the promise, `Waits` and `Held` give what waits and which line is
behind what as sets read off the queue. Each thing done to the queue (a block
appended, a block cut, panes discarded, lines flushed) has a lemma about these
two sets, and each action one that says which step of the promise it is.

`QueueLemmas` has what these proofs need of sequences: appending, taking the
head, concatenation, replacing an entry, what comes before what, how often an
entry occurs, and what `Only(s, S)` of `Filters`, the subsequence of the
elements in S, contains and in what order. The library has no theorem about
SelectSeq and its induction principles cannot be used, so `NatSetInduction`
proves induction over a set of numbers from the least element of its complement,
and `OnlyDefined` with it that the fold behind `Only` is the recursive function
it should be.

Only model-checked:

* all liveness, since fairness and ENABLED are out of the prover's reach;
  `OutputEnds`, `OperationsEnd` and `ClientsExit` among them;
* `RefsExact`, `CurrentAndLast`, `GroupShares` and `ClientsAttached` of
  `Sessions`, and `Tiling`, `ResizeToIsExact` and `WindowReached` of `Layout`.
  Both follow the recursion of the code (sessions that destroy sessions, trees
  of cells) with RECURSIVE operators, about which nothing can be proved here;
* the refuted properties.

## 5. Plan

*Done*: `WaitFor`, `ServerStart`, `PaneSize`, `Resizing`, `Children`, `EventLoop`,
`CmdQueue`, `FileIO` and `ControlMode` with proofs; `Sessions` and `Layout`; two
refinements, both proved.

What is left, in this order:

1. Abstract specifications: a lock and a signal that `WaitFor` refines (per
   channel), and a deferred callback (runs at most once, never after it was
   cancelled) that `EventLoop` refines.
2. The rest of the server loop: when the server exits, and accept with its
   back-off when descriptors run out.
3. Alerts (the deferred check, its timers and the references it holds) and paste
   buffers.

## 6. Not modelled

About nine tenths of the lines are sequential conversions of data: the grid and
the screen, the parser of terminal input, terminal output and keys, formats and
the status line, copy mode and the other modes, menus and prompts, options and
environment, command parsing and targets. They take no part in the
interleavings above, their state (cells, attributes, text) is far too large to
enumerate, and a model of them would be the code in another notation; tests
compare their results better. The plugin host and the other extensions
(saving sessions, triggers) are foreign code behind a C interface and files.
Access control is a list and two flags.

Within the modelled components: of control mode the subscriptions; of layouts
floating cells, scrollbars and zoom (floating cells are skipped when sizes are
added up, and the models have none); of sessions alert flags, break-pane and
the references notifications hold; of panes the arguments, environment and
terminal settings of a new process; of the event loop the bytes of buffers;
`proc_send` is assumed not to run out of memory. `PROJECT.json` says so for
each component.
