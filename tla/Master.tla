------------------------------- MODULE Master -------------------------------
(***************************************************************************)
(* The master process: ngx_master_process_cycle() of                       *)
(* src/os/unix/ngx_process_cycle.c with the table of processes and the     *)
(* signal handler of src/os/unix/ngx_process.c, and the children it starts.*)
(*                                                                         *)
(* All signals are blocked but in sigsuspend(), where they are delivered,  *)
(* at most one of each kind.  Each part of the body of the loop is an      *)
(* action.  The body does not look at what a child does, and a signal that *)
(* arrives meanwhile waits for sigsuspend(): steps of the children and     *)
(* signals are taken there.  A channel (a socket pair) is one number: the  *)
(* pair is made, used and closed as one, and a new pair takes the lowest   *)
(* free number, as socketpair() does.                                      *)
(*                                                                         *)
(* Left out: the cache processes (a manager lives as a worker does), the   *)
(* channel numbers the workers tell each other, which no code uses, the    *)
(* reopening of files, the name of the pid file, the closing of the        *)
(* master's listening sockets, and SIGIO, which only wakes the master.     *)
(* The process is a daemon and not itself the child of an older binary.    *)
(***************************************************************************)
EXTENDS Integers, SequencesExt

CONSTANTS
    Workers,        \* worker_processes
    MaxProcesses,   \* NGX_MAX_PROCESSES
    KillDelay,      \* the number of delays up to the first above 1000 ms: 6 in the code
    MaxSignals,     \* bound: signals an operator sends
    MaxForkFails,   \* bound: failing socketpair(), fork() or rename()
    MaxDeaths,      \* bound: crashes and workers that hang
    MaxBadConfs     \* bound: configurations that ngx_init_cycle() rejects

ASSUME MasterAssumption ==
    /\ Workers \in Nat \ {0}
    /\ MaxProcesses \in Nat /\ MaxProcesses >= Workers
    /\ KillDelay \in Nat \ {0, 1}
    /\ {MaxSignals, MaxForkFails, MaxDeaths, MaxBadConfs} \subseteq Nat

\* What an operator may send, and the flag its handler sets.
Operator == {"QUIT", "TERM", "HUP", "USR1", "USR2", "WINCH"}
FlagOf ==
    [s \in Operator \cup {"ALRM", "CHLD"} |->
        CASE s = "QUIT"  -> "quit"
          [] s = "TERM"  -> "terminate"
          [] s = "HUP"   -> "reconfigure"
          [] s = "USR1"  -> "reopen"
          [] s = "USR2"  -> "change_binary"
          [] s = "WINCH" -> "noaccept"
          [] s = "ALRM"  -> "sigalrm"
          [] s = "CHLD"  -> "reap"]

Flags == {FlagOf[s] : s \in DOMAIN FlagOf} \cup {"restart", "noaccepting", "live"}

\* A child and what it was told: "doomed" will fail in ngx_worker_process_init(), "stuck"
\* obeys nothing but SIGKILL; "dead" and "fatal" (exit code 2) are zombies, "gone" has
\* been waited for.
Alive  == {"up", "stuck", "doomed"}
Zombie == {"dead", "fatal"}
Kid    == [st : Alive \cup Zombie \cup {"gone"}, cmds : SUBSET {"quit", "term", "kill"}]

\* ngx_process_t; pid 0 stands for -1, chan 0 for a channel of -1.
Slot == [pid : Nat, chan : 0..MaxProcesses, exiting : BOOLEAN, exited : BOOLEAN,
         respawn : BOOLEAN, just : BOOLEAN, detached : BOOLEAN]

VARIABLES
    procs,      \* ngx_processes[0 .. ngx_last_process - 1]
    chans,      \* the child at the other end of each channel number, 0: closed
    kids,       \* the children; a pid is the number of its fork()
    flags,      \* the ngx_sig_atomic_t flags that are set, and live
    newBinary,  \* ngx_new_binary; -1 is NGX_INVALID_PID
    delay,      \* 0: no delay, k: 50 * 2^(k-1) ms, as far as KillDelay
    sigio,      \* the wake-ups to let pass
    armed,      \* setitimer() is running
    pend,       \* signals pending for the master
    pc,         \* the next part of the loop
    used        \* the faults and signals so far

vars == <<procs, chans, kids, flags, newBinary, delay, sigio, armed, pend, pc, used>>

TypeOK ==
    /\ procs \in Seq(Slot) /\ Len(procs) <= MaxProcesses
    /\ chans \in [1..MaxProcesses -> 0..Len(kids)]
    /\ kids \in Seq(Kid)
    /\ flags \subseteq Flags
    /\ newBinary \in -1..Len(kids)
    /\ delay \in 0..KillDelay /\ sigio \in 0..Workers + 2
    /\ armed \in BOOLEAN
    /\ pend \subseteq DOMAIN FlagOf
    /\ pc \in {"start", "loop", "suspend", "reap", "body", "exited"}
    /\ used \in [{"signals", "forks", "deaths", "confs"} -> Nat]

\* The next round of the loop; its top does nothing while delay is 0.
Again == pc' = IF delay' > 0 THEN "loop" ELSE "suspend"

Stopping == flags \cap {"terminate", "quit"} # {}

-----------------------------------------------------------------------------
(* ngx_process.c and its callers, as functions of the table of processes. *)

Table == [procs |-> procs, chans |-> chans, kids |-> kids, live |-> FALSE, reap |-> FALSE]

Becomes(t) == procs' = t.procs /\ chans' = t.chans /\ kids' = t.kids

FreeSlot(t) ==
    Min({s \in 1..Len(t.procs) : t.procs[s].pid = 0} \cup {Len(t.procs) + 1})

FreeChan(t) == Min({c \in 1..MaxProcesses : t.chans[c] = 0})

\* The flags ngx_spawn_process() sets for NGX_PROCESS_RESPAWN, _JUST_RESPAWN, _DETACHED.
Kinds ==
    [respawn  |-> [respawn |-> TRUE,  just |-> FALSE, detached |-> FALSE],
     just     |-> [respawn |-> TRUE,  just |-> TRUE,  detached |-> FALSE],
     detached |-> [respawn |-> FALSE, just |-> FALSE, detached |-> TRUE]]

\* ngx_worker_process_init() closes the channels of the other slots.  When one of them
\* still names the number the new child has, the child closes its own channel, fails
\* in ngx_add_channel_event() and exits with code 2.
Inherits(t, s, c) ==
    \E o \in 1..Len(t.procs) : o # s /\ t.procs[o].pid # 0 /\ t.procs[o].chan = c

\* fork() into slot s with the channel c (0: none).
Forked(t, s, c, k) ==
    LET pid  == Len(t.kids) + 1
        slot == [pid |-> pid, chan |-> c, exiting |-> FALSE, exited |-> FALSE,
                 respawn |-> k.respawn, just |-> k.just, detached |-> k.detached]
    IN [t EXCEPT
          !.kids  = Append(@, [st   |-> IF c # 0 /\ Inherits(t, s, c) THEN "doomed" ELSE "up",
                               cmds |-> {}]),
          !.chans = IF c = 0 THEN @ ELSE [@ EXCEPT ![c] = pid],
          !.procs = IF s > Len(@) THEN Append(@, slot) ELSE [@ EXCEPT ![s] = slot]]

\* What may come of a call of ngx_spawn_process(): the child runs, no channel could
\* be made, or the channel was made and closed again as fork() failed.
Outcomes == {"ok", "nochan", "nofork"}

\* ngx_spawn_process() with a negative respawn: nothing is left of a failure.
Spawn(t, kind, out) ==
    LET s == FreeSlot(t)
        c == IF kind = "detached" THEN 0 ELSE FreeChan(t)
    IN IF s > MaxProcesses \/ out # "ok" THEN t ELSE Forked(t, s, c, Kinds[kind])

\* ngx_spawn_process() for a slot that is respawned: only pid, channel and exited are
\* set, and after a failing fork() the slot keeps the numbers of the closed channel.
Respawn(t, s, out) ==
    CASE out = "ok"     -> [Forked(t, s, FreeChan(t), t.procs[s]) EXCEPT !.live = TRUE]
      [] out = "nofork" -> [t EXCEPT !.procs[s].chan = FreeChan(t)]
      [] out = "nochan" -> t

StartWorkers(t, kind, outs) ==
    FoldLeft(LAMBDA x, out : Spawn(x, kind, out), t, outs)

\* Whether a slot ngx_reap_children() finds exited is respawned.
Respawns(r) == r.respawn /\ ~r.exiting /\ ~Stopping

CloseChannel(t, s) ==
    LET c == t.procs[s].chan
    IN [t EXCEPT !.chans = IF c = 0 THEN @ ELSE [@ EXCEPT ![c] = 0], !.procs[s].chan = 0]

Vacate(t, s) ==
    [t EXCEPT !.procs = IF s = Len(@) THEN Front(@) ELSE [@ EXCEPT ![s].pid = 0]]

\* Mutant: a process that exits is not counted as living.
ReapSlotForgets(t, s, outs) ==
    LET r == t.procs[s]
        c == IF r.detached THEN t ELSE CloseChannel(t, s)
    IN IF r.pid = 0 THEN t
       ELSE IF ~r.exited THEN [t EXCEPT !.live = @ \/ (~r.exiting /\ ~r.detached)]
       ELSE IF s \in DOMAIN outs THEN Respawn(c, s, outs[s])
       ELSE Vacate(c, s)

\* Mutant: a slot that is exiting is given up before its process has ended.
ReapSlotEarly(t, s, outs) ==
    LET r == t.procs[s]
        c == IF r.detached THEN t ELSE CloseChannel(t, s)
    IN IF r.pid = 0 THEN t
       ELSE IF ~r.exited /\ ~r.exiting THEN [t EXCEPT !.live = @ \/ ~r.detached]
       ELSE IF s \in DOMAIN outs THEN Respawn(c, s, outs[s])
       ELSE Vacate(c, s)

\* One round of the loop of ngx_reap_children().
ReapSlot(t, s, outs) ==
    LET r == t.procs[s]
        c == IF r.detached THEN t ELSE CloseChannel(t, s)
    IN IF r.pid = 0 THEN t
       ELSE IF ~r.exited THEN [t EXCEPT !.live = @ \/ r.exiting \/ ~r.detached]
       ELSE IF s \in DOMAIN outs THEN Respawn(c, s, outs[s])
       ELSE Vacate(c, s)

\* Mutant: a slot that has just been spawned is marked exiting and told nothing.
SignalSlotMarksJust(t, s, cmd) ==
    LET r == t.procs[s]
    IN IF r.detached \/ r.pid = 0 \/ r.exiting THEN t
       ELSE [t EXCEPT !.procs[s].just = FALSE, !.procs[s].exiting = TRUE,
                      !.kids[r.pid].cmds = IF r.just THEN @ ELSE @ \cup {cmd}]

\* Mutant: a slot whose command was written is not marked exiting.
SignalSlotForgets(t, s, cmd) ==
    LET r == t.procs[s]
    IN IF r.detached \/ r.pid = 0 THEN t
       ELSE IF r.just THEN [t EXCEPT !.procs[s].just = FALSE]
       ELSE [t EXCEPT !.kids[r.pid].cmds = @ \cup {cmd}]

\* One round of the loop of ngx_signal_worker_processes().  The command goes to
\* whoever is at the other end of the channel; kill() is for a channel that is closed
\* and for SIGKILL, and finds nobody when the child has been waited for.
SignalSlot(t, s, cmd) ==
    LET r    == t.procs[s]
        open == cmd # "kill" /\ r.chan # 0 /\ t.chans[r.chan] # 0
        to   == IF open THEN t.chans[r.chan] ELSE r.pid
    IN IF r.detached \/ r.pid = 0 THEN t
       ELSE IF r.just THEN [t EXCEPT !.procs[s].just = FALSE]
       ELSE IF r.exiting /\ cmd = "quit" THEN t
       ELSE IF ~open /\ t.kids[to].st = "gone"
            THEN [t EXCEPT !.procs[s].exited = TRUE, !.procs[s].exiting = FALSE,
                           !.reap = TRUE]
       ELSE IF cmd = "reopen" THEN t
       ELSE [t EXCEPT !.kids[to].cmds = @ \cup {cmd}, !.procs[s].exiting = TRUE]

SignalWorkers(t, cmd) ==
    FoldLeftDomain(LAMBDA x, s : SignalSlot(x, s, cmd), t, t.procs)

-----------------------------------------------------------------------------
(* The master. *)

\* The outcomes of the spawns of S, within the bound on failures.
Fails(outs) == {s \in DOMAIN outs : outs[s] # "ok"}

Spawns(S) ==
    {outs \in [S -> Outcomes] : used.forks + Cardinality(Fails(outs)) <= MaxForkFails}

Uses(outs) == used' = [used EXCEPT !.forks = @ + Cardinality(Fails(outs))]

Init ==
    /\ procs = << >> /\ kids = << >>
    /\ chans = [c \in 1..MaxProcesses |-> 0]
    /\ flags = {} /\ newBinary = 0
    /\ delay = 0 /\ sigio = 0 /\ armed = FALSE
    /\ pend = {} /\ pc = "start"
    /\ used = [k \in {"signals", "forks", "deaths", "confs"} |-> 0]

\* Before the loop: the first workers; live is set whatever came of them.
Start ==
    /\ pc = "start"
    /\ \E outs \in Spawns(1..Workers) :
          /\ Becomes(StartWorkers(Table, "respawn", outs))
          /\ Uses(outs)
    /\ flags' = flags \cup {"live"}
    /\ UNCHANGED <<newBinary, delay, sigio, armed, pend>>
    /\ Again

\* Mutant: the delay is not doubled.
LoopSameDelay ==
    LET alarmed == delay > 0 /\ "sigalrm" \in flags
    IN /\ pc = "loop"
       /\ sigio' = IF alarmed THEN 0 ELSE sigio
       /\ flags' = IF alarmed THEN flags \ {"sigalrm"} ELSE flags
       /\ armed' = (armed \/ delay > 0)
       /\ pc' = "suspend"
       /\ UNCHANGED <<procs, chans, kids, newBinary, delay, pend, used>>

\* The top of the loop: after SIGALRM the delay is doubled, and the timer is set anew.
Loop ==
    LET alarmed == delay > 0 /\ "sigalrm" \in flags
    IN /\ pc = "loop"
       /\ delay' = IF alarmed /\ delay < KillDelay THEN delay + 1 ELSE delay
       /\ sigio' = IF alarmed THEN 0 ELSE sigio
       /\ flags' = IF alarmed THEN flags \ {"sigalrm"} ELSE flags
       /\ armed' = (armed \/ delay > 0)
       /\ pc' = "suspend"
       /\ UNCHANGED <<procs, chans, kids, newBinary, pend, used>>

\* Mutant: one child is waited for per signal.
WaitedOnce(t) ==
    LET zombies == {p \in 1..Len(t.kids) : t.kids[p].st \in Zombie}
        first   == Min(zombies)
    IN IF zombies = {} THEN t
       ELSE [t EXCEPT
              !.procs = [s \in 1..Len(@) |->
                  IF @[s].pid = first
                  THEN [@[s] EXCEPT !.exited = TRUE,
                                    !.respawn = @ /\ t.kids[first].st # "fatal"]
                  ELSE @[s]],
              !.kids[first].st = "gone"]

\* ngx_process_get_status(): all zombies are waited for.
Waited(t) ==
    LET zombie(r) == r.pid # 0 /\ t.kids[r.pid].st \in Zombie
    IN [t EXCEPT
          !.procs = [s \in 1..Len(@) |->
              IF zombie(@[s])
              THEN [@[s] EXCEPT !.exited = TRUE,
                                !.respawn = @ /\ t.kids[t.procs[s].pid].st # "fatal"]
              ELSE @[s]],
          !.kids = [p \in 1..Len(@) |->
              IF @[p].st \in Zombie THEN [@[p] EXCEPT !.st = "gone"] ELSE @[p]]]

\* sigsuspend(): the handler runs for every pending signal.  SIGUSR2 is ignored while a
\* new binary runs.
Suspend ==
    LET heard == {s \in pend : s = "USR2" => newBinary <= 0}
    IN /\ pc = "suspend" /\ pend # {}
       /\ Becomes(IF "CHLD" \in pend THEN Waited(Table) ELSE Table)
       /\ flags' = flags \cup {FlagOf[s] : s \in heard}
       /\ pend' = {} /\ pc' = IF "reap" \in flags' THEN "reap" ELSE "body"
       /\ UNCHANGED <<newBinary, delay, sigio, armed, used>>

\* ngx_reap_children().  When the new binary is found dead,
\* workers that SIGWINCH shut down are to be started again.
Reap ==
    LET exited   == {s \in 1..Len(procs) : procs[s].pid # 0 /\ procs[s].exited}
        again    == {s \in exited : Respawns(procs[s])}
        upgraded == \E s \in exited \ again : procs[s].pid = newBinary
    IN /\ pc = "reap"
       /\ \E outs \in Spawns(again) :
             LET t == FoldLeftDomain(LAMBDA x, s : ReapSlot(x, s, outs), Table, procs)
             IN /\ Becomes(t)
                /\ Uses(outs)
                /\ flags' = (flags \ ({"reap", "live"} \cup
                                 (IF upgraded THEN {"noaccepting"} ELSE {})))
                            \cup (IF t.live THEN {"live"} ELSE {})
                            \cup (IF upgraded /\ "noaccepting" \in flags
                                  THEN {"restart"} ELSE {})
       /\ newBinary' = IF upgraded THEN 0 ELSE newBinary
       /\ pc' = "body"
       /\ UNCHANGED <<delay, sigio, armed, pend>>

\* ngx_master_process_exit().
Exit ==
    /\ pc = "body" /\ "live" \notin flags /\ Stopping
    /\ pc' = "exited" /\ armed' = FALSE
    /\ UNCHANGED <<procs, chans, kids, flags, newBinary, delay, sigio, pend, used>>

\* ngx_signal_worker_processes(); kill() may find a child gone and set ngx_reap.
Signal(t, cmd, fl) ==
    LET u == SignalWorkers(t, cmd)
    IN Becomes(u) /\ flags' = IF u.reap THEN fl \cup {"reap"} ELSE fl

\* ngx_terminate: some wake-ups are let pass, then the workers are signalled again.
Terminate ==
    /\ pc = "body" /\ "live" \in flags /\ "terminate" \in flags
    /\ delay' = IF delay = 0 THEN 1 ELSE delay
    /\ \/ /\ sigio > 0 /\ sigio' = sigio - 1
          /\ UNCHANGED <<procs, chans, kids, flags>>
       \/ /\ sigio = 0 /\ sigio' = Workers + 2
          /\ Signal(Table, IF delay' >= KillDelay THEN "kill" ELSE "term", flags)
    /\ UNCHANGED <<newBinary, armed, pend, used>>
    /\ Again

Quit ==
    /\ pc = "body" /\ "live" \in flags /\ "terminate" \notin flags /\ "quit" \in flags
    /\ Signal(Table, "quit", flags)
    /\ UNCHANGED <<newBinary, delay, sigio, armed, pend, used>>
    /\ Again

\* ngx_reconfigure while a new binary runs: back to the old one, without reading the
\* configuration and without setting live.
Rollback ==
    /\ pc = "body" /\ ~Stopping /\ "reconfigure" \in flags /\ newBinary # 0
    /\ \E outs \in Spawns(1..Workers) :
          /\ Becomes(StartWorkers(Table, "respawn", outs))
          /\ Uses(outs)
    /\ flags' = flags \ {"reconfigure", "noaccepting"}
    /\ UNCHANGED <<newBinary, delay, sigio, armed, pend>>
    /\ Again

\* ngx_reconfigure: the new workers are spared by just_spawn, the others shut down.
\* The rest of the body follows.
Reload ==
    /\ pc = "body" /\ ~Stopping /\ "reconfigure" \in flags /\ newBinary = 0
    /\ \E outs \in Spawns(1..Workers) :
          /\ Signal(StartWorkers(Table, "just", outs), "quit",
                    (flags \ {"reconfigure"}) \cup {"live"})
          /\ Uses(outs)
    /\ UNCHANGED <<newBinary, delay, sigio, armed, pend, pc>>

\* ngx_init_cycle() rejects the configuration; the rest of the body is skipped.
ReloadFails ==
    /\ pc = "body" /\ ~Stopping /\ "reconfigure" \in flags /\ newBinary = 0
    /\ used.confs < MaxBadConfs /\ used' = [used EXCEPT !.confs = @ + 1]
    /\ flags' = flags \ {"reconfigure"}
    /\ UNCHANGED <<procs, chans, kids, newBinary, delay, sigio, armed, pend>>
    /\ Again

\* The rest of the body, in the order of the code: f is handled when it is the first.
Rest == <<"restart", "reopen", "change_binary", "noaccept">>

Handles(f) ==
    /\ pc = "body" /\ ~Stopping /\ "reconfigure" \notin flags
    /\ f \in flags
    /\ \A i, j \in 1..Len(Rest) : Rest[j] = f /\ i < j => Rest[i] \notin flags

Restart ==
    /\ Handles("restart")
    /\ \E outs \in Spawns(1..Workers) :
          /\ Becomes(StartWorkers(Table, "respawn", outs))
          /\ Uses(outs)
    /\ flags' = (flags \ {"restart"}) \cup {"live"}
    /\ UNCHANGED <<newBinary, delay, sigio, armed, pend, pc>>

Reopen ==
    /\ Handles("reopen")
    /\ Signal(Table, "reopen", flags \ {"reopen"})
    /\ UNCHANGED <<newBinary, delay, sigio, armed, pend, pc, used>>

\* ngx_exec_new_binary(): any failure leaves NGX_INVALID_PID in ngx_new_binary.
ChangeBinary ==
    /\ Handles("change_binary")
    /\ \E outs \in Spawns({1}) :
          LET t  == Spawn(Table, "detached", outs[1])
              ok == Len(t.kids) > Len(kids)
          IN /\ Becomes(t)
             /\ newBinary' = IF ok THEN Len(t.kids) ELSE -1
             /\ Uses(outs)
    /\ flags' = flags \ {"change_binary"}
    /\ UNCHANGED <<delay, sigio, armed, pend, pc>>

NoAccept ==
    /\ Handles("noaccept")
    /\ Signal(Table, "quit", (flags \ {"noaccept"}) \cup {"noaccepting"})
    /\ UNCHANGED <<newBinary, delay, sigio, armed, pend, pc, used>>

Continue ==
    /\ pc = "body" /\ ~Stopping /\ flags \cap ({"reconfigure"} \cup Range(Rest)) = {}
    /\ UNCHANGED <<procs, chans, kids, flags, newBinary, delay, sigio, armed, pend, used>>
    /\ Again

MasterStep ==
    \/ Start \/ Loop \/ Suspend \/ Reap \/ Exit \/ Terminate \/ Quit
    \/ Rollback \/ Reload \/ ReloadFails \/ Restart \/ Reopen \/ ChangeBinary
    \/ NoAccept \/ Continue

-----------------------------------------------------------------------------
(* The children and the operator. *)

Becoming(p, st, sigs) ==
    /\ pc \in {"suspend", "exited"}
    /\ kids' = [kids EXCEPT ![p] = [st |-> st, cmds |-> IF st \in Zombie THEN {} ELSE @.cmds]]
    /\ pend' = pend \cup sigs
    /\ UNCHANGED <<procs, chans, flags, newBinary, delay, sigio, armed, pc>>

\* ngx_channel_handler() and ngx_worker_process_cycle(): a worker that was told to quit
\* or to terminate exits, the one when its connections are closed, the other at once;
\* or the kernel ends it.
Leave(p) ==
    /\ \/ kids[p].st = "up" /\ kids[p].cmds # {}
       \/ kids[p].st \in Alive /\ "kill" \in kids[p].cmds
    /\ Becoming(p, "dead", {"CHLD"}) /\ UNCHANGED used

\* exit(2) in ngx_worker_process_init().
FailInit(p) ==
    /\ kids[p].st = "doomed"
    /\ Becoming(p, "fatal", {"CHLD"}) /\ UNCHANGED used

\* A child crashes, fails in another way in its initialisation, or hangs; also the end
\* of the new binary.
Die(p, st) ==
    /\ kids[p].st = "up" /\ pc # "exited"
    /\ p = newBinary => st = "dead"
    /\ used.deaths < MaxDeaths /\ used' = [used EXCEPT !.deaths = @ + 1]
    /\ Becoming(p, st, IF st = "stuck" THEN {} ELSE {"CHLD"})

Alarm ==
    /\ pc = "suspend" /\ armed /\ armed' = FALSE /\ pend' = pend \cup {"ALRM"}
    /\ UNCHANGED <<procs, chans, kids, flags, newBinary, delay, sigio, pc, used>>

Send(sig) ==
    /\ pc = "suspend" /\ sig \notin pend
    /\ used.signals < MaxSignals /\ used' = [used EXCEPT !.signals = @ + 1]
    /\ pend' = pend \cup {sig}
    /\ UNCHANGED <<procs, chans, kids, flags, newBinary, delay, sigio, armed, pc>>

Next ==
    \/ MasterStep
    \/ Alarm
    \/ \E sig \in Operator : Send(sig)
    \/ \E p \in 1..Len(kids) :
         \/ Leave(p) \/ FailInit(p)
         \/ \E st \in {"dead", "fatal", "stuck"} : Die(p, st)

Spec == Init /\ [][Next]_vars

\* The master runs unless it has ended or sleeps with no signal pending.  This is weak
\* fairness of MasterStep: its steps, and no others, change pc or flags, and one of them
\* is enabled just when MasterReady.
MasterReady == pc # "exited" /\ (pc = "suspend" => pend # {})
MasterFair  == []<>~MasterReady \/ []<><<TRUE>>_<<pc, flags>>

\* Timers expire, and a child that does not hang obeys and ends.  Each of these
\* steps of a child is its last, and they are taken only in sigsuspend(): hence one
\* strong fairness condition for all children.
FairSpec ==
    /\ Spec
    /\ MasterFair /\ WF_vars(Alarm)
    /\ SF_vars(\E p \in 1..Len(kids) : Leave(p) \/ FailInit(p))

-----------------------------------------------------------------------------
(* Properties. *)

StateOf(s) == kids[procs[s].pid].st

Slots == {s \in 1..Len(procs) : procs[s].pid # 0}

\* ngx_reap_children(), ngx_spawn_process() and the holes in ngx_processes: every child
\* that has not been waited for is in exactly one slot, which is not marked exited, so
\* that no child is forgotten and none is respawned while it lives.
ChildrenKnown ==
    \A p \in 1..Len(kids) :
        kids[p].st # "gone" =>
            \E s \in Slots :
                /\ procs[s].pid = p /\ ~procs[s].exited
                /\ \A o \in Slots \ {s} : procs[o].pid # p

\* ngx_signal_worker_processes() skips a slot that is exiting: whoever is marked so has
\* been told to, over its own channel or by a signal, or has ended already.
ExitingTold ==
    \A s \in Slots :
        procs[s].exiting =>
            StateOf(s) \notin {"up", "stuck"} \/ kids[procs[s].pid].cmds # {}

\* ngx_master_process_exit() while live is 0: the master leaves no worker behind.  A
\* master that executed a new binary, and has not seen it end, is excepted as a whole:
\* SIGHUP starts workers then and does not set live.
ExitsLast ==
    pc = "exited" /\ newBinary = 0 =>
        \A s \in Slots : procs[s].detached \/ StateOf(s) \notin Alive

\* SIGHUP: after a reload every process that is not told to exit is a new one, or a
\* slot whose worker could not be respawned.
ReloadReplaces ==
    [][Reload => \A s \in 1..Len(procs') :
          LET r == procs'[s]
          IN r.pid > Len(kids) \/ r.pid = 0 \/ r.detached \/ r.exiting \/ r.exited]_vars

\* A slot that holds a worker to respawn, whose process is not running.
Down(s) ==
    s \in Slots /\ procs[s].respawn /\ ~procs[s].exiting /\ StateOf(s) \notin Alive

\* SIGCHLD and ngx_reap_children(): a worker that ended unasked is replaced, unless a
\* fork() failed, which is tried again only when another child ends.
Respawned ==
    \A s \in 1..MaxProcesses : Down(s) ~> ~Down(s) \/ used.forks > 0 \/ pc = "exited"

\* Nobody is left to send SIGCHLD, and live says that somebody is.
Deserted ==
    /\ pc = "suspend" /\ "live" \in flags /\ "reap" \notin flags /\ used.forks > 0
    /\ \A s \in Slots : procs[s].detached \/ procs[s].exited

\* ngx_terminate: the delay grows until SIGKILL, so the master ends even when workers
\* hang, unless live was set for workers that could not be forked.
TerminateEnds == "terminate" \in flags ~> pc = "exited" \/ Deserted

\* ngx_quit: with workers that do not hang the master ends.
QuitEnds ==
    "quit" \in flags ~>
        pc = "exited" \/ Deserted \/ \E p \in 1..Len(kids) : kids[p].st = "stuck"

\* A master that is told to stop does stop.
MasterEnds == TerminateEnds /\ QuitEnds

\* ngx_restart: after the new binary died, workers that SIGWINCH shut down are started
\* again, unless a rejected configuration makes the loop skip it.
RestartServed ==
    "restart" \in flags ~> "restart" \notin flags \/ Stopping \/ used.confs > 0

\* Workers that should run come back, after a death and after a failed upgrade.
WorkersReturn == Respawned /\ RestartServed

\* man/nginx.8: on SIGHUP the old workers are shut down; a configuration that is
\* rejected, and a new binary that runs, are excepted.
HupReplaces ==
    [][pc = "body" /\ "reconfigure" \in flags \ flags' /\ newBinary <= 0
         /\ used'.confs = used.confs
         => \A s \in Slots : ~procs[s].detached => procs'[s].exiting \/ procs'[s].exited]_vars

=============================================================================
