---------------------------- MODULE BtuCommands ----------------------------
(***************************************************************************)
(* The flow of HCI commands in the BTU task (btu_hcif.c) and the device    *)
(* start-up that uses it (btm_devctl.c).                                   *)
(*                                                                         *)
(* A command goes out while the controller's window is open, and a copy is *)
(* kept until Command Complete or Command Status answers it or one timer,  *)
(* shared by all copies, expires and a failure is made up.  A device reset *)
(* throws all of it away, sends HCI_RESET and goes through the setup       *)
(* commands one by one, each under the guard timer, whose expiry starts    *)
(* again.  All of this runs on the BTU task; the controller may be slow,   *)
(* or lose a command.                                                      *)
(***************************************************************************)
EXTENDS Integers, Sequences, SequencesExt

CONSTANTS CompleteOps, StatusOps,  \* opcodes of the stack's other commands, by their answer
          MaxCredits,              \* largest Num_HCI_Command_Packets
          CmdTimeout,              \* BTU_CMD_CMPL_TIMEOUT
          ResetTimeout,            \* BTM_DEV_RESET_TIMEOUT
          ReplyTimeout,            \* BTM_DEV_REPLY_TIMEOUT
          MaxTimedOut,             \* BTM_MAX_HCI_CMD_TOUT_BEFORE_RESTART
          MaxHeld                  \* bound: commands under way to or in the controller

UserOps  == CompleteOps \cup StatusOps
SetupOps == {"BUF", "VER", "FEAT", "AUX"}
Ops      == UserOps \cup SetupOps \cup {"RESET"}
Off      == -1

ASSUME CommandsAssumption ==
    /\ CompleteOps \cap StatusOps = {} /\ UserOps \cap (SetupOps \cup {"RESET"}) = {}
    /\ {MaxCredits, CmdTimeout, ResetTimeout, ReplyTimeout, MaxTimedOut, MaxHeld} \subseteq Nat \ {0}

\* The values of bt_target.h and btm_devctl.c (8, 4 and 2 seconds) leave the guard
\* timer time for the reset and the step after it.
MaxGuard == IF ResetTimeout > ReplyTimeout THEN ResetTimeout ELSE ReplyTimeout
ASSUME GuardAssumption == CmdTimeout >= MaxGuard + ReplyTimeout

VARIABLES cb,       \* hci_cmd_cb: cmd_xmit_q, cmd_cmpl_q, cmd_window and the seconds left of
                    \* cmd_cmpl_timer; lower: commands sent and not answered, oldest first
          dev,      \* devcb.state
          guard,    \* devcb.reset_timer: seconds left, or Off
          tout,     \* num_hci_cmds_timed_out
          alive,    \* the process has not killed itself
          owed,     \* the controller's last event left the window closed
          st,       \* the stack's commands: "asked" until answered, made up or thrown away
          refused,  \* the last READ_LOCAL_FEATURES failed
          mixed     \* since the last flush a Command Status has met the copy of another command

cmdVars == <<cb, dev, guard, tout, alive, owed, st, refused, mixed>>

-----------------------------------------------------------------------------
(* btu_hcif_send_cmd, and the queues.                                      *)

\* btu_hcif_store_cmd keeps copies of all commands but HCI_RESET, which
\* btm_dev_reset sends on empty queues, and restarts the timer.
Stored(sent) == IF sent = <<"RESET">> THEN <<>> ELSE sent

\* Variant: the window is not looked at.
SendCmdUnlimited(c, d, p) ==
    LET line   == c.xmit \o p
        count  == IF c.xmit = <<>> THEN 0 ELSE Len(line)
        window == IF c.window = 0 /\ d = "wait_reset" THEN count + 1 ELSE c.window
        n      == Len(line)
        sent   == SubSeq(line, 1, n)
    IN  [xmit   |-> SubSeq(line, n + 1, Len(line)),
         cmpl   |-> c.cmpl \o Stored(sent),
         window |-> window - n,
         timer  |-> IF Stored(sent) = <<>> THEN c.timer ELSE CmdTimeout,
         lower  |-> c.lower \o sent]

\* Variant: the timer is not started for a command that is sent.
SendCmdUntimed(c, d, p) ==
    LET line   == c.xmit \o p
        count  == IF c.xmit = <<>> THEN 0 ELSE Len(line)
        window == IF c.window = 0 /\ d = "wait_reset" THEN count + 1 ELSE c.window
        n      == IF window < Len(line) THEN window ELSE Len(line)
        sent   == SubSeq(line, 1, n)
    IN  [xmit   |-> SubSeq(line, n + 1, Len(line)),
         cmpl   |-> c.cmpl \o Stored(sent),
         window |-> window - n,
         timer  |-> c.timer,
         lower  |-> c.lower \o sent]

\* btu_hcif_send_cmd with a command, p = <<op>>, or NULL, p = <<>>, in device
\* state d.  Before the reset is complete a closed window is opened.
SendCmd(c, d, p) ==
    LET line   == c.xmit \o p
        count  == IF c.xmit = <<>> THEN 0 ELSE Len(line)
        window == IF c.window = 0 /\ d = "wait_reset" THEN count + 1 ELSE c.window
        n      == IF window < Len(line) THEN window ELSE Len(line)
        sent   == SubSeq(line, 1, n)
    IN  [xmit   |-> SubSeq(line, n + 1, Len(line)),
         cmpl   |-> c.cmpl \o Stored(sent),
         window |-> window - n,
         timer  |-> IF Stored(sent) = <<>> THEN c.timer ELSE CmdTimeout,
         lower  |-> c.lower \o sent]

\* btu_hcif_flush_cmd_queue.  The timer keeps running.
Flush(c) == [c EXCEPT !.window = 0, !.cmpl = <<>>, !.xmit = <<>>]

\* Variant: the timer is stopped whatever is still in the queue.
RetimeStops(c) == [c EXCEPT !.timer = Off]

\* "if more commands in queue restart timer"
Retime(c) == [c EXCEPT !.timer = IF c.cmpl = <<>> THEN Off ELSE CmdTimeout]

CmdInit ==
    /\ cb = SendCmd(Flush([xmit |-> <<>>, cmpl |-> <<>>, window |-> 1, timer |-> Off,
                           lower |-> <<>>]), "wait_reset", <<"RESET">>)
    /\ dev = "wait_reset" /\ guard = ResetTimeout /\ tout = 0 /\ alive = TRUE /\ owed = FALSE
    /\ st = [o \in UserOps |-> "idle"] /\ refused = FALSE /\ mixed = FALSE

\* A timer that has expired is handled before anything else.
NoneDue == alive /\ cb.timer # 0 /\ guard # 0

-----------------------------------------------------------------------------
(* Handlers.                                                               *)

\* A command of the stack.  A callback that sends one while an answer is
\* handled adds it to the same line, so that is this action too.
Issue(op) ==
    /\ NoneDue /\ st[op] = "idle" /\ Len(cb.xmit) + Len(cb.lower) < MaxHeld - 1
    /\ st' = [st EXCEPT ![op] = "asked"] /\ cb' = SendCmd(cb, dev, <<op>>)
    /\ UNCHANGED <<dev, guard, tout, alive, owed, refused, mixed>>

\* Variant: the guard timer is not started.
DevResetUnguarded ==
    /\ dev' = "wait_reset" /\ cb' = SendCmd(Flush(cb), "wait_reset", <<"RESET">>)
    /\ guard' = Off /\ refused' = FALSE
    /\ st' = [o \in UserOps |-> "idle"] /\ mixed' = FALSE
    /\ UNCHANGED <<alive, owed>>

\* btm_dev_reset.
DevReset ==
    /\ dev' = "wait_reset" /\ cb' = SendCmd(Flush(cb), "wait_reset", <<"RESET">>)
    /\ guard' = ResetTimeout /\ refused' = FALSE
    /\ st' = [o \in UserOps |-> "idle"] /\ mixed' = FALSE
    /\ UNCHANGED <<alive, owed>>

\* BTM_DeviceReset of a device that is up, on btu_hcif_hardware_error_evt or when
\* test mode ends.  No caller gives a callback, so none is refused.
DeviceReset ==
    /\ NoneDue /\ dev = "ready" /\ Len(cb.lower) < MaxHeld /\ DevReset
    /\ tout' \in {0, tout}

\* Variant: the guard timer that is stopped after the reset is not started again.
ResetCompleteUnguarded(c) ==
    /\ dev = "wait_reset" /\ dev' = "wait_after" /\ guard' = Off /\ UNCHANGED refused
    /\ \E c1 \in {SendCmd(c, dev', <<"BUF">>)} : cb' = SendCmd(c1, dev', <<>>)

(* The steps of the setup.  Each takes the control block c and ends with the *)
(* btu_hcif_send_cmd(NULL) of its caller.  AUX stands for the setup commands  *)
(* whose answers change nothing here: host buffer size, BD address and, once  *)
(* the device is up, its configuration.                                      *)

\* btm_reset_complete, btm_after_reset_hold_complete, btm_continue_reset and
\* btm_get_hci_buf_size.
ResetComplete(c) ==
    /\ dev = "wait_reset" /\ dev' = "wait_after" /\ guard' = ReplyTimeout /\ UNCHANGED refused
    /\ \E c1 \in {SendCmd(c, dev', <<"BUF">>)} : cb' = SendCmd(c1, dev', <<>>)

\* btm_read_hci_buf_size_complete and btm_get_local_version.
BufSizeComplete(c, ok) ==
    /\ \E c1 \in {IF ok THEN SendCmd(c, dev, <<"AUX">>) ELSE c} :
       \E c2 \in {SendCmd(c1, dev, <<"VER">>)} : \E c3 \in {SendCmd(c2, dev, <<"AUX">>)} :
           cb' = SendCmd(c3, dev, <<>>)
    /\ guard' = ReplyTimeout /\ UNCHANGED <<dev, refused>>

\* btm_read_local_version_complete and btm_get_local_features.
LocalVersionComplete(c) ==
    /\ \E c1 \in {SendCmd(c, dev, <<"FEAT">>)} : cb' = SendCmd(c1, dev, <<>>)
    /\ guard' = ReplyTimeout /\ UNCHANGED <<dev, refused>>

\* btm_read_local_features_complete: the guard timer is stopped either way.
LocalFeaturesComplete(c, ok) ==
    /\ guard' = Off /\ refused' = ~ok
    /\ \/ /\ ok /\ dev' = "ready"
          /\ \E c1 \in {SendCmd(c, dev', <<"AUX">>)} : cb' = SendCmd(c1, dev', <<>>)
       \/ ~ok /\ cb' = SendCmd(c, dev, <<>>) /\ UNCHANGED dev

\* btu_hcif_hdl_command_complete.
HdlCommandComplete(c, op, ok) ==
    \/ op = "RESET" /\ ResetComplete(c)
    \/ op = "BUF"   /\ BufSizeComplete(c, ok)
    \/ op = "VER"   /\ LocalVersionComplete(c)
    \/ op = "FEAT"  /\ LocalFeaturesComplete(c, ok)
    \/ /\ op \notin {"BUF", "VER", "FEAT"} /\ (op = "RESET" => dev # "wait_reset")
       /\ cb' = SendCmd(c, dev, <<>>) /\ UNCHANGED <<dev, guard, refused>>

\* btu_hcif_hdl_command_status and the callbacks of HdlCommandComplete tell the
\* caller of a command of the stack.
Told(op) == st' = [o \in UserOps |-> IF o = op THEN "idle" ELSE st[o]]

\* The oldest command is answered; the event opens the window for n commands.
Answered(n) ==
    /\ NoneDue /\ cb.lower # <<>> /\ owed' = (n = 0) /\ tout' = 0
    /\ Told(Head(cb.lower)) /\ UNCHANGED alive

\* Variant: the oldest copy goes, whosever it is.
CommandCompleteOldest(n, ok) ==
    /\ Answered(n) /\ Head(cb.lower) \notin StatusOps
    /\ \E op \in {Head(cb.lower)}, c \in {[cb EXCEPT !.window = n, !.lower = Tail(@)]} :
       \E c1 \in {IF op = "RESET" THEN c ELSE Retime([c EXCEPT !.cmpl = IF @ = <<>> THEN @ ELSE Tail(@)])} :
           HdlCommandComplete(c1, op, ok)
    /\ UNCHANGED mixed

\* btu_hcif_command_complete_evt: the copy is searched for.
CommandComplete(n, ok) ==
    /\ Answered(n) /\ Head(cb.lower) \notin StatusOps
    /\ \E op \in {Head(cb.lower)}, c \in {[cb EXCEPT !.window = n, !.lower = Tail(@)]} :
       \E c1 \in {IF op = "RESET" THEN c ELSE Retime([c EXCEPT !.cmpl = RemoveFirst(@, op)])} :
           HdlCommandComplete(c1, op, ok)
    /\ UNCHANGED mixed

\* A Command Complete for no command, with which the controller opens the window.
Nop(n) ==
    /\ NoneDue /\ owed /\ n > 0 /\ owed' = FALSE /\ tout' = 0
    /\ cb' = SendCmd([cb EXCEPT !.window = n], dev, <<>>)
    /\ UNCHANGED <<dev, guard, alive, st, refused, mixed>>

\* Variant: the commands that wait are not looked at.
CommandStatusOnly(n) ==
    /\ Answered(n) /\ Head(cb.lower) \in StatusOps
    /\ \E c \in {[cb EXCEPT !.window = n, !.lower = Tail(@),
                             !.cmpl = IF @ = <<>> THEN @ ELSE Tail(@)]} :
           cb' = Retime(c)
    /\ mixed' = (mixed \/ (cb.cmpl # <<>> /\ Head(cb.cmpl) # Head(cb.lower)))
    /\ UNCHANGED <<dev, guard, refused>>

\* btu_hcif_command_status_evt: the oldest copy goes, whosever it is.
CommandStatus(n) ==
    /\ Answered(n) /\ Head(cb.lower) \in StatusOps
    /\ \E c \in {[cb EXCEPT !.window = n, !.lower = Tail(@),
                             !.cmpl = IF @ = <<>> THEN @ ELSE Tail(@)]} :
           cb' = SendCmd(Retime(c), dev, <<>>)
    /\ mixed' = (mixed \/ (cb.cmpl # <<>> /\ Head(cb.cmpl) # Head(cb.lower)))
    /\ UNCHANGED <<dev, guard, refused>>

\* Any other event ends a series of timeouts.
OtherEvent ==
    /\ NoneDue /\ tout > 0 /\ tout' = 0
    /\ UNCHANGED <<cb, dev, guard, alive, owed, st, refused, mixed>>

\* The controller never answers its oldest command.
LoseCommand ==
    /\ NoneDue /\ cb.lower # <<>> /\ cb' = [cb EXCEPT !.lower = Tail(@)]
    /\ UNCHANGED <<dev, guard, tout, alive, owed, st, refused, mixed>>

-----------------------------------------------------------------------------
(* Timers, both on the stack's list.  Of two that expire at the same time  *)
(* either may be first.                                                    *)

Less(t) == IF t > 0 THEN t - 1 ELSE t
Second ==
    /\ NoneDue /\ (cb.timer > 0 \/ guard > 0) /\ Len(cb.lower) < MaxHeld
    /\ cb' = [cb EXCEPT !.timer = Less(@)] /\ guard' = Less(guard)
    /\ UNCHANGED <<dev, tout, alive, owed, st, refused, mixed>>

\* btm_dev_timeout of reset_timer.
DevTimeout == alive /\ guard = 0 /\ DevReset /\ UNCHANGED tout

\* btu_hcif_cmd_timeout: with no copy only the window is set; else a failure is
\* made up for the oldest command, and after too many of them the process ends.
CmdTimedOut ==
    /\ alive /\ cb.timer = 0
    /\ \/ /\ cb.cmpl = <<>> /\ cb' = [cb EXCEPT !.window = 1, !.timer = Off]
          /\ UNCHANGED <<dev, guard, tout, alive, st, refused>>
       \/ /\ cb.cmpl # <<>> /\ tout' = tout + 1 /\ alive' = (tout' < MaxTimedOut)
          /\ Told(Head(cb.cmpl))
          /\ \E op \in {Head(cb.cmpl)},
                c \in {Retime([cb EXCEPT !.window = 1, !.cmpl = Tail(@)])} :
                \/ op \notin StatusOps /\ HdlCommandComplete(c, op, FALSE)
                \/ /\ op \in StatusOps /\ cb' = SendCmd(c, dev, <<>>)
                   /\ UNCHANGED <<dev, guard, refused>>
    /\ UNCHANGED <<owed, mixed>>

-----------------------------------------------------------------------------

Answer == \E n \in 0 .. MaxCredits : \/ CommandStatus(n)
                                     \/ \E ok \in BOOLEAN : CommandComplete(n, ok)
NopComes == \E n \in 1 .. MaxCredits : Nop(n)
Time == Second \/ DevTimeout \/ CmdTimedOut

CmdNext ==
    \/ \E op \in UserOps : Issue(op)
    \/ DeviceReset \/ OtherEvent
    \/ Answer \/ LoseCommand \/ NopComes \/ Time

\* The task and its timers run, and the controller in the end answers or loses
\* what it was sent and opens the window again.
CmdSpec ==
    /\ CmdInit /\ [][CmdNext]_cmdVars
    /\ WF_cmdVars(Time) /\ WF_cmdVars(NopComes) /\ WF_cmdVars(LoseCommand \/ Answer)

-----------------------------------------------------------------------------
(* Properties.                                                             *)

\* The fields of the control block keep their types: the window does not wrap
\* below zero, HCI_RESET is never queued or kept.
CmdTypeOK ==
    /\ cb.xmit \in Seq(Ops \ {"RESET"}) /\ cb.cmpl \in Seq(Ops \ {"RESET"}) /\ cb.lower \in Seq(Ops)
    /\ cb.window \in Nat /\ cb.timer \in Off .. CmdTimeout
    /\ dev \in {"wait_reset", "wait_after", "ready"}
    /\ guard \in Off .. MaxGuard
    /\ tout \in 0 .. MaxTimedOut

\* A command that is kept for an answer is under the running timer, whatever
\* answers, timeouts and flushes came in between: no other code would notice
\* that its answer is missing.
StoredAreTimed == cb.cmpl # <<>> => cb.timer # Off

\* Between two handlers commands wait only for the window.  The one exception is
\* the timeout that finds no copy: it opens the window and does not look at the
\* queue, and then the guard timer of the setup is running.
NothingHeldBack == cb.xmit # <<>> /\ cb.window > 0 => dev # "ready" /\ guard # Off

\* A command of the stack that was asked for and not yet answered is in one of
\* the queues, so that an answer, a timeout or a reset will end the wait.
Tracked(op) == \E q \in {cb.xmit, cb.cmpl} : \E i \in 1 .. Len(q) : q[i] = op
RequestsTracked == alive /\ ~mixed => \A op \in UserOps : st[op] = "asked" => Tracked(op)

\* The same whatever Command Status events do.  btu_hcif_command_status_evt takes
\* the oldest copy without comparing it, so a late one takes that of another command.
AlwaysTracked == alive => \A op \in UserOps : st[op] = "asked" => Tracked(op)

\* No failure is made up for a setup command during start-up: the guard timer
\* is always the first to expire.  A made-up READ_LOCAL_FEATURES would stop it
\* with the device not ready, for good.
SetupNotFaked ==
    cb.timer = 0 /\ cb.cmpl # <<>> /\ dev # "ready" /\ ~refused => Head(cb.cmpl) \notin SetupOps

\* Start-up does not come to rest: the device gets ready, or its guard timer
\* expires and it is reset again, unless the controller refused the last step.
SetupProgresses == dev # "ready" ~> dev = "ready" \/ guard = 0 \/ refused \/ ~alive

\* A command of the stack is answered, made up or thrown away by a reset, unless
\* others keep coming: each of them restarts the timer they share.
RequestsReported ==
    \A op \in UserOps :
        st[op] = "asked" ~> \/ st[op] = "idle" \/ mixed \/ ~alive
                           \/ \E o \in UserOps \ {op} : st[o] = "asked"

-----------------------------------------------------------------------------
(* The inductive invariant of BtuCommandsProofs.                           *)

Kept == Ops \ {"RESET"}
ControlBlocks == [xmit : Seq(Kept), cmpl : Seq(Kept), window : Nat,
                  timer : Off .. CmdTimeout, lower : Seq(Ops)]

\* The timer runs without a copy only after a flush, and then under the guard.
StaleTimerGuarded == cb.cmpl = <<>> /\ cb.timer # Off => dev # "ready" /\ guard # Off

\* During start-up the guard timer runs; it expires before the timer of a setup
\* command, even if the end of the reset starts it once more.
GuardFirst ==
    dev # "ready" /\ ~refused =>
        /\ guard # Off
        /\ cb.cmpl # <<>> /\ Head(cb.cmpl) \in SetupOps =>
               IF dev = "wait_reset" THEN cb.timer >= guard + ReplyTimeout ELSE cb.timer > guard

CmdInv ==
    /\ cb \in ControlBlocks /\ dev \in {"wait_reset", "wait_after", "ready"}
    /\ guard \in Off .. MaxGuard /\ tout \in 0 .. MaxTimedOut /\ (alive => tout < MaxTimedOut)
    /\ st \in [UserOps -> {"idle", "asked"}]
    /\ StoredAreTimed /\ NothingHeldBack /\ StaleTimerGuarded /\ GuardFirst
    /\ RequestsTracked
=============================================================================
