------------------------------- MODULE Signals -------------------------------
(***************************************************************************)
(* The signal emulation of src/src/posix9_signal.c: raise and kill post a  *)
(* bit, posix9_signal_process (called from the event loop, from pause and  *)
(* from sigsuspend) delivers, and the Time Manager's interrupt posts       *)
(* SIGALRM.  A handler is program code: while it runs it may do whatever   *)
(* the program does, so the calls under way in a thread form a stack.      *)
(*                                                                         *)
(* Threads share everything here, the mask too.  An action is by one of    *)
(* them; the others run between two actions, because program code may      *)
(* yield anywhere and a waiting loop yields in each turn.                  *)
(*                                                                         *)
(* signal_handlers[s] and signal_actions[s].sa_handler are only ever       *)
(* written together with one value, so both are action[s].handler.         *)
(***************************************************************************)
EXTENDS Integers, SequencesExt

CONSTANTS Threads,
          Sigs,         \* the signal numbers in play
          INT, ALRM,    \* SIGINT, which Cmd-. posts, and SIGALRM
          Uncatchable,  \* SIGKILL and SIGSTOP
          Fatal,        \* the signals whose default action is TERM or CORE
          Masks,        \* the sets programs pass to sigprocmask and sigsuspend
          Actions,      \* the sa_mask and sa_flags they pass to sigaction
          MaxDepth      \* bound: calls under way at a time, in all threads

ASSUME SigsAssumption == /\ Sigs \subseteq Nat
                         /\ {INT, ALRM} \subseteq Sigs \ Uncatchable
                         /\ Uncatchable \subseteq Sigs
                         /\ Fatal \subseteq Sigs
                         /\ Masks \subseteq SUBSET Sigs
                         /\ Actions \subseteq [mask : SUBSET Sigs,
                                               flags : SUBSET {"NODEFER", "RESETHAND"}]
                         /\ MaxDepth \in Nat

VARIABLES pending,          \* pending_signals
          blocked,          \* blocked_signals
          action,           \* signal_handlers and signal_actions
          alarm_installed,  \* and the timer task is queued
          stack,            \* the calls under way in all threads, in the order in which they began
          exited,           \* ExitToShell has been called
          crossed           \* a call has come back before one that began after it

vars == <<pending, blocked, action, alarm_installed, stack, exited, crossed>>

Handlers == {"DFL", "IGN", "user"}

\* A user handler under way: the mask to restore and the signals its delivery loop still has to
\* visit; a call of pause or sigsuspend: the mask that sigsuspend will restore, and whether a
\* handler has run in it.
Frames ==
  [kind : {"handler"}, thread : Threads, sig : Sigs, old : SUBSET Sigs, todo : SUBSET Sigs]
    \cup [kind : {"pause", "sigsuspend"}, thread : Threads, old : SUBSET Sigs, ran : BOOLEAN]

TypeOK == /\ pending \subseteq Sigs
          /\ blocked \subseteq Sigs
          /\ action \in [Sigs -> [handler : Handlers, mask : SUBSET Sigs,
                                  flags : SUBSET {"NODEFER", "RESETHAND"}]]
          /\ alarm_installed \in BOOLEAN
          /\ \A s \in Uncatchable : action[s].handler = "DFL"
          /\ stack \in Seq(Frames)
          /\ exited \in BOOLEAN
          /\ crossed \in BOOLEAN

Init == /\ pending = {}
        /\ blocked = {}
        /\ action = [s \in Sigs |-> [handler |-> "DFL", mask |-> {}, flags |-> {}]]
        /\ alarm_installed = FALSE
        /\ stack = <<>>
        /\ exited = FALSE
        /\ crossed = FALSE

\* Where the innermost call of a thread is among the calls under way, 0 if it has none.
Innermost(t, calls) == SelectLastInSeq(calls, LAMBDA c : c.thread = t)

Top(t) == stack[Innermost(t, stack)]
Without(t) == RemoveAt(stack, Innermost(t, stack))
Within(t, kinds) ==
  ~exited /\ (IF Innermost(t, stack) = 0 THEN FALSE ELSE Top(t).kind \in kinds)

\* Program code runs: a thread's own, or a handler's.
Program(t) == ~exited /\ (Innermost(t, stack) # 0 => Top(t).kind = "handler")

-----------------------------------------------------------------------------
(* Delivery *)

\* The call that the handler starts inside of, if it is one that waits for a signal.
MarkRan(t, calls) ==
  LET i == Innermost(t, calls) IN
    IF i # 0 /\ calls[i].kind # "handler" THEN [calls EXCEPT ![i].ran = TRUE] ELSE calls

\* The mask under which the handler of s runs.
HandlerMask(s, mask) ==
  mask \cup action[s].mask \cup (IF "NODEFER" \in action[s].flags THEN {} ELSE {s})

\* A mutant of LastSignal below: the delivery loop stops one signal early.
LastSignalButOne == Max(Sigs \ {Max(Sigs)})

LastSignal == Max(Sigs)

\* The delivery loop of t over the signals "todo" in ascending order, called from "calls" with the
\* signals "pend" pending and the mask "mask". It runs on to the first signal with a user
\* handler, which it calls, or whose default action ends the program; those before are dropped.
DeliverFrom(t, pend, mask, todo, calls) ==
  LET visited == {s \in todo : s <= LastSignal}
      stops == {s \in visited : \/ action[s].handler = "user"
                                \/ action[s].handler = "DFL" /\ s \in Fatal}
      s == Min(stops)
  IN  IF stops = {}
        THEN /\ pending' = pend \ visited
             /\ blocked' = mask
             /\ stack' = calls
             /\ UNCHANGED exited
        ELSE /\ pending' = pend \ {i \in visited : i <= s}
             /\ IF action[s].handler = "DFL"
                  THEN /\ exited' = TRUE
                       /\ blocked' = mask
                       /\ stack' = <<>>
                  ELSE /\ blocked' = HandlerMask(s, mask)
                       /\ stack' = Append(MarkRan(t, calls),
                                    [kind |-> "handler", thread |-> t, sig |-> s, old |-> mask,
                                     todo |-> {i \in visited : i > s}])
                       /\ UNCHANGED exited

\* pending_signals is read, changed and written by main code without a lock. An interrupt that
\* falls between the read and the write posts a SIGALRM that the write wipes out.
Written == alarm_installed' \in {alarm_installed, FALSE}

\* posix9_signal_process: a Cmd-. in the event queue posts SIGINT before the signals to deliver
\* are computed. Both write pending_signals; with neither the call leaves it alone.
Process(t, pend, calls, mask) ==
  \E cmd \in SUBSET {INT} :
    LET found == pend \cup cmd
    IN  /\ DeliverFrom(t, found, mask, found \ mask, calls)
        /\ UNCHANGED action
        /\ IF cmd = {} /\ found \subseteq mask THEN UNCHANGED alarm_installed ELSE Written

Poll(t) == /\ Len(stack) < MaxDepth
           /\ Process(t, pending, stack, blocked)
           /\ UNCHANGED crossed

\* The innermost call of t comes back.
ComesBack(t) == crossed' = (crossed \/ Innermost(t, stack) # Len(stack))

\* A mutant of HandlerReturns below: the mask stays as the handler had it.
HandlerKeepsMask(t) ==
  /\ Within(t, {"handler"})
  /\ DeliverFrom(t, pending, blocked, Top(t).todo, Without(t))
  /\ ComesBack(t)
  /\ UNCHANGED <<action, alarm_installed>>

\* A handler returns: the mask comes back, SA_RESETHAND as it is set now takes effect, and the
\* loop that called the handler goes on with the signals it found deliverable at its start.
HandlerReturns(t) ==
  /\ Within(t, {"handler"})
  /\ DeliverFrom(t, pending, Top(t).old, Top(t).todo, Without(t))
  /\ ComesBack(t)
  /\ action' = IF "RESETHAND" \in action[Top(t).sig].flags
                 THEN [action EXCEPT ![Top(t).sig].handler = "DFL"]
                 ELSE action
  /\ IF Top(t).todo = {} THEN UNCHANGED alarm_installed ELSE Written

-----------------------------------------------------------------------------
(* Posting *)

\* raise, and kill of the program itself.
Raise(s) == /\ pending' = pending \cup {s}
            /\ Written
            /\ UNCHANGED <<blocked, action, stack, exited, crossed>>

\* The timer task is queued no longer.
AlarmPosted == alarm_installed /\ alarm_installed' = FALSE

AlarmFires == /\ ~exited
              /\ AlarmPosted
              /\ pending' = pending \cup {ALRM}
              /\ UNCHANGED <<blocked, action, stack, exited, crossed>>

\* alarm(0) cancels, anything else cancels and sets.
Alarm == /\ alarm_installed' \in BOOLEAN
         /\ UNCHANGED <<pending, blocked, action, stack, exited, crossed>>

-----------------------------------------------------------------------------
(* Dispositions and the mask *)

\* A mutant of Signal below: SIGKILL and SIGSTOP can be caught.
SignalAny(s, h) == /\ action' = [action EXCEPT ![s].handler = h]
                   /\ UNCHANGED <<pending, blocked, alarm_installed, stack, exited, crossed>>

\* signal() leaves mask and flags of an earlier sigaction() in force.
Signal(s, h) == /\ s \notin Uncatchable
                /\ action' = [action EXCEPT ![s].handler = h]
                /\ UNCHANGED <<pending, blocked, alarm_installed, stack, exited, crossed>>

Sigaction(s, h, act) ==
  /\ s \notin Uncatchable
  /\ action' = [action EXCEPT ![s] = [handler |-> h, mask |-> act.mask, flags |-> act.flags]]
  /\ UNCHANGED <<pending, blocked, alarm_installed, stack, exited, crossed>>

\* A mutant of Unblockable below: nothing is taken out of the mask.
UnblockableNone == {}

\* What sigprocmask takes out of the mask.
Unblockable == Uncatchable

Sigprocmask(how, set) ==
  /\ blocked' = (CASE how = "SIG_BLOCK" -> blocked \cup set
                   [] how = "SIG_UNBLOCK" -> blocked \ set
                   [] how = "SIG_SETMASK" -> set) \ Unblockable
  /\ UNCHANGED <<pending, action, alarm_installed, stack, exited, crossed>>

-----------------------------------------------------------------------------
(* Waiting for a signal *)

\* The call tests the pending signals under its mask. With none to deliver it starts to wait and
\* yields; otherwise it ends at once: the mask is as before, and a poll delivers.
Enter(t, kind, mask) ==
  /\ Len(stack) < MaxDepth
  /\ UNCHANGED crossed
  /\ IF pending \subseteq mask
       THEN /\ stack' = Append(stack, [kind |-> kind, thread |-> t, old |-> blocked, ran |-> FALSE])
            /\ blocked' = mask
            /\ UNCHANGED <<pending, action, alarm_installed, exited>>
       ELSE Process(t, pending, stack, blocked)

Pause(t) == Enter(t, "pause", blocked)

\* The mask is taken as it is: SIGKILL and SIGSTOP are not removed from it. While the call
\* yields it is in force for every thread.
Sigsuspend(t, mask) == Enter(t, "sigsuspend", mask)

\* A turn of the waiting loop that finds nothing to deliver polls and yields: what the poll
\* delivers (a Cmd-., or an alarm that fires after the test) is gone when the loop tests again.
WaitGoesOn(t) ==
  /\ Within(t, {"pause", "sigsuspend"})
  /\ pending \subseteq blocked
  /\ \/ Process(t, pending, stack, blocked)
     \/ AlarmPosted /\ Process(t, pending \cup {ALRM}, stack, blocked)
  /\ UNCHANGED crossed

\* With something to deliver the loop ends. sigsuspend puts back the mask that it found, pause
\* leaves the one there is. A last poll delivers.
WaitEnds(t) ==
  /\ Within(t, {"pause", "sigsuspend"})
  /\ ~(pending \subseteq blocked)
  /\ Process(t, pending, Without(t), IF Top(t).kind = "pause" THEN blocked ELSE Top(t).old)
  /\ ComesBack(t)

\* What program code that runs in t may call.
Call(t) ==
  \/ Poll(t) \/ Alarm \/ Pause(t)
  \/ \E s \in Sigs : Raise(s)
  \/ \E s \in Sigs, h \in Handlers :
       \/ Signal(s, h)
       \/ \E act \in Actions : Sigaction(s, h, act)
  \/ \E mask \in Masks :
       \/ Sigsuspend(t, mask)
       \/ \E how \in {"SIG_BLOCK", "SIG_UNBLOCK", "SIG_SETMASK"} : Sigprocmask(how, mask)

Next == \/ AlarmFires
        \/ \E t \in Threads : \/ Program(t) /\ Call(t)
                              \/ HandlerReturns(t) \/ WaitGoesOn(t) \/ WaitEnds(t)

Spec == Init /\ [][Next]_vars

\* Waiting loops turn, handlers end, and the program polls again and again, as its event loop
\* has to.
FairSpec == /\ Spec
            /\ \A t \in Threads : /\ WF_vars(WaitGoesOn(t) \/ WaitEnds(t))
                                  /\ SF_vars(HandlerReturns(t))
                                  /\ SF_vars(Program(t) /\ Poll(t))

-----------------------------------------------------------------------------
(* Properties *)

HandlerFrames == {i \in 1 .. Len(stack) : stack[i].kind = "handler"}

\* A signal is not delivered while it is blocked, although the delivery loop tests the mask only
\* once, before the first handler: neither a handler that has been started nor a signal that
\* the loop will still visit is in the mask its loop goes back to.
NeverDeliverBlocked ==
  \A i \in HandlerFrames : stack[i].old \cap (stack[i].todo \cup {stack[i].sig}) = {}

\* SIGKILL and SIGSTOP are blocked at most while a handler runs or a sigsuspend waits in some
\* thread: once no call is under way they are unblocked again. This is said only of programs
\* whose calls, those of all threads together, have come back innermost first. The mask is one
\* for all threads: if a handler or a sigsuspend comes back before a sigsuspend or a handler that
\* another thread began after it, the later one puts back the earlier one's mask, which may hold
\* SIGKILL, and it stays.
KillIsUnblockedAgain == stack = <<>> /\ ~exited /\ ~crossed => blocked \cap Uncatchable = {}

\* No signal stays pending and deliverable for ever in a program that polls, wherever in the
\* number range it is and whatever handlers, masks and waits come between.
NoSignalForgotten ==
  \A s \in Sigs : []<>(s \notin pending \/ s \in blocked \/ exited)

\* What a delivery loop is still to visit is pending: it "delivers each pending signal" and no
\* signal that a poll inside a handler has delivered meanwhile.
DeliverOnlyPending == ~exited => \A i \in HandlerFrames : stack[i].todo \subseteq pending

\* pause and sigsuspend wait for a signal: they do not go on waiting once a handler has run in
\* them.
WaitEndsWithHandler == \A t \in Threads : Within(t, {"pause", "sigsuspend"}) => ~Top(t).ran
=============================================================================
