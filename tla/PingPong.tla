------------------------------- MODULE PingPong -------------------------------
(***************************************************************************)
(* A client of MutexCond: the usual loop over a predicate.  Threads pass a *)
(* turn round with one mutex and one condition variable:                   *)
(*                                                                         *)
(*   lock; while (turn != me) wait; turn = next; broadcast; unlock; repeat *)
(*                                                                         *)
(* Its only yields are those of the library, as the comment at the top of  *)
(* posix9_thread.c ("polling with yield") invites a program to rely on.    *)
(***************************************************************************)
EXTENDS MutexCond

VARIABLES turn,  \* the predicate the waits are about
          at     \* the statement each thread is at

program == <<turn, at>>
allvars == <<vars, program>>

ProgramInit == /\ Init
               /\ turn \in Threads
               /\ at = [t \in Threads |-> "enter"]

Move(t, stmt) == at' = [at EXCEPT ![t] = stmt]

Enter(t) == /\ at[t] = "enter"
            /\ Lock(t)
            /\ Move(t, IF pc'[t] = "in" THEN "test" ELSE "enter")
            /\ UNCHANGED turn

\* The loop condition, and the hand-over once it is false.
Test(t) == /\ at[t] = "test"
           /\ pc[t] = "in"
           /\ IF turn = t
                THEN /\ turn' \in Threads \ {t}
                     /\ Move(t, "broadcast")
                ELSE /\ Move(t, "wait")
                     /\ UNCHANGED turn
           /\ UNCHANGED vars

WaitForTurn(t) == /\ at[t] = "wait"
                  /\ Wait(t)
                  /\ Move(t, "test")
                  /\ UNCHANGED turn

\* A broadcast without a waiter does nothing.
PassTurn(t) == /\ at[t] = "broadcast"
               /\ Broadcast(t) \/ (waiting = 0 /\ UNCHANGED vars)
               /\ Move(t, "leave")
               /\ UNCHANGED turn

Leave(t) == /\ at[t] = "leave"
            /\ Unlock(t)
            /\ Move(t, "enter")
            /\ UNCHANGED turn

Resume(t) == /\ at[t] = "test"
             /\ Library(t)
             /\ UNCHANGED program

Step(t) == /\ running = t
           /\ \/ Enter(t) \/ Test(t) \/ WaitForTurn(t)
              \/ PassTurn(t) \/ Leave(t) \/ Resume(t)

Schedule(t) == Dispatch(t) /\ UNCHANGED program

ProgramNext == \E t \in Threads : Step(t) \/ Schedule(t)

ProgramSpec == /\ ProgramInit /\ [][ProgramNext]_allvars
               /\ \A t \in Threads : WF_allvars(Step(t)) /\ SF_allvars(Schedule(t))
=============================================================================
