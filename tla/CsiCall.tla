------------------------------- MODULE CsiCall -------------------------------
(***************************************************************************)
(* A call of a CSI handler as a process: its steps are the requests it     *)
(* sends, pc[c] names the next one.  EvsAttach and EvsProvision, where the *)
(* end of a step also ends the polling of a job, have their own.           *)
(***************************************************************************)
EXTENDS Naturals, FiniteSets

CONSTANTS
  Calls,     \* the calls that can be in progress at the same time
  MaxPolls,  \* number of polls of a wait (DefaultSteps, 30 in the code)
  Faults     \* what can go wrong: see FaultKinds

FaultKinds == {
  "api",     \* a request to the cloud is answered with an error
  "lost",    \* a request is carried out but its answer is lost
  "timeout", \* an operation of the cloud outlasts the polls of a wait
  "jobfail", \* an operation of the cloud fails
  "crash" }  \* the driver's process dies and is restarted

ASSUME CallsAssumption == IsFiniteSet(Calls)
ASSUME MaxPollsAssumption == MaxPolls \in Nat \ {0}
ASSUME FaultsAssumption == Faults \subseteq FaultKinds

VARIABLES
  pc,        \* pc[c]: the next request of call c
  polls,     \* polls c has made in its wait
  reply      \* the answer of the last call of slot c

InProgress(c) == pc[c] # "idle"

NoCalls ==
  /\ pc = [c \in Calls |-> "idle"]
  /\ polls = [c \in Calls |-> 0]
  /\ reply = [c \in Calls |-> "none"]

Goto(c, l) == pc' = [pc EXCEPT ![c] = l] /\ UNCHANGED reply

\* The handler returns: r is "OK" or "ERR".
Return(c, r) ==
  /\ pc' = [pc EXCEPT ![c] = "idle"]
  /\ reply' = [reply EXCEPT ![c] = r]

\* A new call takes the slot c.
Enter(c, l) ==
  /\ ~InProgress(c)
  /\ pc' = [pc EXCEPT ![c] = l]
  /\ polls' = [polls EXCEPT ![c] = 0]
  /\ reply' = [reply EXCEPT ![c] = "none"]

\* WaitForCompleted polls at most MaxPolls times; the last poll that finds the
\* condition still false ends the wait with ErrWaitTimeout.  FaultyOnePollMore
\* is what an off-by-one would make of it.
FaultyOnePollMore(c) ==
  \/ polls[c] < MaxPolls /\ polls' = [polls EXCEPT ![c] = @ + 1] /\ UNCHANGED <<pc, reply>>
  \/ polls[c] = MaxPolls /\ Return(c, "ERR") /\ UNCHANGED polls

NotYet(c) ==
  \/ /\ polls[c] + 1 < MaxPolls
     /\ polls' = [polls EXCEPT ![c] = @ + 1]
     /\ UNCHANGED <<pc, reply>>
  \/ /\ polls[c] + 1 = MaxPolls
     /\ "timeout" \in Faults
     /\ Return(c, "ERR")
     /\ UNCHANGED polls

\* The process dies: the calls in progress end with a broken connection.
CrashCalls ==
  /\ "crash" \in Faults /\ \E c \in Calls : InProgress(c)
  /\ pc' = [c \in Calls |-> "idle"]
  /\ reply' = [c \in Calls |-> IF InProgress(c) THEN "ERR" ELSE reply[c]]
  /\ UNCHANGED polls
=============================================================================
