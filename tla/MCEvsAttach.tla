---------------------------- MODULE MCEvsAttach ----------------------------
(* Instances of EvsAttach for TLC.                                         *)
EXTENDS EvsAttach, TLC

\* Two ECS instances and two slots for calls are enough for a retry beside the
\* call it retries, and for a move of the volume from one server to another.
CONSTANTS s1, s2, c1, c2

OneServer == {s1}
TwoServers == {s1, s2}
OneCall == {c1}
TwoCalls == {c1, c2}

EveryIntent == {"publish", "unpublish"} \X Servers
\* The CO only asks for the volume to be published, here or there.
PublishOnly == {"publish"} \X Servers

AllFaults == FaultKinds
FailingJobs == {"jobfail"}
TimeoutOnly == {"timeout"}
SlowCloud == {"timeout", "lost", "jobfail"}

Symmetry == Permutations(Calls) \cup Permutations(Servers)
=============================================================================
