--------------------------- MODULE NativeBackward ---------------------------
(***************************************************************************)
(* stream_cqsa_backward as the autograd operator calls it                  *)
(* (native_autograd.py): at the depth the forward was asked for, whatever  *)
(* depth the forward reached by refinement, and on the host or on the      *)
(* device, as the inputs lie.                                              *)
(***************************************************************************)
EXTENDS HostBackward

CONSTANTS Depth, ChildrenOf, BaseRetries, RetriesPerTask   \* as in ForwardScheduler

\* What refine_task guarantees (RefinementTree: ChildrenPartition): the children
\* of a subproblem share its pairs.
ASSUME BackwardChildren ==
  /\ Depth \in [Task -> Nat]
  /\ ChildrenOf \in [Task -> Seq(Task)]
  /\ \A t \in Task : Depth[t] < DepthCap => Shares(ChildrenOf[t], Keep[t])
  /\ BaseRetries \in Nat /\ RetriesPerTask \in Nat

VARIABLES
  path,                                                  \* host_resident
  todo, hand, at, initial, tries, grad, half, ending     \* the state of DeviceBackward

OnDevice == INSTANCE DeviceBackward

hostVars   == vars
deviceVars == <<todo, hand, at, initial, tries, grad, half, ending>>
allVars    == <<hostVars, path, deviceVars>>

\* One call: both paths would start at the depth asked for.
CallInit == path \in {"host", "device"} /\ Init /\ OnDevice!Init /\ todo = TasksAt[depth]

HostStep   == path = "host" /\ Next /\ UNCHANGED <<path, deviceVars>>
DeviceStep == path = "device" /\ OnDevice!Next /\ UNCHANGED <<path, hostVars>>

DeviceEnded == path = "device" /\ at = "end" /\ UNCHANGED allVars

\* Issuing thread, streams and worker all run as long as they have something to
\* do, and so does the one thread of the device path.
CallSpec ==
  /\ CallInit /\ [][HostStep \/ DeviceStep \/ DeviceEnded]_allVars
  /\ WF_allVars(HostStep /\ IssuerNext)
  /\ \A s \in Slot : WF_allVars(HostStep /\ StreamNext(s))
  /\ \A w \in Worker : WF_allVars(HostStep /\ AdderNext(w))
  /\ WF_allVars(DeviceStep)

-----------------------------------------------------------------------------

\* stream_cqsa_backward on either path: gradients that are returned hold every
\* pair exactly once, whatever depth it started at, however often it was
\* repeated or refined, and wherever an addition failed.
GradientsOnce == ReturnedExact /\ OnDevice!GradientsExact

\* On either path the call ends, and the pipeline of issuer, streams and worker
\* never waits on itself.
CallTerminates == <>((IF path = "host" THEN pc ELSE at) = "end")

=============================================================================
