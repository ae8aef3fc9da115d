--------------------------- MODULE SandboxRequest ---------------------------
(***************************************************************************)
(* What a request to the sandbox adapter (src/sandbox.rs) declares, and    *)
(* what validate and preflight (adapters/sandbox/src/lib.rs) refuse of it. *)
(* A path is the sequence of its names, the root the empty one.            *)
(***************************************************************************)
EXTENDS Naturals, Sequences

CONSTANTS Names,         \* the names a path is made of
          SystemPaths,   \* the destinations a mount may not shadow
          StateDirectory \* the adapter's private directory on the host

ASSUME PathAssumption == StateDirectory \in Seq(Names) /\ SystemPaths \subseteq Seq(Names)

Mount == [source : Seq(Names), destination : Seq(Names), writable : BOOLEAN, canonical : BOOLEAN]

SandboxRequests ==
  [approved : BOOLEAN, wellFormed : BOOLEAN, enoughTasks : BOOLEAN,
   profile : {"local-oci", "gvisor"}, mounts : Seq(Mount), outputs : SUBSET Seq(Names)]

Under(path, base) ==
  Len(base) <= Len(path) /\ SubSeq(path, 1, Len(base)) = base

Mounts(request) == {request.mounts[n] : n \in DOMAIN request.mounts}

(* A bind mount: the host path is canonical and not the root, the          *)
(* destination shadows nothing of the system.                              *)
MountAllowed(m) ==
  /\ m.canonical /\ m.source # <<>> /\ m.destination # <<>>
  /\ \A base \in SystemPaths : ~Under(m.destination, base)

(* Mutant: overlapping destinations are let through.                       *)
OverlapAllowed(request) == TRUE

Disjoint(request) ==
  \A n \in DOMAIN request.mounts : \A k \in 1..(n - 1) :
    LET m == request.mounts[n].destination
        prior == request.mounts[k].destination
    IN ~Under(m, prior) /\ ~Under(prior, m)

(* The writable mounts an output lies in.                                  *)
WritableMounts(request, out) ==
  {n \in DOMAIN request.mounts :
     request.mounts[n].writable /\ Under(out, request.mounts[n].destination)}

(* validate; wellFormed stands for the digests, image, network, command,   *)
(* user, environment and limits, of which nothing else is used.            *)
Valid(request) ==
  /\ request.wellFormed
  /\ Len(request.mounts) \in 1..16
  /\ \A m \in Mounts(request) : MountAllowed(m)
  /\ Disjoint(request)
  /\ \A out \in request.outputs : WritableMounts(request, out) # {}

StateOutside(request) ==
  \A m \in Mounts(request) :
    ~Under(StateDirectory, m.source) /\ ~Under(m.source, StateDirectory)

(* The part of preflight that asks nobody else.                            *)
Admitted(request, gvisor) ==
  /\ request.approved
  /\ Valid(request)
  /\ StateOutside(request)
  /\ request.profile = IF gvisor THEN "gvisor" ELSE "local-oci"
  /\ gvisor => request.enoughTasks

(* collect_artifacts reads an output from the first writable mount that    *)
(* holds it.                                                               *)
HostPath(request, out) ==
  LET n == CHOOSE n \in WritableMounts(request, out) :
             \A k \in WritableMounts(request, out) : n <= k
      m == request.mounts[n]
  IN m.source \o SubSeq(out, Len(m.destination) + 1, Len(out))

(* What the workload sees at a path: the deepest mount over it hides the   *)
(* others, wherever it stands in the request.                              *)
SeenAt(request, out) ==
  LET over == {m \in Mounts(request) : Under(out, m.destination)}
      deepest == {m \in over : \A o \in over : Len(o.destination) <= Len(m.destination)}
  IN {m.source \o SubSeq(out, Len(m.destination) + 1, Len(out)) : m \in deepest}

=============================================================================
