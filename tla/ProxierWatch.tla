---------------------------- MODULE ProxierWatch -----------------------------
(***************************************************************************)
(* The proxier watch controller: the kubelet of a virtual node is a        *)
(* proxier pod, and when the pod goes the node's address must become that  *)
(* of another one.  A pod stands for its address.                          *)
(***************************************************************************)
EXTENDS NodeView

CONSTANT Proxiers   \* the proxier pods of the binding
ASSUME ProxierAssumption == None \notin Proxiers

VARIABLES
  px, pxc,   \* proxier pods; in the cache
  wq,        \* pods that are queued
  wfl,       \* the reconcile in flight
  missed     \* the last sync was misled, ran while the node was made, or gave up

wvars == <<px, pxc, wq, wfl, missed>>

\* A pod is "pending", has an "ip", is "running", and is "gone" for good.
NextPhases(phase) ==
  CASE phase = "none"    -> {"pending"}
    [] phase = "pending" -> {"ip", "gone"}
    [] phase = "ip"      -> {"running", "gone"}
    [] phase = "running" -> {"gone"}
    [] OTHER             -> {}
HasIP(phase) == phase \in {"ip", "running"}
WIdle == [at |-> "idle", pod |-> None, target |-> None, attempt |-> 0]

MaxRetries == 3

\* getRunningProxierPodIPs.
RunningProxiers(pods) == {p \in Proxiers : pods[p] = "running"}

\* getProxierPodIP of the node controller: a running pod, if there is one.
ProxierPodIP(pods) == IF RunningProxiers(pods) = {} THEN {None} ELSE RunningProxiers(pods)

WReturn(pod, ok) == wfl' = WIdle /\ wq' = IF ok THEN wq \ {pod} ELSE wq \union {pod}

\* The cached node needs nothing: there is none, or its address is a running pod's.
Content == ~vc.on \/ vc.ip \in RunningProxiers(pxc)

\* SyncProxierPod up to the first write.  That no pod runs is an error.
SyncProxierPod(making) ==
  /\ wfl = WIdle
  /\ \E p \in wq :
       \/ /\ Content /\ WReturn(p, TRUE)
       \/ /\ ~Content /\ RunningProxiers(pxc) = {}
          /\ WReturn(p, FALSE)
       \/ /\ ~Content
          /\ \E t \in RunningProxiers(pxc) :
               wfl' = [at |-> "patch", pod |-> p, target |-> t, attempt |-> 1]
          /\ wq' = wq \ {p}
  /\ missed' = (making.on \/ (vn.on /\ Content /\ ~(vc.on /\ vc.ip = vn.ip)))
  /\ UNCHANGED <<nvars, px, pxc>>

\* An attempt fails; after the last one the node is given up, not retried.
AttemptFails ==
  IF wfl.attempt < MaxRetries
  THEN wfl' = [wfl EXCEPT !.attempt = @ + 1] /\ UNCHANGED <<wq, missed>>
  ELSE wfl' = WIdle /\ missed' = TRUE /\ UNCHANGED wq

\* One attempt of updateVNodeIPWithRetry.  The patch names no version, so it
\* applies to the node whatever happened to it since it was read.
UpdateVNodeIP ==
  /\ wfl.at = "patch"
  /\ \/ ~vc.on /\ AttemptFails /\ UNCHANGED vn
     \/ /\ vc.on /\ vc.ip = wfl.target
        /\ wfl' = WIdle /\ UNCHANGED <<vn, wq, missed>>
     \/ /\ vc.on /\ vc.ip # wfl.target /\ vn.on
        /\ vn' = [vn EXCEPT !.ip = wfl.target]
        /\ wfl' = WIdle /\ UNCHANGED <<wq, missed>>
     \/ /\ vc.on /\ vc.ip # wfl.target /\ ~vn.on
        /\ AttemptFails /\ UNCHANGED vn
  /\ UNCHANGED <<vc, changes, errors, px, pxc>>

WFail ==
  /\ wfl # WIdle /\ Error /\ AttemptFails
  /\ UNCHANGED <<vn, vc, changes, px, pxc>>

----------------------------------------------------------------------------
\* A proxier pod goes on to its next phase, or is deleted.
ProxierPhase(p) ==
  /\ Change
  /\ \E phase \in NextPhases(px[p]) : px' = [px EXCEPT ![p] = phase]
  /\ UNCHANGED <<vn, vc, errors, pxc, wq, wfl, missed>>

\* Mutant: the deletion of a pod is no event.
ProxierPodEventNoDelete(old, new) == ~HasIP(old) /\ HasIP(new)

\* The event filter: a pod gets its address, or is deleted.
ProxierPodEvent(old, new) == (~HasIP(old) /\ HasIP(new)) \/ (old # "none" /\ new = "gone")

DeliverProxier(p) ==
  /\ pxc[p] # px[p] /\ pxc' = [pxc EXCEPT ![p] = px[p]]
  /\ wq' = IF ProxierPodEvent(pxc[p], px[p]) THEN wq \union {p} ELSE wq
  /\ UNCHANGED <<nvars, px, wfl, missed>>

WInit ==
  /\ px \in [Proxiers -> {"none", "running"}] /\ pxc = px
  /\ wq = RunningProxiers(px) /\ wfl = WIdle /\ missed = FALSE

WNext(making) ==
  \/ SyncProxierPod(making) \/ UpdateVNodeIP \/ WFail
  \/ \E p \in Proxiers : ProxierPhase(p) \/ DeliverProxier(p)
==============================================================================
