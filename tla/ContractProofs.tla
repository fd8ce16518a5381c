--------------------------- MODULE ContractProofs ---------------------------
(***************************************************************************)
(* What follows from the contract, for any sets of sandboxes, workspaces   *)
(* and requests.  With the refinement Contract of MCControlPlane it        *)
(* carries over to the control plane.                                      *)
(***************************************************************************)
EXTENDS ResourceContract, TLAPS

(* Attached alone is not inductive: a sandbox gets what is offered, so     *)
(* what is offered must exist and be wanted, and a workspace that is gone  *)
(* must stay without a volume.                                             *)
ContractInv ==
  /\ ContractTypeOK
  /\ Attached
  /\ offered \subseteq volumes \ (condemned \cup closed)
  /\ closed \cap volumes = {}

(* Nothing is attached, offered or gone at the start.                      *)
LEMMA ContractInitial == ContractInit => ContractInv
  BY DEF ContractInit, ContractInv, ContractTypeOK, Attached, Live

(* Admission: the workspace was offered and free.                          *)
LEMMA AdmitKeeps ==
  ASSUME ContractInv, NEW r \in Requests, NEW s \in Sandboxes,
         NEW w \in Workspaces \cup {0}, NEW c \in Requests \cup {0}, Admit(r, s, w, c)
  PROVE  ContractInv'
<1>1. ContractTypeOK'
  BY DEF Admit, Accept, ContractInv, ContractTypeOK, workspaceVars, checkpointVars
<1>2. Live' = Live \cup {s} /\ s \notin Live
  BY DEF Admit, Live, ContractInv, ContractTypeOK
<1>3. mount'[s] = w /\ \A t \in Live : mount'[t] = mount[t]
  BY <1>2 DEF Admit, Live, ContractInv, ContractTypeOK
<1>4. Attached'
  <2> SUFFICES ASSUME NEW t \in Live', mount'[t] # 0
               PROVE  /\ \A u \in Live' : mount'[u] = mount'[t] => u = t
                      /\ mount'[t] \in volumes' \ (condemned' \cup closed')
    BY DEF Attached
  <2>1. CASE t = s
    BY <2>1, <1>2, <1>3 DEF Admit, Free, ContractInv, workspaceVars
  <2>2. CASE t \in Live
    BY <2>2, <1>2, <1>3 DEF Admit, Free, ContractInv, Attached, workspaceVars
  <2> QED BY <2>1, <2>2, <1>2
<1> QED BY <1>1, <1>4 DEF Admit, ContractInv, workspaceVars

(* A request for deletion finds the workspace free, and so does the        *)
(* destruction that follows it.                                            *)
LEMMA DeletionKeeps ==
  ASSUME ContractInv, NEW w \in Workspaces,
         (\E r \in Requests : Condemn(r, w)) \/ Destroy(w) \/ Close(w)
  PROVE  ContractInv'
<1>1. ContractTypeOK'
  BY DEF Condemn, Destroy, Close, Accept, ContractInv, ContractTypeOK, sandboxVars, checkpointVars
<1>2. Live' = Live /\ mount' = mount
  BY DEF Condemn, Destroy, Close, Live, sandboxVars
<1>3. \A s \in Live : mount[s] # 0 => mount[s] # w
  <2>1. CASE \E r \in Requests : Condemn(r, w)
    BY <2>1 DEF Condemn, Free
  <2>2. CASE Destroy(w)
    BY <2>2 DEF Destroy, ContractInv, Attached
  <2>3. CASE Close(w)
    BY <2>3 DEF Close, ContractInv, Attached
  <2> QED BY <2>1, <2>2, <2>3
<1>4. Attached'
  BY <1>2, <1>3 DEF Condemn, Destroy, Close, ContractInv, Attached
<1> QED
  BY <1>1, <1>4 DEF Condemn, Destroy, Close, ContractInv

(* The making and offering of a volume.                                    *)
LEMMA ProvisionKeeps ==
  ASSUME ContractInv, NEW w \in Workspaces,
         (\E r \in Requests : Announce(r, w)) \/ Provision(w) \/ Offer(w) \/ Withdraw(w)
  PROVE  ContractInv'
<1>1. ContractTypeOK'
  BY DEF Announce, Provision, Offer, Withdraw, Accept, ContractInv, ContractTypeOK,
         sandboxVars, checkpointVars
<1>2. Live' = Live /\ mount' = mount
  BY DEF Announce, Provision, Offer, Withdraw, Live, sandboxVars
<1>3. Attached'
  BY <1>2 DEF Announce, Provision, Offer, Withdraw, ContractInv, Attached
<1> QED
  BY <1>1, <1>3 DEF Announce, Provision, Offer, Withdraw, ContractInv, ContractTypeOK

(* The end of a sandbox, and everything about checkpoints and requests.    *)
LEMMA OthersKeep ==
  ASSUME ContractInv,
         \/ \E s \in Sandboxes : End(s)
         \/ \E r \in Requests, s \in Sandboxes : Save(r, s)
         \/ \E c \in Requests : Drop(c) \/ Other(c)
  PROVE  ContractInv'
<1>1. ContractTypeOK'
  BY DEF End, Save, Drop, Other, Accept, ContractInv, ContractTypeOK,
         sandboxVars, workspaceVars, checkpointVars, Live
<1>2. Live' \subseteq Live /\ mount' = mount
  BY DEF End, Save, Drop, Other, Live, sandboxVars, ContractInv, ContractTypeOK
<1>3. <<offered, condemned, closed, volumes>>' = <<offered, condemned, closed, volumes>>
  BY DEF End, Save, Drop, Other, workspaceVars
<1> QED BY <1>1, <1>2, <1>3 DEF ContractInv, Attached

(* Every step of the contract keeps the invariant.                         *)
LEMMA ContractStep == ContractInv /\ [ContractNext]_contract => ContractInv'
<1> SUFFICES ASSUME ContractInv, [ContractNext]_contract PROVE ContractInv'
  OBVIOUS
<1>1. CASE UNCHANGED contract
  BY <1>1 DEF contract, ContractInv, ContractTypeOK, Attached, Live
<1>2. CASE ContractNext
  BY <1>2, AdmitKeeps, DeletionKeeps, ProvisionKeeps, OthersKeep DEF ContractNext
<1> QED BY <1>1, <1>2

(* Whatever the number of sandboxes, workspaces and requests: at most one  *)
(* live sandbox uses a workspace, and the volume under it exists, is not   *)
(* condemned and is not reported gone (admitSandboxCreate, DeleteWorkspace *)
(* and reconcileWorkspace keep this between them).                         *)
THEOREM AttachmentIsExclusive == ContractSpec => []Attached
<1>1. ContractInv => Attached
  BY DEF ContractInv
<1> QED
  BY <1>1, ContractInitial, ContractStep, PTL DEF ContractSpec
=============================================================================
