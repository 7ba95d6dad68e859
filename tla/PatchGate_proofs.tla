--------------------------- MODULE PatchGate_proofs ---------------------------
(***************************************************************************)
(* Proofs about PatchGate for any number of calls, any branches, settings, *)
(* clock and number of outside checkouts.                                  *)
(***************************************************************************)
EXTENDS PatchGate, TLAPS

\* The disjuncts of a call's steps, to split on.
LEMMA CallCases ==
  ASSUME NEW c \in Calls, CallNext(c)
  PROVE  \/ admit(c) \/ get_git_repo_root(c) \/ current_branch_name(c)
         \/ is_protected_branch(c) \/ checkout_new_branch(c) \/ prepare_apply_patch(c)
         \/ preapproved_shortcut(c) \/ attempt_returns(c) \/ sandbox_denied(c)
         \/ apply_hunk(c) \/ cancel(c)
         \/ \E approved \in BOOLEAN : request_patch_approval(c, approved)
BY DEF CallNext, CallStep

\* A call that may write has a ground for it.
Grounded ==
  \A c \in Calls : pc[c] \in {"attempt", "retry_approval", "retry"} => consent[c] # "none"

TypeInv == TypeOK /\ Grounded

LEMMA TypeInit == Init => TypeInv
<1> SUFFICES ASSUME Init PROVE TypeInv
  OBVIOUS
<1> USE DEF Init
<1>1. TypeOK
  <2>1. inside \in [Calls -> BOOLEAN] /\ preapproved \in [Calls -> BOOLEAN]
    BY PatchAssumption
  <2>2. head \in Branches \cup {Detached} /\ branches \subseteq Branches
    BY BranchAssumption DEF Branches
  <2>3. clock \in 0..MaxClock /\ checkouts \in 0..MaxCheckouts
    BY BoundAssumption
  <2> QED
    BY <2>1, <2>2, <2>3 DEF TypeOK
<1>2. Grounded
  BY DEF Grounded
<1> QED
  BY <1>1, <1>2 DEF TypeInv

\* What a step of one call leaves alone.
LEMMA CallFrames ==
  ASSUME NEW c \in Calls, CallNext(c)
  PROVE  UNCHANGED <<setting, repo, inside, preapproved, clock, checkouts>>
BY CallCases DEF admit, get_git_repo_root, current_branch_name, is_protected_branch,
   checkout_new_branch, prepare_apply_patch, preapproved_shortcut, attempt_returns,
   sandbox_denied, apply_hunk, cancel, request_patch_approval, turnVars

\* The branch the gate creates at any second is a gloscope branch.
LEMMA NewBranchIsFix == TypeOK => new_branch \in FixNames
BY DEF TypeOK, new_branch, unix_timestamp, FixNames

\* The control state and the ground move together.
LEMMA ControlTypes ==
  ASSUME TypeInv, NEW c \in Calls, CallNext(c)
  PROVE  /\ pc' \in [Calls -> Active \cup Terminal \cup {"queued"}]
         /\ consent' \in [Calls -> {"none", "auto", "preapproved", "user"}]
         /\ Grounded'
<1> USE DEF TypeInv, TypeOK, Grounded, Goto, Active, Terminal, PastGate
<1>1. CASE admit(c)
  BY <1>1 DEF admit
<1>2. CASE get_git_repo_root(c)
  BY <1>2 DEF get_git_repo_root
<1>3. CASE current_branch_name(c)
  BY <1>3 DEF current_branch_name
<1>4. CASE is_protected_branch(c)
  BY <1>4 DEF is_protected_branch
<1>5. CASE checkout_new_branch(c)
  BY <1>5 DEF checkout_new_branch
<1>6. CASE prepare_apply_patch(c)
  BY <1>6 DEF prepare_apply_patch
<1>7. CASE preapproved_shortcut(c)
  BY <1>7 DEF preapproved_shortcut
<1>8. CASE attempt_returns(c)
  BY <1>8 DEF attempt_returns
<1>9. CASE sandbox_denied(c)
  BY <1>9 DEF sandbox_denied
<1>10. CASE apply_hunk(c)
  BY <1>10 DEF apply_hunk
<1>11. CASE cancel(c)
  BY <1>11 DEF cancel
<1>12. ASSUME NEW approved \in BOOLEAN, request_patch_approval(c, approved)
       PROVE  /\ pc' \in [Calls -> Active \cup Terminal \cup {"queued"}]
              /\ consent' \in [Calls -> {"none", "auto", "preapproved", "user"}]
              /\ Grounded'
  BY <1>12 DEF request_patch_approval
<1> QED
  BY CallCases, <1>1, <1>2, <1>3, <1>4, <1>5, <1>6, <1>7, <1>8, <1>9, <1>10, <1>11, <1>12

\* The repository and the history.
LEMMA RepoTypes ==
  ASSUME TypeInv, NEW c \in Calls, CallNext(c)
  PROVE  /\ head' \in Branches \cup {Detached}
         /\ branches' \subseteq Branches
         /\ seen' \in [Calls -> Branches \cup {Detached}]
         /\ created' \in [Calls -> FixNames \cup {Detached}]
         /\ stale' \subseteq Calls /\ blind' \subseteq Calls
<1> USE DEF TypeInv, TypeOK
<1>1. CASE current_branch_name(c)
  BY <1>1 DEF current_branch_name, turnVars
<1>2. CASE is_protected_branch(c)
  BY <1>2 DEF is_protected_branch, turnVars
<1>3. CASE checkout_new_branch(c)
  BY <1>3, NewBranchIsFix DEF checkout_new_branch, turnVars, Branches
<1>4. CASE ~current_branch_name(c) /\ ~is_protected_branch(c) /\ ~checkout_new_branch(c)
  <2>1. UNCHANGED <<head, branches, seen, created, stale, blind>>
    BY <1>4, CallCases DEF admit, get_git_repo_root, prepare_apply_patch,
       preapproved_shortcut, attempt_returns, sandbox_denied, apply_hunk, cancel,
       request_patch_approval
  <2> QED
    BY <2>1
<1> QED
  BY <1>1, <1>2, <1>3, <1>4

\* Only apply_hunk writes.
LEMMA WriteStep ==
  ASSUME NEW c \in Calls, CallNext(c)
  PROVE  \/ apply_hunk(c)
         \/ writes' = writes
BY CallCases DEF admit, get_git_repo_root, current_branch_name, is_protected_branch,
   checkout_new_branch, prepare_apply_patch, preapproved_shortcut, attempt_returns,
   sandbox_denied, cancel, request_patch_approval

LEMMA WriteTypes ==
  ASSUME TypeInv, NEW c \in Calls, CallNext(c)
  PROVE  writes' \subseteq WriteRecords
<1> USE DEF TypeInv, TypeOK
<1>1. CASE apply_hunk(c)
  <2>1. Boxed(c) \in BOOLEAN
    BY DEF Boxed
  <2>2. consent[c] \in {"auto", "preapproved", "user"}
    BY <1>1 DEF apply_hunk, Grounded
  <2>3. [call |-> c, on |-> head, boxed |-> Boxed(c), consent |-> consent[c]] \in WriteRecords
    BY <2>1, <2>2 DEF WriteRecords
  <2> QED
    BY <1>1, <2>3 DEF apply_hunk
<1>2. CASE writes' = writes
  BY <1>2
<1> QED
  BY <1>1, <1>2, WriteStep

LEMMA TypeStep == TypeInv /\ [Next]_vars => TypeInv'
<1> SUFFICES ASSUME TypeInv, [Next]_vars PROVE TypeInv'
  OBVIOUS
<1>1. ASSUME NEW c \in Calls, CallNext(c) PROVE TypeInv'
  BY <1>1, CallFrames, ControlTypes, RepoTypes, WriteTypes DEF TypeInv, TypeOK
<1>2. ASSUME NEW b \in Branches, outside_checkout(b) PROVE TypeInv'
  <2>1. checkouts' \in 0..MaxCheckouts
    BY <1>2, BoundAssumption DEF outside_checkout, TypeInv, TypeOK
  <2>2. stale' \subseteq Calls /\ head' \in Branches
    BY <1>2 DEF outside_checkout, TypeInv, TypeOK
  <2> QED
    BY <1>2, <2>1, <2>2 DEF outside_checkout, TypeInv, TypeOK, Grounded, turnVars
<1>3. CASE tick
  <2>1. clock' \in 0..MaxClock
    BY <1>3, BoundAssumption DEF tick, TypeInv, TypeOK
  <2> QED
    BY <1>3, <2>1 DEF tick, TypeInv, TypeOK, Grounded, turnVars
<1>4. CASE UNCHANGED vars
  BY <1>4 DEF vars, turnVars, TypeInv, TypeOK, Grounded
<1> QED
  BY <1>1, <1>2, <1>3, <1>4 DEF Next

(***************************************************************************)
(* Type correctness: in particular every file written has a recorded       *)
(* ground (auto approval inside the sandbox policy, an earlier grant or    *)
(* the user), whatever the settings.                                       *)
(***************************************************************************)
THEOREM TypeCorrect == Spec => []TypeOK
<1>1. TypeInv => TypeOK
  BY DEF TypeInv
<1> QED
  BY TypeInit, TypeStep, <1>1, PTL DEF Spec
-----------------------------------------------------------------------------
(* The branch gate.                                                        *)

\* Where the gate has not passed a call, the call has written nothing.
NothingEarly ==
  \A w \in writes : pc[w.call] \notin {"queued", "gate", "default", "checkout"}

\* A call the gate let through on a right answer, with nobody else
\* switching branches since, finds an unprotected branch checked out.
PassedIsSafe ==
  \A c \in Calls : pc[c] \in PastGate /\ c \notin stale \cup blind => ~Protected(head)

\* Between the two queries of the gate the first answer is still right, or
\* a sibling has moved the repository to its own new branch.
SeenIsRight ==
  \A c \in Calls : pc[c] = "default" /\ c \notin stale =>
                     head = seen[c] \/ ~Protected(head)

GateInv == TypeInv /\ NothingEarly /\ PassedIsSafe /\ SeenIsRight /\ ProtectedWriteHasCause

\* A branch the gate creates is not one it protects.
LEMMA FixIsSafe == ASSUME NEW b \in FixNames PROVE ~Protected(b)
<1>1. PICK t \in 0..MaxClock : b = <<"gloscope", t>>
  BY DEF FixNames
<1>2. b # Main /\ b # Master
  BY <1>1 DEF Main, Master
<1>3. b # Default
  BY BranchAssumption
<1> QED
  BY <1>2, <1>3 DEF Protected

LEMMA DetachedIsSafe == ~Protected(Detached)
BY BranchAssumption DEF Protected, Detached, Main, Master

LEMMA GateInit == Init => GateInv
BY TypeInit DEF Init, GateInv, NothingEarly, PassedIsSafe, SeenIsRight,
   ProtectedWriteHasCause, PastGate

\* The steps that touch neither the repository nor the gate's knowledge.
LEMMA PlainSteps ==
  ASSUME GateInv, NEW c \in Calls, CallNext(c),
         ~current_branch_name(c), ~is_protected_branch(c), ~checkout_new_branch(c)
  PROVE  /\ UNCHANGED <<head, seen, stale, blind>>
         /\ \A d \in Calls : pc'[d] \in PastGate => pc[d] \in PastGate
         /\ \A d \in Calls : pc'[d] = "default" => pc[d] = "default"
         /\ \A d \in Calls : pc'[d] \in {"queued", "gate", "default", "checkout"}
                             => pc[d] \in {"queued", "gate", "default", "checkout"}
<1> USE DEF GateInv, TypeInv, TypeOK, Goto, PastGate
<1>1. CASE admit(c)
  BY <1>1 DEF admit
<1>2. CASE get_git_repo_root(c)
  BY <1>2 DEF get_git_repo_root
<1>3. CASE prepare_apply_patch(c)
  BY <1>3 DEF prepare_apply_patch
<1>4. CASE preapproved_shortcut(c)
  BY <1>4 DEF preapproved_shortcut
<1>5. CASE attempt_returns(c)
  BY <1>5 DEF attempt_returns
<1>6. CASE sandbox_denied(c)
  BY <1>6 DEF sandbox_denied
<1>7. CASE apply_hunk(c)
  BY <1>7 DEF apply_hunk
<1>8. CASE cancel(c)
  BY <1>8 DEF cancel
<1>9. ASSUME NEW approved \in BOOLEAN, request_patch_approval(c, approved)
      PROVE  /\ UNCHANGED <<head, seen, stale, blind>>
             /\ \A d \in Calls : pc'[d] \in PastGate => pc[d] \in PastGate
             /\ \A d \in Calls : pc'[d] = "default" => pc[d] = "default"
             /\ \A d \in Calls : pc'[d] \in {"queued", "gate", "default", "checkout"}
                                 => pc[d] \in {"queued", "gate", "default", "checkout"}
  BY <1>9 DEF request_patch_approval
<1> QED
  BY CallCases, <1>1, <1>2, <1>3, <1>4, <1>5, <1>6, <1>7, <1>8, <1>9

LEMMA PlainGate ==
  ASSUME GateInv, NEW c \in Calls, CallNext(c),
         ~current_branch_name(c), ~is_protected_branch(c), ~checkout_new_branch(c)
  PROVE  (NothingEarly /\ PassedIsSafe /\ SeenIsRight /\ ProtectedWriteHasCause)'
<1>1. PassedIsSafe' /\ SeenIsRight'
  BY PlainSteps DEF GateInv, PassedIsSafe, SeenIsRight, Protected
<1>2. CASE writes' = writes
  <2>1. \A w \in writes : w.call \in Calls
    BY DEF GateInv, TypeInv, TypeOK, WriteRecords
  <2> QED
    BY <1>1, <1>2, <2>1, PlainSteps
       DEF GateInv, NothingEarly, ProtectedWriteHasCause, Protected
<1>3. CASE apply_hunk(c)
  <2> DEFINE w == [call |-> c, on |-> head, boxed |-> Boxed(c), consent |-> consent[c]]
  <2>1. writes' = writes \cup {w} /\ pc' = pc /\ pc[c] \in {"attempt", "retry"}
        /\ UNCHANGED <<stale, blind>>
    BY <1>3 DEF apply_hunk
  <2>2. w.call = c /\ w.on = head
    OBVIOUS
  <2>3. Protected(w.on) => w.call \in stale \cup blind
    BY <2>1, <2>2 DEF GateInv, PassedIsSafe, PastGate
  <2>4. NothingEarly'
    BY <2>1, <2>2 DEF GateInv, NothingEarly
  <2>5. ProtectedWriteHasCause'
    BY <2>1, <2>3 DEF GateInv, ProtectedWriteHasCause, Protected
  <2> QED
    BY <1>1, <2>4, <2>5
<1> QED
  BY <1>2, <1>3, WriteStep

LEMMA ReadGate ==
  ASSUME GateInv, NEW c \in Calls, current_branch_name(c)
  PROVE  (NothingEarly /\ PassedIsSafe /\ SeenIsRight /\ ProtectedWriteHasCause)'
<1> USE DEF GateInv, TypeInv, TypeOK, Goto, PastGate
<1>1. UNCHANGED <<head, writes, stale>> /\ blind \subseteq blind'
  BY DEF current_branch_name
<1>2. NothingEarly'
  <2>1. \A w \in writes : w.call # c /\ w.call \in Calls
    BY DEF NothingEarly, current_branch_name, WriteRecords
  <2> QED
    BY <1>1, <2>1 DEF NothingEarly, current_branch_name
<1>3. PassedIsSafe'
  BY <1>1, DetachedIsSafe DEF PassedIsSafe, current_branch_name, Protected
<1>4. SeenIsRight'
  BY <1>1 DEF SeenIsRight, current_branch_name, Protected
<1>5. ProtectedWriteHasCause'
  BY <1>1 DEF ProtectedWriteHasCause, Protected
<1> QED
  BY <1>2, <1>3, <1>4, <1>5

LEMMA CompareGate ==
  ASSUME GateInv, NEW c \in Calls, is_protected_branch(c)
  PROVE  (NothingEarly /\ PassedIsSafe /\ SeenIsRight /\ ProtectedWriteHasCause)'
<1> USE DEF GateInv, TypeInv, TypeOK, Goto, PastGate
<1>1. UNCHANGED <<head, seen, writes, stale>> /\ blind \subseteq blind'
  BY DEF is_protected_branch
<1>2. NothingEarly'
  <2>1. \A w \in writes : w.call # c /\ w.call \in Calls
    BY DEF NothingEarly, is_protected_branch, WriteRecords
  <2> QED
    BY <1>1, <2>1 DEF NothingEarly, is_protected_branch
<1>3. PassedIsSafe'
  <2>1. pc'[c] = "gated" /\ c \notin stale' \cup blind' => ~Protected(head)
    BY <1>1 DEF is_protected_branch, is_default_branch, SeenIsRight
  <2>2. \A d \in Calls : d # c => pc'[d] = pc[d]
    BY DEF is_protected_branch
  <2>3. pc'[c] \in {"gated", "checkout"}
    BY DEF is_protected_branch
  <2> QED
    BY <1>1, <2>1, <2>2, <2>3 DEF PassedIsSafe, Protected
<1>4. SeenIsRight'
  BY <1>1 DEF SeenIsRight, is_protected_branch, Protected
<1>5. ProtectedWriteHasCause'
  BY <1>1 DEF ProtectedWriteHasCause, Protected
<1> QED
  BY <1>2, <1>3, <1>4, <1>5

LEMMA CheckoutGate ==
  ASSUME GateInv, NEW c \in Calls, checkout_new_branch(c)
  PROVE  (NothingEarly /\ PassedIsSafe /\ SeenIsRight /\ ProtectedWriteHasCause)'
<1> USE DEF GateInv, TypeInv, TypeOK, Goto, PastGate
<1>1. \A w \in writes : w.call # c /\ w.call \in Calls
  BY DEF NothingEarly, checkout_new_branch, WriteRecords
<1>2. NothingEarly'
  BY <1>1 DEF NothingEarly, checkout_new_branch
<1>3. ProtectedWriteHasCause'
  BY <1>1 DEF ProtectedWriteHasCause, checkout_new_branch, Protected
<1>4. CASE head' = new_branch
  <2>1. ~Protected(head')
    BY <1>4, NewBranchIsFix, FixIsSafe
  <2> QED
    BY <1>2, <1>3, <2>1 DEF PassedIsSafe, SeenIsRight, Protected
<1>5. CASE UNCHANGED <<branches, head, created, stale>> /\ pc' = [pc EXCEPT ![c] = "refused"]
  BY <1>2, <1>3, <1>5 DEF PassedIsSafe, SeenIsRight, Protected, checkout_new_branch
<1> QED
  BY <1>4, <1>5 DEF checkout_new_branch

LEMMA GateStep == GateInv /\ [Next]_vars => GateInv'
<1> SUFFICES ASSUME GateInv, [Next]_vars PROVE GateInv'
  OBVIOUS
<1>1. TypeInv'
  BY TypeStep DEF GateInv
<1>2. ASSUME NEW c \in Calls, CallNext(c) PROVE GateInv'
  BY <1>1, <1>2, PlainGate, ReadGate, CompareGate, CheckoutGate DEF GateInv
<1>3. ASSUME NEW b \in Branches, outside_checkout(b) PROVE GateInv'
  <2>1. UNCHANGED <<pc, seen, writes, blind>> /\ stale \subseteq stale'
    BY <1>3 DEF outside_checkout
  <2>2. \A c \in Calls : pc[c] \in PastGate \cup {"default"} => c \in stale'
    BY <1>3 DEF outside_checkout, Active, PastGate
  <2>3. NothingEarly' /\ ProtectedWriteHasCause'
    BY <2>1 DEF GateInv, NothingEarly, ProtectedWriteHasCause, Protected
  <2>4. PassedIsSafe' /\ SeenIsRight'
    BY <2>1, <2>2 DEF PassedIsSafe, SeenIsRight
  <2> QED
    BY <1>1, <2>3, <2>4 DEF GateInv
<1>4. CASE tick \/ UNCHANGED vars
  BY <1>1, <1>4 DEF tick, vars, GateInv, NothingEarly, PassedIsSafe, SeenIsRight,
     ProtectedWriteHasCause, Protected
<1> QED
  BY <1>2, <1>3, <1>4 DEF Next

(***************************************************************************)
(* The gate's promise, for any number of serial and parallel calls: if a   *)
(* patch reaches a protected branch then somebody else switched branches   *)
(* behind the gate's back or git misinformed it.  Nothing the calls do to  *)
(* each other is a third cause.                                            *)
(***************************************************************************)
THEOREM GateHolds == Spec => []ProtectedWriteHasCause
<1>1. GateInv => ProtectedWriteHasCause
  BY DEF GateInv
<1> QED
  BY GateInit, GateStep, <1>1, PTL DEF Spec
-----------------------------------------------------------------------------
(* Consent and the sandbox.                                                *)

\* What the position of a call says about the ground it stands on.
GroundOf(c) ==
  /\ setting.managed =>
       /\ pc[c] = "approval" => ~rejects_sandbox_approval
       /\ pc[c] = "attempt" /\ consent[c] = "auto" => inside[c] /\ setting.platform
       /\ pc[c] = "attempt" /\ consent[c] # "auto" => ~rejects_sandbox_approval
  /\ pc[c] \in {"retry_approval", "retry"} =>
       wants_no_sandbox_approval /\ unsandboxed_execution_allowed
  /\ pc[c] = "retry" => consent[c] \in {"preapproved", "user"}

Grounds == \A c \in Calls : GroundOf(c)

ConsentInv == TypeInv /\ Grounds /\ WritesAreConsented /\ DeniedReadsKeepSandbox

LEMMA ConsentInit == Init => ConsentInv
BY TypeInit DEF Init, ConsentInv, Grounds, GroundOf, WritesAreConsented, DeniedReadsKeepSandbox

LEMMA GroundStep ==
  ASSUME TypeInv, Grounds, NEW c \in Calls, CallNext(c), NEW d \in Calls
  PROVE  GroundOf(d)'
<1> USE DEF TypeInv, TypeOK, Goto
<1>0. GroundOf(d) /\ GroundOf(c) /\ UNCHANGED <<setting, inside>>
  BY CallFrames DEF Grounds
<1> USE DEF GroundOf, rejects_sandbox_approval, wants_no_sandbox_approval,
            unsandboxed_execution_allowed
<1>1. CASE d # c
  <2>1. pc'[d] = pc[d] /\ consent'[d] = consent[d]
    BY <1>1, CallCases DEF admit, get_git_repo_root, current_branch_name,
       is_protected_branch, checkout_new_branch, prepare_apply_patch, preapproved_shortcut,
       attempt_returns, sandbox_denied, apply_hunk, cancel, request_patch_approval
  <2> QED
    BY <1>0, <2>1
<1>2. CASE d = c
  <2>1. CASE prepare_apply_patch(c)
    BY <1>0, <1>2, <2>1 DEF prepare_apply_patch, assess_patch_safety
  <2>2. CASE preapproved_shortcut(c)
    BY <1>0, <1>2, <2>2 DEF preapproved_shortcut
  <2>3. ASSUME NEW approved \in BOOLEAN, request_patch_approval(c, approved)
        PROVE  GroundOf(d)'
    BY <1>0, <1>2, <2>3 DEF request_patch_approval
  <2>4. CASE sandbox_denied(c)
    BY <1>0, <1>2, <2>4 DEF sandbox_denied, should_bypass_approval
  <2>5. CASE apply_hunk(c)
    BY <1>0, <1>2, <2>5 DEF apply_hunk
  <2>6. CASE \/ admit(c) \/ get_git_repo_root(c) \/ current_branch_name(c)
             \/ is_protected_branch(c) \/ checkout_new_branch(c)
             \/ attempt_returns(c) \/ cancel(c)
    <3>1. pc'[c] \notin {"approval", "attempt", "retry_approval", "retry"}
      BY <2>6 DEF admit, get_git_repo_root, current_branch_name, is_protected_branch,
         checkout_new_branch, attempt_returns, cancel
    <3> QED
      BY <1>2, <3>1
  <2> QED
    BY <2>1, <2>2, <2>3, <2>4, <2>5, <2>6, CallCases
<1> QED
  BY <1>1, <1>2

\* A new write: what its circumstances say about its ground.
LEMMA WriteGround ==
  ASSUME TypeInv, Grounds, NEW c \in Calls, apply_hunk(c)
  PROVE  /\ setting.managed =>
              /\ should_sandbox /\ ~Boxed(c) => consent[c] \in {"preapproved", "user"}
              /\ should_sandbox /\ rejects_sandbox_approval => Boxed(c)
              /\ rejects_sandbox_approval => inside[c]
         /\ initial_sandbox /\ setting.deniedReads => Boxed(c)
<1>1. GroundOf(c) /\ pc[c] \in {"attempt", "retry"}
  BY DEF Grounds, apply_hunk
<1>2. consent[c] \in {"auto", "preapproved", "user"}
  BY <1>1 DEF TypeInv, TypeOK, Grounded
<1> QED
  BY <1>1, <1>2 DEF GroundOf, Boxed, initial_sandbox, rejects_sandbox_approval,
     wants_no_sandbox_approval, unsandboxed_execution_allowed

LEMMA ConsentStep == ConsentInv /\ [Next]_vars => ConsentInv'
<1> SUFFICES ASSUME ConsentInv, [Next]_vars PROVE ConsentInv'
  OBVIOUS
<1>1. TypeInv'
  BY TypeStep DEF ConsentInv
<1>2. ASSUME NEW c \in Calls, CallNext(c) PROVE ConsentInv'
  <2>1. UNCHANGED <<setting, inside>>
    BY <1>2, CallFrames
  <2>2. Grounds'
    BY <1>2, <2>1, GroundStep DEF ConsentInv, Grounds
  <2>3. CASE writes' = writes
    BY <1>1, <2>1, <2>2, <2>3 DEF ConsentInv, WritesAreConsented, DeniedReadsKeepSandbox,
       rejects_sandbox_approval, initial_sandbox, should_sandbox
  <2>4. CASE apply_hunk(c)
    <3> DEFINE w == [call |-> c, on |-> head, boxed |-> Boxed(c), consent |-> consent[c]]
    <3>1. writes' = writes \cup {w}
      BY <2>4 DEF apply_hunk
    <3>2. w.call = c /\ w.boxed = Boxed(c) /\ w.consent = consent[c]
      OBVIOUS
    <3>3. setting.managed =>
            /\ should_sandbox /\ ~w.boxed => w.consent \in {"preapproved", "user"}
            /\ should_sandbox /\ rejects_sandbox_approval => w.boxed
            /\ rejects_sandbox_approval => inside[w.call]
      BY <2>4, <3>2, WriteGround DEF ConsentInv
    <3>4. initial_sandbox /\ setting.deniedReads => w.boxed
      BY <2>4, <3>2, WriteGround DEF ConsentInv, initial_sandbox
    <3> HIDE DEF w
    <3>5. WritesAreConsented'
      BY <2>1, <3>1, <3>3 DEF ConsentInv, WritesAreConsented, rejects_sandbox_approval,
         should_sandbox
    <3>6. DeniedReadsKeepSandbox'
      BY <2>1, <3>1, <3>4 DEF ConsentInv, DeniedReadsKeepSandbox, initial_sandbox, should_sandbox
    <3> QED
      BY <1>1, <2>2, <3>5, <3>6 DEF ConsentInv
  <2> QED
    BY <1>2, <2>3, <2>4, WriteStep
<1>3. CASE (\E b \in Branches : outside_checkout(b)) \/ tick \/ UNCHANGED vars
  <2>1. UNCHANGED <<setting, inside, pc, consent, writes>>
    BY <1>3 DEF outside_checkout, tick, vars, turnVars
  <2> QED
    BY <1>1, <2>1 DEF ConsentInv, Grounds, GroundOf, WritesAreConsented,
       DeniedReadsKeepSandbox, rejects_sandbox_approval, wants_no_sandbox_approval,
       unsandboxed_execution_allowed, initial_sandbox, should_sandbox
<1> QED
  BY <1>2, <1>3 DEF Next

(***************************************************************************)
(* Consent: under a managed profile that confines the disk or the network, *)
(* nothing is written outside the sandbox unless the user accepted the     *)
(* patch or had granted its permissions; with approvals off nothing leaves *)
(* the sandbox, nor the writable roots of any managed profile.             *)
(***************************************************************************)
THEOREM Consented == Spec => []WritesAreConsented
<1>1. ConsentInv => WritesAreConsented
  BY DEF ConsentInv
<1> QED
  BY ConsentInit, ConsentStep, <1>1, PTL DEF Spec

(***************************************************************************)
(* Denied reads: a turn whose policy denies reads never writes outside the *)
(* sandbox when the host has one, whatever was approved or granted.        *)
(***************************************************************************)
THEOREM DeniedReadsHold == Spec => []DeniedReadsKeepSandbox
<1>1. ConsentInv => DeniedReadsKeepSandbox
  BY DEF ConsentInv
<1> QED
  BY ConsentInit, ConsentStep, <1>1, PTL DEF Spec
-----------------------------------------------------------------------------
(* One branch per call.                                                    *)

\* A branch the gate created exists, so it is not created again.
CreatedExists == \A c \in Calls : created[c] # Detached => created[c] \in branches

BranchInv == TypeInv /\ CreatedExists /\ BranchPerCall

LEMMA BranchStep == BranchInv /\ [Next]_vars => BranchInv'
<1> SUFFICES ASSUME BranchInv, [Next]_vars PROVE BranchInv'
  OBVIOUS
<1>1. TypeInv'
  BY TypeStep DEF BranchInv
<1>2. ASSUME NEW c \in Calls, checkout_new_branch(c) PROVE CreatedExists' /\ BranchPerCall'
  <2>1. new_branch # Detached
    BY NewBranchIsFix DEF BranchInv, TypeInv, FixNames, Detached
  <2>2. CASE UNCHANGED <<branches, created>>
    BY <2>2 DEF BranchInv, CreatedExists, BranchPerCall
  <2>3. CASE /\ new_branch \notin branches
             /\ branches' = branches \cup {new_branch}
             /\ created' = [created EXCEPT ![c] = new_branch]
    BY <2>1, <2>3 DEF BranchInv, CreatedExists, BranchPerCall, TypeInv, TypeOK
  <2> QED
    BY <1>2, <2>2, <2>3 DEF checkout_new_branch, branch_creatable
<1>3. CASE UNCHANGED <<branches, created>>
  BY <1>1, <1>3 DEF BranchInv, CreatedExists, BranchPerCall
<1>4. ASSUME NEW c \in Calls, CallNext(c), ~checkout_new_branch(c)
      PROVE  UNCHANGED <<branches, created>>
  BY <1>4, CallCases DEF admit, get_git_repo_root, current_branch_name, is_protected_branch,
     prepare_apply_patch, preapproved_shortcut, attempt_returns, sandbox_denied, apply_hunk,
     cancel, request_patch_approval
<1>5. CASE (\E b \in Branches : outside_checkout(b)) \/ tick \/ UNCHANGED vars
  BY <1>3, <1>5 DEF outside_checkout, tick, vars
<1> QED
  BY <1>1, <1>2, <1>3, <1>4, <1>5 DEF Next, BranchInv

(***************************************************************************)
(* A branch made by the gate belongs to one call, however many calls reach *)
(* the gate in the same second.                                            *)
(***************************************************************************)
THEOREM BranchesAreDistinct == Spec => []BranchPerCall
<1>1. Init => BranchInv
  BY TypeInit DEF Init, BranchInv, CreatedExists, BranchPerCall
<1>2. BranchInv => BranchPerCall
  BY DEF BranchInv
<1> QED
  BY <1>1, BranchStep, <1>2, PTL DEF Spec
-----------------------------------------------------------------------------
(* One patch, one branch.                                                  *)

BeforeGate == {"queued", "gate", "default", "checkout"}

\* The lock: a serial call under way is the only one under way.
Alone ==
  \A c, d \in Calls : c \notin Parallel /\ pc[c] \in Active /\ pc[d] \in Active => c = d

\* Only a call the gate has passed has a branch of its own.
CreatedLate == \A c \in Calls : pc[c] \in BeforeGate => created[c] = Detached

\* While a serial call is past the gate and nobody outside has switched
\* branches, what it has written and what the gate created for it is still
\* checked out.
StaysPut ==
  \A c \in Calls :
    pc[c] \in PastGate /\ c \notin Parallel \cup stale =>
      /\ created[c] # Detached => head = created[c]
      /\ \A w \in writes : w.call = c => w.on = head

PlaceInv == GateInv /\ Alone /\ CreatedLate /\ StaysPut /\ OnePatchOneBranch

LEMMA PlaceInit == Init => PlaceInv
BY GateInit DEF Init, PlaceInv, Alone, CreatedLate, StaysPut, OnePatchOneBranch, Active, PastGate

\* What a step of call c does to the control state.
LEMMA CallMoves ==
  ASSUME TypeInv, NEW c \in Calls, CallNext(c)
  PROVE  /\ \A d \in Calls : d # c => pc'[d] = pc[d]
         /\ pc'[c] \in Active => pc[c] \in Active \/ admit(c)
         /\ pc'[c] \in BeforeGate => pc[c] \in BeforeGate
<1> USE DEF TypeInv, TypeOK, Goto
<1>1. \A d \in Calls : d # c => pc'[d] = pc[d]
  BY CallCases DEF admit, get_git_repo_root, current_branch_name,
     is_protected_branch, checkout_new_branch, prepare_apply_patch, preapproved_shortcut,
     attempt_returns, sandbox_denied, apply_hunk, cancel, request_patch_approval
<1>2. ~admit(c) => pc[c] \in Active \/ pc'[c] \notin Active
  BY CallCases DEF get_git_repo_root, current_branch_name,
     is_protected_branch, checkout_new_branch, prepare_apply_patch, preapproved_shortcut,
     attempt_returns, sandbox_denied, apply_hunk, cancel, request_patch_approval,
     Active, PastGate
<1>3. pc'[c] \in BeforeGate => pc[c] \in BeforeGate
  BY CallCases DEF admit, get_git_repo_root, current_branch_name,
     is_protected_branch, checkout_new_branch, prepare_apply_patch, preapproved_shortcut,
     attempt_returns, sandbox_denied, apply_hunk, cancel, request_patch_approval,
     BeforeGate
<1> QED
  BY <1>1, <1>2, <1>3

LEMMA AloneStep ==
  ASSUME TypeInv, Alone, NEW c \in Calls, CallNext(c)
  PROVE  Alone'
<1>1. CASE ~admit(c)
  BY <1>1, CallMoves DEF Alone
<1>2. CASE admit(c)
  <2>1. \A d \in Calls : d # c => pc'[d] = pc[d]
    BY CallMoves
  <2>2. IF c \in Parallel THEN \A d \in Calls : pc[d] \in Active => d \in Parallel
                          ELSE \A d \in Calls : pc[d] \notin Active
    BY <1>2 DEF admit, lock_free, Running
  <2> QED
    BY <2>1, <2>2 DEF Alone
<1> QED
  BY <1>1, <1>2

\* The branch the gate makes for a call is new to everything but the call.
LEMMA PlaceCheckout ==
  ASSUME PlaceInv, NEW c \in Calls, checkout_new_branch(c)
  PROVE  CreatedLate' /\ StaysPut' /\ OnePatchOneBranch'
<1> USE DEF PlaceInv, GateInv, TypeInv, TypeOK
<1>1. pc[c] = "checkout" /\ writes' = writes
  BY DEF checkout_new_branch
<1>2. \A w \in writes : w.call # c /\ w.call \in Calls
  BY <1>1 DEF NothingEarly, WriteRecords
<1>3. \A d \in Calls : d # c => pc'[d] = pc[d] /\ created'[d] = created[d]
                                /\ (d \in stale' <=> d \in stale)
  BY DEF checkout_new_branch, Goto
<1>4. \A d \in Calls \ Parallel : pc[d] \in PastGate => d = c
  BY <1>1 DEF Alone, Active
<1>5. \/ pc'[c] = "gated" /\ head' = new_branch /\ created'[c] = new_branch
      \/ pc'[c] = "refused"
  BY DEF checkout_new_branch, Goto
<1>6. CreatedLate'
  BY <1>3, <1>5 DEF CreatedLate, BeforeGate
<1>7. StaysPut'
  <2>1. SUFFICES ASSUME NEW d \in Calls, pc'[d] \in PastGate, d \notin Parallel \cup stale'
                 PROVE  /\ created'[d] # Detached => head' = created'[d]
                        /\ \A w \in writes' : w.call = d => w.on = head'
    BY DEF StaysPut
  <2>2. d = c
    BY <1>3, <1>4, <2>1
  <2> QED
    BY <1>1, <1>2, <1>5, <2>1, <2>2 DEF PastGate
<1>8. OnePatchOneBranch'
  BY <1>1, <1>2, <1>3 DEF OnePatchOneBranch
<1> QED
  BY <1>6, <1>7, <1>8

LEMMA PlaceWrite ==
  ASSUME PlaceInv, NEW c \in Calls, apply_hunk(c)
  PROVE  CreatedLate' /\ StaysPut' /\ OnePatchOneBranch'
<1> DEFINE n == [call |-> c, on |-> head, boxed |-> Boxed(c), consent |-> consent[c]]
<1>1. writes' = writes \cup {n} /\ UNCHANGED <<head, created, pc, stale>> /\ pc[c] \in PastGate
  BY DEF apply_hunk, PastGate
<1>2. n.call = c /\ n.on = head
  OBVIOUS
<1> HIDE DEF n
<1>3. c \notin Parallel \cup stale =>
        /\ created[c] # Detached => head = created[c]
        /\ \A w \in writes : w.call = c => w.on = head
  BY <1>1 DEF PlaceInv, StaysPut
<1>4. CreatedLate'
  BY <1>1 DEF PlaceInv, CreatedLate
<1>5. StaysPut'
  BY <1>1, <1>2 DEF PlaceInv, StaysPut
<1>6. OnePatchOneBranch'
  BY <1>1, <1>2, <1>3 DEF PlaceInv, OnePatchOneBranch
<1> QED
  BY <1>4, <1>5, <1>6

\* The other steps of a call write nothing and create nothing; one that
\* passes the gate without a new branch has written nothing yet.
LEMMA PlaceOther ==
  ASSUME PlaceInv, NEW c \in Calls, CallNext(c), ~checkout_new_branch(c), ~apply_hunk(c)
  PROVE  CreatedLate' /\ StaysPut' /\ OnePatchOneBranch'
<1>1. UNCHANGED <<head, created, stale, writes>>
  BY CallCases DEF admit, get_git_repo_root, current_branch_name, is_protected_branch,
     prepare_apply_patch, preapproved_shortcut, attempt_returns, sandbox_denied,
     cancel, request_patch_approval
<1>2. TypeInv
  BY DEF PlaceInv, GateInv
<1>3. \A d \in Calls : pc'[d] \in BeforeGate => pc[d] \in BeforeGate
  BY <1>2, CallMoves
<1>4. \A d \in Calls : pc'[d] \in PastGate => pc[d] \in PastGate \/ pc[d] \in BeforeGate
  <2>1. PastGate \subseteq Active /\ Active \subseteq PastGate \cup BeforeGate
    BY DEF Active, BeforeGate
  <2>2. admit(c) => pc'[c] \notin PastGate
    BY <1>2 DEF admit, Goto, TypeInv, TypeOK, PastGate
  <2> QED
    BY <1>2, <2>1, <2>2, CallMoves
<1>5. \A d \in Calls : pc[d] \in BeforeGate =>
                         created[d] = Detached /\ \A w \in writes : w.call # d
  BY DEF PlaceInv, GateInv, CreatedLate, NothingEarly, BeforeGate
<1>6. CreatedLate'
  BY <1>1, <1>3 DEF PlaceInv, CreatedLate
<1>7. StaysPut'
  BY <1>1, <1>4, <1>5 DEF PlaceInv, StaysPut
<1>8. OnePatchOneBranch'
  BY <1>1 DEF PlaceInv, OnePatchOneBranch
<1> QED
  BY <1>6, <1>7, <1>8

LEMMA PlaceStep == PlaceInv /\ [Next]_vars => PlaceInv'
<1> SUFFICES ASSUME PlaceInv, [Next]_vars PROVE PlaceInv'
  OBVIOUS
<1>1. GateInv' /\ TypeInv
  BY GateStep DEF PlaceInv, GateInv
<1>2. ASSUME NEW c \in Calls, CallNext(c) PROVE PlaceInv'
  <2>1. Alone'
    BY <1>1, <1>2, AloneStep DEF PlaceInv
  <2> QED
    BY <1>1, <1>2, <2>1, PlaceCheckout, PlaceWrite, PlaceOther DEF PlaceInv
<1>3. ASSUME NEW b \in Branches, outside_checkout(b) PROVE PlaceInv'
  <2>1. UNCHANGED <<pc, created, writes>> /\ stale \subseteq stale'
        /\ \A c \in Calls : pc[c] \in PastGate => c \in stale'
    BY <1>3 DEF outside_checkout, Active, PastGate
  <2>2. Alone' /\ CreatedLate'
    BY <2>1 DEF PlaceInv, Alone, CreatedLate
  <2>3. StaysPut'
    BY <2>1 DEF StaysPut
  <2>4. OnePatchOneBranch'
    BY <2>1 DEF PlaceInv, OnePatchOneBranch
  <2> QED
    BY <1>1, <2>2, <2>3, <2>4 DEF PlaceInv
<1>4. CASE tick \/ UNCHANGED vars
  <2>1. UNCHANGED <<head, pc, created, writes, stale>>
    BY <1>4 DEF tick, vars
  <2> QED
    BY <1>1, <2>1 DEF PlaceInv, Alone, CreatedLate, StaysPut, OnePatchOneBranch
<1> QED
  BY <1>2, <1>3, <1>4 DEF Next

(***************************************************************************)
(* The files of an apply_patch call land on one branch, the call's own if  *)
(* the gate made one, however many calls run and however often the gate    *)
(* moves the repository: only a checkout from outside the turn, between    *)
(* the gate's first query and the last write, can spread them.             *)
(***************************************************************************)
THEOREM OneBranchPerPatch == Spec => []OnePatchOneBranch
<1>1. PlaceInv => OnePatchOneBranch
  BY DEF PlaceInv
<1> QED
  BY PlaceInit, PlaceStep, <1>1, PTL DEF Spec
=============================================================================
