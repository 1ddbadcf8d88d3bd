--------------------------- MODULE BiometricProofs --------------------------
(***************************************************************************)
(* Theorems about Biometric: an enrolled device has a secret, and data     *)
(* stays readable, for any number of overlapping calls and any secrets.    *)
(*                                                                         *)
(* The two properties rest on what a suspended call is about to do.  A     *)
(* call that waits to save holds a real secret, and as long as nothing     *)
(* went wrong it is the only one, on a device that has none; a call that   *)
(* waits to set the flag has seen or written a secret.                     *)
(***************************************************************************)
EXTENDS Biometric, TLAPS

\* The part of the type invariant that the proofs need.
Typed ==
    /\ root \in Secrets \cup {NoSecret}
    /\ flag \in BOOLEAN
    /\ drawn \subseteq Secrets
    /\ pc \in [Calls -> {"idle", "authenticate", "read", "save", "set_flag"}]
    /\ fresh \in [Calls -> Secrets \cup {NoSecret}]
    /\ protected \subseteq Secrets

\* A call about to save has a secret to save.
SaverHasSecret == \A t \in Calls : pc[t] = "save" => fresh[t] # NoSecret

\* A call about to set the flag finds a secret behind it.
FlaggerFindsSecret == \A t \in Calls : pc[t] = "set_flag" => root # NoSecret

\* While nothing went wrong, a call that saves is alone, on a device without secret.
SaverIsFirst ==
    faults = {} => \A t \in Calls : pc[t] = "save" =>
        /\ root = NoSecret
        /\ \A u \in Calls : pc[u] = "save" => u = t

IInv ==
    /\ Typed /\ SaverHasSecret /\ FlaggerFindsSecret /\ SaverIsFirst
    /\ EnrolledHasSecret /\ DataStaysReadable

-----------------------------------------------------------------------------

LEMMA InitEstablishes == Init => IInv
BY DEF Init, IInv, Typed, SaverHasSecret, FlaggerFindsSecret, SaverIsFirst,
       EnrolledHasSecret, DataStaysReadable

\* The steps of a call that touch neither the secret nor what is protected, and
\* bring no call to `save' or `set_flag'.
LEMMA QuietStepKeeps ==
    ASSUME IInv, NEW t \in Calls, NEW step \in {"idle", "authenticate", "read"},
           pc' = [pc EXCEPT ![t] = step],
           fresh' = fresh \/ fresh' = [fresh EXCEPT ![t] = NoSecret],
           flag' \in BOOLEAN, flag' => flag \/ pc[t] = "set_flag",
           UNCHANGED <<root, drawn, protected, faults>>
    PROVE  IInv'
<1>1. \A u \in Calls : pc'[u] = "save" => pc[u] = "save" /\ u # t /\ fresh'[u] = fresh[u]
  BY DEF IInv, Typed
<1>2. \A u \in Calls : pc'[u] = "set_flag" => pc[u] = "set_flag"
  BY DEF IInv, Typed
<1>3. Typed'
  BY DEF IInv, Typed
<1>4. SaverHasSecret' /\ FlaggerFindsSecret' /\ SaverIsFirst'
  BY <1>1, <1>2 DEF IInv, SaverHasSecret, FlaggerFindsSecret, SaverIsFirst
<1>5. EnrolledHasSecret' /\ DataStaysReadable'
  BY DEF IInv, EnrolledHasSecret, DataStaysReadable, FlaggerFindsSecret
<1>6. QED
  BY <1>3, <1>4, <1>5 DEF IInv

LEMMA ReadRootKeeps ==
    ASSUME IInv, NEW t \in Calls, ReadRoot(t)
    PROVE  IInv'
<1>1. CASE root # NoSecret /\ Goto(t, "set_flag") /\ UNCHANGED <<drawn, fresh, faults>>
  <2>1. UNCHANGED <<root, flag, protected>>
    BY DEF ReadRoot
  <2>2. \A u \in Calls : pc'[u] = "save" => pc[u] = "save"
    BY <1>1 DEF Goto, IInv, Typed
  <2>3. Typed'
    BY <1>1, <2>1 DEF Goto, IInv, Typed
  <2>4. QED
    BY <1>1, <2>1, <2>2, <2>3 DEF IInv, SaverHasSecret, FlaggerFindsSecret, SaverIsFirst,
                                 EnrolledHasSecret, DataStaysReadable
<1>2. ASSUME NEW s \in Secrets \ drawn,
             drawn' = drawn \cup {s}, fresh' = [fresh EXCEPT ![t] = s],
             faults' = faults
                \cup (IF root # NoSecret THEN {"read refused"} ELSE {})
                \cup (IF \E u \in Calls : pc[u] = "save" THEN {"two at once"} ELSE {}),
             Goto(t, "save")
      PROVE  IInv'
  <2>1. UNCHANGED <<root, flag, protected>>
    BY DEF ReadRoot
  <2>2. Typed'
    BY <1>2, <2>1 DEF Goto, IInv, Typed
  <2>3. SaverHasSecret'
    <3>1. s # NoSecret
      BY <1>2, SecretAssumption
    <3>2. QED
      BY <1>2, <3>1 DEF Goto, IInv, Typed, SaverHasSecret
  <2>4. FlaggerFindsSecret'
    BY <1>2, <2>1 DEF Goto, IInv, Typed, FlaggerFindsSecret
  <2>5. faults' = {} => faults = {} /\ root = NoSecret /\ ~\E u \in Calls : pc[u] = "save"
    BY <1>2
  <2>6. SaverIsFirst'
    BY <1>2, <2>1, <2>5 DEF Goto, IInv, Typed, SaverIsFirst
  <2>7. EnrolledHasSecret' /\ DataStaysReadable'
    BY <2>1, <2>5 DEF IInv, EnrolledHasSecret, DataStaysReadable
  <2>8. QED
    BY <2>2, <2>3, <2>4, <2>6, <2>7 DEF IInv
<1>3. QED
  BY <1>1, <1>2 DEF ReadRoot

LEMMA SaveKeeps ==
    ASSUME IInv, NEW t \in Calls, Save(t)
    PROVE  IInv'
<1>1. UNCHANGED <<flag, drawn, protected, faults>> /\ pc[t] = "save"
  BY DEF Save
<1>2. CASE root' = fresh[t] /\ Goto(t, "set_flag") /\ UNCHANGED fresh
  <2>1. root' # NoSecret
    BY <1>1, <1>2 DEF IInv, SaverHasSecret
  <2>2. \A u \in Calls : pc'[u] = "save" => pc[u] = "save" /\ u # t
    BY <1>2 DEF Goto, IInv, Typed
  <2>3. Typed'
    BY <1>1, <1>2 DEF Goto, IInv, Typed
  <2>4. SaverIsFirst'
    BY <1>1, <2>2 DEF IInv, SaverIsFirst
  <2>5. faults = {} => protected = {}
    BY <1>1, SecretAssumption DEF IInv, Typed, SaverIsFirst, DataStaysReadable
  <2>6. DataStaysReadable' /\ EnrolledHasSecret' /\ FlaggerFindsSecret'
    BY <1>1, <2>1, <2>5 DEF DataStaysReadable, EnrolledHasSecret, FlaggerFindsSecret
  <2>7. SaverHasSecret'
    BY <1>2, <2>2 DEF IInv, SaverHasSecret
  <2>8. QED
    BY <2>3, <2>4, <2>6, <2>7 DEF IInv
<1>3. CASE Return(t) /\ UNCHANGED root
  BY <1>1, <1>3, QuietStepKeeps DEF Return, Goto, IInv, Typed
<1>4. QED
  BY <1>2, <1>3 DEF Save

LEMMA StepKeeps == IInv /\ [Next]_vars => IInv'
<1> SUFFICES ASSUME IInv, [Next]_vars PROVE IInv'
  OBVIOUS
<1>1. ASSUME NEW t \in Calls, Enroll(t) PROVE IInv'
  BY <1>1, QuietStepKeeps DEF Enroll, Goto, IInv, Typed
<1>2. ASSUME NEW t \in Calls, Authenticate(t) PROVE IInv'
  <2>1. CASE Goto(t, "read") /\ UNCHANGED fresh
    BY <1>2, <2>1, QuietStepKeeps DEF Authenticate, Goto, IInv, Typed
  <2>2. CASE Return(t)
    BY <1>2, <2>2, QuietStepKeeps DEF Authenticate, Return, Goto, IInv, Typed
  <2>3. QED
    BY <1>2, <2>1, <2>2 DEF Authenticate
<1>3. ASSUME NEW t \in Calls, ReadRoot(t) PROVE IInv'
  BY <1>3, ReadRootKeeps
<1>4. ASSUME NEW t \in Calls, Save(t) PROVE IInv'
  BY <1>4, SaveKeeps
<1>5. ASSUME NEW t \in Calls, SetFlag(t) PROVE IInv'
  <2>1. /\ pc[t] = "set_flag" /\ flag' \in {flag, TRUE}
        /\ pc' = [pc EXCEPT ![t] = "idle"] /\ fresh' = [fresh EXCEPT ![t] = NoSecret]
        /\ UNCHANGED <<root, drawn, protected, faults>>
    BY <1>5 DEF SetFlag, Return, Goto
  <2>2. flag' \in BOOLEAN
    BY <2>1 DEF IInv, Typed
  <2>3. QED
    BY <2>1, <2>2, QuietStepKeeps
<1>6. CASE Unenroll
  <2>1. flag' \in BOOLEAN /\ (flag' => flag)
    <3>1. flag \in BOOLEAN
      BY DEF IInv, Typed
    <3>2. flag' = flag \/ flag' = FALSE
      BY <1>6 DEF Unenroll
    <3>3. CASE flag' = flag
      BY <3>1, <3>3
    <3>4. CASE flag' = FALSE
      BY <3>4
    <3>5. QED
      BY <3>2, <3>3, <3>4
  <2>2. UNCHANGED <<root, drawn, pc, fresh, protected, faults>>
    BY <1>6 DEF Unenroll, enrolling
  <2>3. QED
    BY <2>1, <2>2 DEF IInv, Typed, SaverHasSecret, FlaggerFindsSecret, SaverIsFirst,
                      EnrolledHasSecret, DataStaysReadable
<1>7. CASE DeriveKey
  <2>1. /\ root # NoSecret /\ protected' = protected \cup {root}
        /\ UNCHANGED <<root, flag, drawn, pc, fresh, faults>>
    BY <1>7 DEF DeriveKey, enrolling
  <2>2. Typed'
    BY <2>1 DEF IInv, Typed
  <2>3. DataStaysReadable'
    BY <2>1 DEF IInv, DataStaysReadable
  <2>4. QED
    BY <2>1, <2>2, <2>3 DEF IInv, SaverHasSecret, FlaggerFindsSecret, SaverIsFirst,
                            EnrolledHasSecret
<1>8. CASE Restart
  <2>1. /\ pc' = [t \in Calls |-> "idle"] /\ fresh' = [t \in Calls |-> NoSecret]
        /\ UNCHANGED <<root, flag, drawn, protected, faults>>
    BY <1>8 DEF Restart
  <2>2. \A t \in Calls : pc'[t] = "idle"
    BY <2>1
  <2>3. Typed'
    BY <2>1 DEF IInv, Typed
  <2>4. QED
    BY <2>1, <2>2, <2>3 DEF IInv, SaverHasSecret, FlaggerFindsSecret, SaverIsFirst,
                            EnrolledHasSecret, DataStaysReadable
<1>9. CASE UNCHANGED vars
  BY <1>9 DEF vars, enrolling, IInv, Typed, SaverHasSecret, FlaggerFindsSecret, SaverIsFirst,
              EnrolledHasSecret, DataStaysReadable
<1>10. QED
  BY <1>1, <1>2, <1>3, <1>4, <1>5, <1>6, <1>7, <1>8, <1>9 DEF Next

\* The strengthened invariant of enroll, unenroll and deriveKey holds in every
\* reachable state.
THEOREM Invariance == Spec => []IInv
<1>1. Init => IInv
  BY InitEstablishes
<1>2. IInv /\ [Next]_vars => IInv'
  BY StepKeeps
<1>3. QED
  BY <1>1, <1>2, PTL DEF Spec

\* Whatever fails or is cancelled, a device that setEnrolledFlag marked as enrolled
\* has a secret in its storage.
THEOREM EnrolledDeviceHasSecret == Spec => []EnrolledHasSecret
<1>1. IInv => EnrolledHasSecret
  BY DEF IInv
<1>2. QED
  BY <1>1, Invariance, PTL

\* What was protected with a key from deriveKey stays readable, unless a read of the
\* secret was refused or two first enrolments overlapped.
THEOREM ProtectedDataReadable == Spec => []DataStaysReadable
<1>1. IInv => DataStaysReadable
  BY DEF IInv
<1>2. QED
  BY <1>1, Invariance, PTL

-----------------------------------------------------------------------------

\* One call of enroll: the secrets generated so far only grow, and a secret that a
\* call newly holds is one that nobody had.
LEMMA CallKeepsTypes ==
    ASSUME TypeOK, NEW t \in Calls, NEW s \in Secrets \cup {NoSecret},
           NEW step \in {"idle", "authenticate", "read", "save", "set_flag"},
           pc' = [pc EXCEPT ![t] = step],
           fresh' = fresh \/ fresh' = [fresh EXCEPT ![t] = s],
           drawn' = drawn \cup ({s} \ {NoSecret}), s = NoSecret \/ s \notin drawn,
           root' \in {root, fresh[t]}, flag' \in BOOLEAN,
           UNCHANGED <<platform, protected>>
    PROVE  TypeOK'
<1>1. /\ platform' \in {"native", "web"} /\ drawn' \subseteq Secrets /\ drawn \subseteq drawn'
      /\ root' \in drawn' \cup {NoSecret} /\ flag' \in BOOLEAN
      /\ pc' \in [Calls -> {"idle", "authenticate", "read", "save", "set_flag"}]
      /\ protected' \subseteq drawn'
  BY DEF TypeOK
<1>2. fresh' \in [Calls -> drawn' \cup {NoSecret}]
  BY <1>1 DEF TypeOK
<1>3. \A u, w \in Calls : fresh'[u] = fresh'[w] => u = w \/ fresh'[u] = NoSecret
  BY DEF TypeOK
<1>4. QED
  BY <1>1, <1>2, <1>3 DEF TypeOK

\* Every step of enroll, unenroll, deriveKey and a restart keeps the types.
LEMMA StepKeepsTypes == TypeOK /\ [Next]_vars => TypeOK'
<1> SUFFICES ASSUME TypeOK, [Next]_vars PROVE TypeOK'
  OBVIOUS
<1>1. /\ NoSecret \in Secrets \cup {NoSecret} /\ drawn = drawn \cup ({NoSecret} \ {NoSecret})
      /\ flag \in BOOLEAN
  BY DEF TypeOK
<1>2. ASSUME NEW t \in Calls, Enroll(t) \/ Authenticate(t) PROVE TypeOK'
  <2>1. PICK step \in {"idle", "authenticate", "read"} :
            /\ pc' = [pc EXCEPT ![t] = step]
            /\ fresh' = fresh \/ fresh' = [fresh EXCEPT ![t] = NoSecret]
    BY <1>2 DEF Enroll, Authenticate, Return, Goto
  <2>2. UNCHANGED <<platform, root, flag, drawn, protected>>
    BY <1>2 DEF Enroll, Authenticate
  <2>3. QED
    BY <1>1, <2>1, <2>2, CallKeepsTypes
<1>3. ASSUME NEW t \in Calls, ReadRoot(t) PROVE TypeOK'
  <2>1. UNCHANGED <<platform, root, flag, protected>>
    BY <1>3 DEF ReadRoot
  <2>2. CASE Goto(t, "set_flag") /\ UNCHANGED <<drawn, fresh>>
    BY <1>1, <2>1, <2>2, CallKeepsTypes DEF Goto
  <2>3. CASE /\ Goto(t, "save")
             /\ \E s \in Secrets \ drawn :
                    drawn' = drawn \cup {s} /\ fresh' = [fresh EXCEPT ![t] = s]
    <3>1. PICK s \in Secrets \ drawn :
              drawn' = drawn \cup {s} /\ fresh' = [fresh EXCEPT ![t] = s]
      BY <2>3
    <3>2. {s} \ {NoSecret} = {s}
      BY SecretAssumption
    <3>3. QED
      BY <1>1, <2>1, <2>3, <3>1, <3>2, CallKeepsTypes DEF Goto
  <2>4. QED
    BY <1>3, <2>2, <2>3 DEF ReadRoot
<1>4. ASSUME NEW t \in Calls, Save(t) PROVE TypeOK'
  <2>1. PICK step \in {"idle", "set_flag"} :
            /\ pc' = [pc EXCEPT ![t] = step]
            /\ fresh' = fresh \/ fresh' = [fresh EXCEPT ![t] = NoSecret]
    BY <1>4 DEF Save, Return, Goto
  <2>2. root' \in {root, fresh[t]} /\ UNCHANGED <<platform, flag, drawn, protected>>
    BY <1>4 DEF Save
  <2>3. QED
    BY <1>1, <2>1, <2>2, CallKeepsTypes
<1>5. ASSUME NEW t \in Calls, SetFlag(t) PROVE TypeOK'
  <2>1. /\ pc' = [pc EXCEPT ![t] = "idle"] /\ fresh' = [fresh EXCEPT ![t] = NoSecret]
        /\ UNCHANGED <<platform, root, drawn, protected>> /\ flag' \in {flag, TRUE}
    BY <1>5 DEF SetFlag, Return, Goto
  <2>2. flag' \in BOOLEAN
    BY <1>1, <2>1
  <2>3. QED
    BY <1>1, <2>1, <2>2, CallKeepsTypes
<1>6. CASE Unenroll
  <2>1. flag' \in {flag, FALSE} /\ UNCHANGED <<platform, root, drawn, pc, fresh, protected>>
    BY <1>6 DEF Unenroll, enrolling
  <2>2. flag' \in BOOLEAN
    BY <1>1, <2>1
  <2>3. QED
    BY <2>1, <2>2 DEF TypeOK
<1>7. CASE DeriveKey
  <2>1. /\ root # NoSecret /\ protected' = protected \cup {root}
        /\ UNCHANGED <<platform, root, flag, drawn, pc, fresh>>
    BY <1>7 DEF DeriveKey, enrolling
  <2>2. QED
    BY <2>1 DEF TypeOK
<1>8. CASE Restart
  <2>1. /\ pc' = [t \in Calls |-> "idle"] /\ fresh' = [t \in Calls |-> NoSecret]
        /\ UNCHANGED <<platform, root, flag, drawn, protected>>
    BY <1>8 DEF Restart
  <2>2. QED
    BY <2>1 DEF TypeOK
<1>9. CASE UNCHANGED vars
  BY <1>9 DEF vars, enrolling, TypeOK
<1>10. QED
  BY <1>2, <1>3, <1>4, <1>5, <1>6, <1>7, <1>8, <1>9 DEF Next

\* Whatever is stored, about to be saved or protects data was generated by enroll,
\* and no two of its calls hold the same secret.
THEOREM SecretsAreGenerated == Spec => []TypeOK
<1>1. Init => TypeOK
  BY DEF Init, TypeOK
<1>2. QED
  BY <1>1, StepKeepsTypes, PTL DEF Spec
=============================================================================
