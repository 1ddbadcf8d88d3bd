------------------------------ MODULE Biometric -----------------------------
(***************************************************************************)
(* Biometric enrolment (src/src/security/biometric.ts): a root secret in   *)
(* the secure storage, behind a prompt at every read, from which keys for  *)
(* the app's data are derived, and a flag that says the user enrolled.     *)
(*                                                                         *)
(* enroll() prompts twice: once to authenticate, and once when it reads    *)
(* the secret to see whether there is one.  A read that the user cancels,  *)
(* or that throws, looks like a device without a secret.  One action per   *)
(* await; HKDF gives every secret its own keys, so a key is its secret.    *)
(***************************************************************************)
EXTENDS FiniteSets

CONSTANTS
    Calls,         \* calls of enroll that may overlap
    Secrets,       \* what generateRandomHex may return
    NoSecret

ASSUME SecretAssumption == NoSecret \notin Secrets

VARIABLES
    platform,      \* "native" or "web"
    root,          \* the item under ROOT_SECRET_KEY
    flag,          \* the item under ENROLLED_KEY
    drawn,         \* secrets generated so far
    pc,            \* the await each call of enroll is suspended at
    fresh,         \* the secret a call is about to save
    protected,     \* the secrets whose keys protect data of the app
    faults         \* auxiliary: what went wrong with the secret so far

enrolling == <<pc, fresh>>
vars == <<platform, root, flag, drawn, enrolling, protected, faults>>

Goto(t, step) == pc' = [pc EXCEPT ![t] = step]

Return(t) == Goto(t, "idle") /\ fresh' = [fresh EXCEPT ![t] = NoSecret]

-----------------------------------------------------------------------------
(* enroll. *)

\* Without hardware, or with no finger or face set up, it returns at once; the
\* web has neither, and goes on.
Enroll(t) ==
    /\ pc[t] = "idle"
    /\ Goto(t, "authenticate")
    /\ UNCHANGED <<platform, root, flag, drawn, fresh, protected, faults>>

\* authenticate; the web says yes.
Authenticate(t) ==
    /\ pc[t] = "authenticate"
    /\ \/ Goto(t, "read") /\ UNCHANGED fresh
       \/ platform = "native" /\ Return(t)
    /\ UNCHANGED <<platform, root, flag, drawn, protected, faults>>

\* readRootSecret: the value, or null when there is none, the second prompt was
\* cancelled or the storage threw.  Without a value a secret is generated.
ReadRoot_SameSecret(t) ==    \* mutant: the generator repeats itself
    /\ pc[t] = "read"
    /\ \/ root # NoSecret /\ Goto(t, "set_flag") /\ UNCHANGED <<drawn, fresh, faults>>
       \/ /\ \E s \in Secrets :
                drawn' = drawn \cup {s} /\ fresh' = [fresh EXCEPT ![t] = s]
          /\ UNCHANGED faults
          /\ Goto(t, "save")
    /\ UNCHANGED <<platform, root, flag, protected>>
ReadRoot(t) ==
    /\ pc[t] = "read"
    /\ \/ root # NoSecret /\ Goto(t, "set_flag") /\ UNCHANGED <<drawn, fresh, faults>>
       \/ /\ \E s \in Secrets \ drawn :
                drawn' = drawn \cup {s} /\ fresh' = [fresh EXCEPT ![t] = s]
          /\ faults' = faults
                \cup (IF root # NoSecret THEN {"read refused"} ELSE {})
                \cup (IF \E u \in Calls : pc[u] = "save" THEN {"two at once"} ELSE {})
          /\ Goto(t, "save")
    /\ UNCHANGED <<platform, root, flag, protected>>

\* setItem of the secret; when it throws, enroll answers { ok: false }.
Save_FlagAnyway(t) ==    \* mutant: the catch does not return
    /\ pc[t] = "save"
    /\ root' \in {root, fresh[t]}
    /\ Goto(t, "set_flag")
    /\ UNCHANGED <<platform, flag, drawn, fresh, protected, faults>>
Save(t) ==
    /\ pc[t] = "save"
    /\ \/ root' = fresh[t] /\ Goto(t, "set_flag") /\ UNCHANGED fresh
       \/ Return(t) /\ UNCHANGED root
    /\ UNCHANGED <<platform, flag, drawn, protected, faults>>

\* setEnrolledFlag(true), whose failure is swallowed.
SetFlag(t) ==
    /\ pc[t] = "set_flag"
    /\ flag' \in {flag, TRUE}
    /\ Return(t)
    /\ UNCHANGED <<platform, root, drawn, protected, faults>>

-----------------------------------------------------------------------------
(* unenroll, and the use of the keys. *)

\* setEnrolledFlag(false); the secret stays.
Unenroll_Deletes ==    \* mutant: the behaviour before iteration 44
    /\ flag' \in {flag, FALSE} /\ root' = NoSecret
    /\ UNCHANGED <<platform, drawn, enrolling, protected, faults>>
Unenroll ==
    /\ flag' \in {flag, FALSE}
    /\ UNCHANGED <<platform, root, drawn, enrolling, protected, faults>>

\* deriveKey, for a caller that protects data with the key; a cancelled prompt
\* or a missing secret gives null and changes nothing.
DeriveKey ==
    /\ root # NoSecret
    /\ protected' = protected \cup {root}
    /\ UNCHANGED <<platform, root, flag, drawn, enrolling, faults>>

Restart ==
    /\ pc' = [t \in Calls |-> "idle"] /\ fresh' = [t \in Calls |-> NoSecret]
    /\ UNCHANGED <<platform, root, flag, drawn, protected, faults>>

-----------------------------------------------------------------------------

Init ==
    /\ platform \in {"native", "web"}
    /\ root = NoSecret /\ flag = FALSE /\ drawn = {}
    /\ pc = [t \in Calls |-> "idle"] /\ fresh = [t \in Calls |-> NoSecret]
    /\ protected = {} /\ faults = {}

Next ==
    \/ \E t \in Calls : Enroll(t) \/ Authenticate(t) \/ ReadRoot(t) \/ Save(t) \/ SetFlag(t)
    \/ Unenroll \/ DeriveKey \/ Restart

Spec == Init /\ [][Next]_vars

-----------------------------------------------------------------------------
(* Properties. *)

\* Type invariant; a secret that is stored or waits to be saved was generated,
\* and no two calls hold the same one.
TypeOK ==
    /\ platform \in {"native", "web"}
    /\ drawn \subseteq Secrets /\ root \in drawn \cup {NoSecret} /\ flag \in BOOLEAN
    /\ pc \in [Calls -> {"idle", "authenticate", "read", "save", "set_flag"}]
    /\ fresh \in [Calls -> drawn \cup {NoSecret}]
    /\ \A t, u \in Calls : fresh[t] = fresh[u] => t = u \/ fresh[t] = NoSecret
    /\ protected \subseteq drawn

\* Whatever fails or is cancelled, and however often the user turns biometrics on
\* and off, a device that calls itself enrolled has a secret.
EnrolledHasSecret == flag => root # NoSecret

\* Data protected once stays readable, through further enrolments, unenrolments
\* and restarts, as long as no read of the secret was refused and no two first
\* enrolments overlapped.
DataStaysReadable == faults = {} => protected \subseteq {root}

\* The comment on enroll: a second call does not regenerate the secret.
NeverRegenerated == [][root # NoSecret => root' = root]_vars
=============================================================================
