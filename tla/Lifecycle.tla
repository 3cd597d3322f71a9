----------------------------- MODULE Lifecycle -----------------------------
(***************************************************************************)
(* What the admission gate promises (contract.md, section 6), without the  *)
(* gate word: calls are admitted until the runtime stops, the runtime is   *)
(* drained once, when nothing admitted is in flight any more, and only     *)
(* then may a Shutdown return nil.  Translated from System.start, shutdown *)
(* and drainShutdowns of lab/model/system.go; Gate.tla implements it.      *)
(***************************************************************************)
CONSTANTS Callers, Shutdowns

VARIABLES phase,        \* "open", "stopping" or "drained"
          live,         \* the admitted calls that have not left Do
          ret           \* what each Shutdown returned, "none" until it does

vars == <<phase, live, ret>>

Init == /\ phase = "open"
        /\ live = {}
        /\ ret = [s \in Shutdowns |-> "none"]

Admit(c) == /\ phase = "open"
            /\ c \notin live
            /\ live' = live \cup {c}
            /\ UNCHANGED <<phase, ret>>

Leave(c) == /\ c \in live
            /\ live' = live \ {c}
            /\ UNCHANGED <<phase, ret>>

Stop == phase = "open" /\ phase' = "stopping" /\ UNCHANGED <<live, ret>>

Drain == /\ phase = "stopping"
         /\ live = {}
         /\ phase' = "drained"
         /\ UNCHANGED <<live, ret>>

Return(s) == /\ ret[s] = "none"
             /\ \/ phase = "drained" /\ ret' = [ret EXCEPT ![s] = "nil"]
                \/ phase /= "open" /\ ret' = [ret EXCEPT ![s] = "expired"]
             /\ UNCHANGED <<phase, live>>

Next == \/ Stop \/ Drain
        \/ \E c \in Callers : Admit(c) \/ Leave(c)
        \/ \E s \in Shutdowns : Return(s)

Spec == Init /\ [][Next]_vars
=============================================================================
