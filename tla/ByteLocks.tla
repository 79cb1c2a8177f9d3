------------------------------ MODULE ByteLocks -----------------------------
(***************************************************************************)
(* What an advisory lock manager promises: every byte has readers or one   *)
(* writer.  A holder that is granted a mode over a span of bytes holds     *)
(* that mode inside of the span and exactly what it held before outside of *)
(* it; nobody else's locks change.  A holder may give bytes up, or, when   *)
(* the manager runs out of room, lose them; when a process exits, several  *)
(* holders give everything up at once.                                     *)
(***************************************************************************)
CONSTANTS
  Holder,
  Byte,
  Spans   \* the sets of bytes that a lock may be asked for

VARIABLE mode  \* mode[b][h]: how h holds b

Modes == {"none", "R", "W"}

Init == mode = [b \in Byte |-> [h \in Holder |-> "none"]]

Compatible(m, n) == m = "none" \/ n = "none" \/ (m = "R" /\ n = "R")

Lock(h, S, m) ==
  /\ \A b \in S, g \in Holder \ {h} : Compatible(m, mode[b][g])
  /\ mode' = [b \in Byte |-> IF b \in S THEN [mode[b] EXCEPT ![h] = m] ELSE mode[b]]

\* The holders in H give some bytes up.
GiveUp(H) ==
  \A b \in Byte, h \in Holder :
    mode'[b][h] # mode[b][h] => h \in H /\ mode'[b][h] = "none"

Next ==
  \/ \E h \in Holder : GiveUp({h})
  \/ \E h \in Holder, S \in Spans, m \in {"R", "W"} : Lock(h, S, m)
  \/ \E H \in SUBSET Holder : GiveUp(H) /\ \A b \in Byte, h \in H : mode'[b][h] = "none"

Spec == Init /\ [][Next]_mode
=============================================================================
