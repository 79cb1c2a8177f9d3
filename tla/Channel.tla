------------------------------- MODULE Channel ------------------------------
(***************************************************************************)
(* What a pipe promises to the processes at its two ends: a channel of     *)
(* bounded capacity that delivers what was put into it, in order.  An end  *)
(* that has hung up stays so.  Who is told that the other end has hung up  *)
(* can rely on it: after "EOF" nothing more is put in, after "EPIPE"       *)
(* nothing more is taken out.                                              *)
(***************************************************************************)
EXTENDS Naturals, Sequences

CONSTANTS
  Byte,
  Capacity

VARIABLES
  in,            \* everything that was put in so far
  out,           \* everything that was taken out so far
  ropen, wopen,  \* the ends that are open
  told           \* the hang-ups that the ends have been told of

vars == <<in, out, ropen, wopen, told>>

Init == in = <<>> /\ out = <<>> /\ ropen = TRUE /\ wopen = TRUE /\ told = {}

\* Some bytes are put in at once, if there is room for them.
Put ==
  /\ wopen
  /\ in' \in Seq(Byte) /\ Len(in) < Len(in') /\ Len(in') <= Len(out) + Capacity
  /\ \A k \in 1 .. Len(in) : in'[k] = in[k]
  /\ UNCHANGED <<out, ropen, wopen, told>>

\* The oldest byte is taken out.
Get ==
  /\ ropen
  /\ Len(out) < Len(in)
  /\ out' = Append(out, in[Len(out) + 1])
  /\ UNCHANGED <<in, ropen, wopen, told>>

HangUp ==
  /\ ropen' \in BOOLEAN /\ wopen' \in BOOLEAN
  /\ (ropen' => ropen) /\ (wopen' => wopen)
  /\ UNCHANGED <<in, out, told>>

\* A call returns: it is told of a hang-up that has happened, or of none.  What
\* the caller was told before no longer matters.
TellEof == ~wopen /\ told' \subseteq told \cup {"EOF"} /\ UNCHANGED <<in, out, ropen, wopen>>
TellEpipe == ~ropen /\ told' \subseteq told \cup {"EPIPE"} /\ UNCHANGED <<in, out, ropen, wopen>>
Forget == told' \subseteq told /\ UNCHANGED <<in, out, ropen, wopen>>

Next == Put \/ Get \/ HangUp \/ TellEof \/ TellEpipe \/ Forget

Spec == Init /\ [][Next]_vars
=============================================================================
