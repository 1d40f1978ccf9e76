---------------------------- MODULE CallContract ----------------------------
(***************************************************************************)
(* What a host program is promised about the calls it makes into the       *)
(* library, whatever happens inside them.  On one thread calls nest,       *)
(* because JIT-compiled code may call back into the host, which may call   *)
(* the library again.  A call that returns a result has one verdict, given *)
(* once; host code runs only inside a call that will succeed.              *)
(*                                                                         *)
(* calls[t]   the open calls of thread t, innermost last:                  *)
(*    "working"   the library has not decided yet                          *)
(*    "host"      the entry is running, and may call host functions        *)
(*    "success"   a successful result is being returned                    *)
(*    "failure"   a failed result is being returned                        *)
(***************************************************************************)
EXTENDS Naturals, Sequences

CONSTANTS Thread

VARIABLES calls

Innermost(t) == calls[t][Len(calls[t])]
HostCodeRuns(t) == calls[t] = <<>> \/ Innermost(t) = "host"

Enclosing(t) == SubSeq(calls[t], 1, Len(calls[t]) - 1)

ContractInit == calls = [t \in Thread |-> <<>>]

Open(t) ==
  /\ HostCodeRuns(t)
  /\ calls' = [calls EXCEPT ![t] = Append(@, "working")]

Become(t, from, to) ==
  /\ calls[t] # <<>>
  /\ Innermost(t) = from
  /\ calls' = [calls EXCEPT ![t] = Append(Enclosing(t), to)]

\* A call is closed by returning its result, or by throwing before it has one.
Close(t, last) ==
  /\ calls[t] # <<>>
  /\ Innermost(t) = last
  /\ calls' = [calls EXCEPT ![t] = Enclosing(t)]

ContractNext ==
  \E t \in Thread :
    \/ Open(t)
    \/ \E to \in {"host", "success", "failure"} : Become(t, "working", to)
    \/ Become(t, "host", "success")
    \/ \E last \in {"working", "success", "failure"} : Close(t, last)

ContractSpec == ContractInit /\ [][ContractNext]_calls
=============================================================================
