---------------------------- MODULE CallPromise -----------------------------
(***************************************************************************)
(* What openrpc promises the caller of rpc_client_call_async: the callback *)
(* runs once for the call, with the output the service computed from the   *)
(* input of this very call, or with RPC_NotFound when no service is        *)
(* registered under the name; and it does run in the end.  The promise     *)
(* names what it does not cover: calls whose answer may stay away, and a   *)
(* client for which nothing holds any more.                                *)
(***************************************************************************)
EXTENDS Sequences

CONSTANTS
  Calls,  \* the calls the application makes
  Known   \* those of them that name a registered service

VARIABLES
  called,  \* the calls made so far
  answers, \* for each call, what its callback was run with
  waiting, \* the calls that need not be answered as things are
  void     \* the promise is void

vars == <<called, answers, void>>

RightAnswer(c) ==
  [of |-> c, code |-> IF c \in Known THEN "RPC_OK" ELSE "RPC_NotFound"]

Init ==
  /\ called = {}
  /\ answers = [c \in Calls |-> <<>>]
  /\ ~ void

Call(c) ==
  /\ c \notin called
  /\ called' = called \cup {c}
  /\ UNCHANGED <<answers, void>>

Answer(c) ==
  /\ c \in called
  /\ answers[c] = <<>>
  /\ answers' = [answers EXCEPT ![c] = <<RightAnswer(c)>>]
  /\ UNCHANGED <<called, void>>

Next ==
  \/ \E c \in Calls : Call(c) \/ Answer(c)
  \/ void'

(* A call is answered in the end, unless it need not be from some time on. *)
Spec ==
  /\ Init /\ [][Next]_vars
  /\ \A c \in Calls : WF_vars(~ void /\ c \notin waiting /\ Answer(c))
=============================================================================
