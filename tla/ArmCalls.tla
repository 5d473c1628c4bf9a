------------------------------ MODULE ArmCalls ------------------------------
(***************************************************************************)
(* What MakeArmCall (client-react/src/ApiHelpers/ArmHelper.ts) promises to *)
(* the pages that call it, with no word about buffers, batches or retries: *)
(* a call is issued once, the Azure Resource Manager executes it at most   *)
(* once, and the caller is told the outcome of its own request.  A caller  *)
(* told of a failure may still have had its request executed, but only if  *)
(* the request is in doubt: it was on the wire when the connection, or the *)
(* front end of ARM, gave up on it.                                        *)
(***************************************************************************)
EXTENDS Naturals

CONSTANT Calls          \* the calls of a session

VARIABLES
  status,               \* what the caller of each call has been told
  verdict,              \* what ARM has done with the request of each call
  doubt                 \* the calls whose request was given up on the wire

vars == <<status, verdict, doubt>>

Outcome == {"ok", "error"}
Settled == {"ok", "failed", "threw"}

Init ==
  /\ status = [c \in Calls |-> "idle"]
  /\ verdict = [c \in Calls |-> "none"]
  /\ doubt = {}

\* A page calls MakeArmCall.
Issue ==
  \E c \in Calls :
    /\ status[c] = "idle"
    /\ status' = [status EXCEPT ![c] = "waiting"]
    /\ UNCHANGED <<verdict, doubt>>

\* ARM executes some requests, none of them for a second time, and none that
\* the caller has been told was given up before it was sent.
Execute ==
  /\ \E good \in SUBSET Calls, done \in SUBSET Calls :
       /\ \A c \in done : verdict[c] = "none" /\ (status[c] = "waiting" \/ c \in doubt)
       /\ verdict' = [c \in Calls |-> IF c \notin done THEN verdict[c]
                                      ELSE IF c \in good THEN "ok" ELSE "error"]
  /\ UNCHANGED <<status, doubt>>

\* Some callers are told what ARM answered to their own request.
Answer ==
  /\ \E told \in SUBSET Calls :
       /\ \A c \in told : status[c] = "waiting" /\ verdict[c] \in Outcome
       /\ status' = [c \in Calls |-> IF c \notin told THEN status[c]
                                     ELSE IF verdict[c] = "ok" THEN "ok" ELSE "failed"]
  /\ UNCHANGED <<verdict, doubt>>

\* Some callers are told of a failure that is not ARM's answer to them; those
\* whose request has left the browser are in doubt, the others are certain that
\* nothing was done.
GiveUp ==
  /\ \E lost \in SUBSET Calls, sent \in SUBSET Calls, how \in {"failed", "threw"} :
       /\ \A c \in lost : status[c] = "waiting"
       /\ sent \subseteq lost
       /\ \A c \in lost \ sent : verdict[c] = "none"
       /\ status' = [c \in Calls |-> IF c \in lost THEN how ELSE status[c]]
       /\ doubt' = doubt \cup sent
  /\ UNCHANGED verdict

Next == Issue \/ Execute \/ Answer \/ GiveUp

Spec == Init /\ [][Next]_vars
=============================================================================
