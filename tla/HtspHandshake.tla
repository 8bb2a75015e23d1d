--------------------------- MODULE HtspHandshake ---------------------------
(***************************************************************************)
(* What HTSPConnection promises to its only client, Register(): two calls, *)
(* "hello" and then "authenticate", are each started at most once, a call  *)
(* is reported successful only if the server accepted that very call, and  *)
(* every call that is started is reported back.  How answers travel, which *)
(* thread reads them and how long they take is not visible here.           *)
(***************************************************************************)
EXTENDS Naturals

VARIABLES status,    \* of each call: what the caller knows about it
          accepted   \* the calls the server has accepted

vars == <<status, accepted>>

Calls  == {"hello", "authenticate"}
Status == {"idle", "pending", "ok", "failed"}

TypeOK == /\ status \in [Calls -> Status]
          /\ accepted \subseteq Calls

Init == /\ status = [c \in Calls |-> "idle"]
        /\ accepted = {}

\* Authentication needs the challenge of a successful hello.
Start(c) == /\ status[c] = "idle"
            /\ c = "authenticate" => status["hello"] = "ok"
            /\ status' = [status EXCEPT ![c] = "pending"]
            /\ UNCHANGED accepted

\* The server accepts a call it was sent, possibly after the caller gave up.
Accept(c) == /\ status[c] # "idle"
             /\ accepted' = accepted \cup {c}
             /\ UNCHANGED status

Succeed(c) == /\ status[c] = "pending"
              /\ c \in accepted
              /\ status' = [status EXCEPT ![c] = "ok"]
              /\ UNCHANGED accepted

Fail(c) == /\ status[c] = "pending"
           /\ status' = [status EXCEPT ![c] = "failed"]
           /\ UNCHANGED accepted

Next == \E c \in Calls : Start(c) \/ Accept(c) \/ Succeed(c) \/ Fail(c)

\* The caller always learns how a call ended; the server owes nothing.
Fairness == \A c \in Calls : WF_vars(Succeed(c) \/ Fail(c))

Safety == Init /\ [][Next]_vars
Spec   == Safety /\ Fairness
=============================================================================
