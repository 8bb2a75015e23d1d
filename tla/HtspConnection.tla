--------------------------- MODULE HtspConnection ---------------------------
(***************************************************************************)
(* src/htsp/HTSPConnection.{h,cpp}: the two threads of the connection to   *)
(* the Tvheadend server.  handle_thread runs Register(): it holds m_mutex  *)
(* and makes the calls "hello" and then "authenticate"; a call writes its  *)
(* request to the socket, still holding m_mutex, and waits on a condition  *)
(* variable, which releases m_mutex, for at most ten seconds.              *)
(* message_read_thread_ reads one message after the other, hands an answer *)
(* to the call with its sequence number and every other message to the     *)
(* listener.  The server and the TCP connection are the environment.       *)
(*                                                                         *)
(* A message is a record: the heap object it lives in (id), its "seq"      *)
(* field, what it says and, for an answer to hello, the challenge.  re is  *)
(* the request it answers, which only the server knows.  One critical      *)
(* section of m_mutex that does not block is one action.                   *)
(***************************************************************************)
EXTENDS Naturals, Sequences, FiniteSets, Functions

CONSTANTS SeqLimit,    \* values of the uint32_t m_seq: 2^32
          Challenges,  \* challenges a server may issue
          None,        \* no challenge, no message, no call, no seq
          MaxPush      \* bound: messages the server sends unasked

ASSUME SeqLimitAssumption == SeqLimit \in Nat /\ SeqLimit > 2
ASSUME MaxPushAssumption == MaxPush \in Nat

VARIABLES
  hpc,         \* handle_thread: where Register() is
  call,        \* the call SendAndWait0 is in, or was in last
  result,      \* of each call: what SendHello and SendAuth returned
  m_mutex,     \* who holds the mutex between two actions
  m_seq, m_messages, m_challenge,
  m_flag, m_msg, \* of the HTSPResponse resp on the stack of SendAndWait0
  expired,     \* wait_for has reported its timeout
  rpc, cur,    \* message_read_thread_: where it is, the message it holds
  conn, torn,  \* the connection; a frame was cut off when it went down
  inbox,       \* messages on their way to the client
  toServer,    \* requests the server has received and not answered
  accepted, issued, login, sentCount, pushCount,   \* the server
  taken, freed \* messages allocated by the reader, messages destroyed

handle == <<hpc, call, result, m_seq, m_challenge, expired>>
table  == <<m_messages, m_flag, m_msg>>
reader == <<rpc, cur, taken>>
network == <<conn, torn, inbox>>
server == <<toServer, accepted, issued, login, sentCount, pushCount>>
vars == <<handle, m_mutex, table, reader, network, server, freed>>

Calls == {"hello", "authenticate"}
Verdicts == {"ok", "noaccess", "error"}
Seqs == 0 .. SeqLimit - 1
Message == [id : Nat, seq : Seqs \cup {None}, re : Calls \cup {None},
            says : Verdicts \cup {"push"}, challenge : Challenges \cup {None}]
Request == [seq : Seqs, call : Calls, digest : Challenges \cup {None}]

ASSUME NoneAssumption == None \notin Challenges \cup Nat \cup Calls \cup Message

\* SendAndWait0 is on the stack, and with it resp.
InCall == hpc \in {"write", "get", "wait", "relock"}

HandleTypeOK ==
  /\ hpc \in {"off", "lock", "auth", "write", "get", "wait", "relock",
             "finish", "done"}
  /\ call \in IF hpc \in {"off", "lock"} THEN {None} ELSE Calls
  /\ result \in [Calls -> {"none", "ok", "failed"}]
  /\ m_mutex \in {"free", "handle"}
  /\ m_seq \in Seqs
  /\ DOMAIN m_messages \subseteq Seqs
  /\ m_messages \in [DOMAIN m_messages -> Calls]
  /\ m_challenge \in Challenges \cup {None}
  /\ m_msg \in Message \cup {None}

\* Both threads start together, and the reader holds a message exactly while
\* it works on one.
ReaderTypeOK ==
  /\ rpc \in IF hpc = "off" THEN {"off"}
            ELSE {"read", "lookup", "dispatch", "stopped", "spin"}
  /\ cur \in IF rpc \in {"lookup", "dispatch"} THEN Message ELSE {None}
  /\ taken \in SUBSET Nat /\ freed \in SUBSET Nat

NetworkTypeOK ==
  /\ conn \in {"closed", "open", "down"}
  /\ inbox \in Seq(Message)
  /\ toServer \in SUBSET Request
  /\ accepted \in SUBSET Calls
  /\ issued \in Challenges \cup {None}
  /\ login \in Challenges \cup {None}
  /\ sentCount \in Nat /\ pushCount \in 0 .. MaxPush

FlagsTypeOK ==
  /\ m_flag \in BOOLEAN
  /\ expired \in BOOLEAN
  /\ torn \in BOOLEAN

TypeOK == HandleTypeOK /\ ReaderTypeOK /\ NetworkTypeOK /\ FlagsTypeOK

Init ==
  /\ hpc = "off" /\ call = None /\ result = [c \in Calls |-> "none"]
  /\ m_mutex = "free" /\ m_seq = 0 /\ m_messages = [s \in {} |-> None] /\ m_challenge = None
  /\ m_flag = FALSE /\ m_msg = None /\ expired = FALSE
  /\ rpc = "off" /\ cur = None
  /\ conn = "closed" /\ torn = FALSE /\ inbox = <<>>
  /\ toServer = {} /\ accepted = {} /\ issued = None /\ login = None
  /\ sentCount = 0 /\ pushCount = 0
  /\ taken = {} /\ freed = {}
-----------------------------------------------------------------------------
(* handle_thread *)

\* Init() connected, or failed to: the result is not looked at and both
\* threads are started.
TcpSocketDidOpen ==
  /\ hpc = "off"
  /\ conn' \in {"open", "down"}
  /\ hpc' = "lock" /\ rpc' = "read"
  /\ UNCHANGED <<call, result, m_mutex, m_seq, m_challenge, expired, table,
                 cur, taken, torn, inbox, server, freed>>

NextSeq(s) == (s + 1) % SeqLimit

\* SendAndWait0 up to the blocking socket.Write in SendMessage.
Begin(c) ==
  /\ call' = c
  /\ m_seq' = NextSeq(m_seq)
  /\ m_flag' = FALSE /\ m_msg' = None
  /\ m_messages' = [s \in DOMAIN m_messages \cup {m_seq'} |->
                      IF s = m_seq' THEN c ELSE m_messages[s]]
  /\ expired' = FALSE
  /\ hpc' = "write"

RegisterLock ==
  /\ hpc = "lock" /\ m_mutex = "free"
  /\ m_mutex' = "handle"
  /\ Begin("hello")
  /\ UNCHANGED <<result, m_challenge, reader, network, server, freed>>

\* The mutex is still held: SendAuth follows SendHello in Register.
SendAuth ==
  /\ hpc = "auth"
  /\ Begin("authenticate")
  /\ UNCHANGED <<result, m_mutex, m_challenge, reader, network, server, freed>>

\* Mutants: the entry is nulled instead of erased; it is not erased at all.
NullEntry(s) == [m_messages EXCEPT ![s] = None]
KeepEntry(s) == m_messages

Erase(s) == Restrict(m_messages, DOMAIN m_messages \ {s})

\* Mutant: Register does not look at what SendHello returned.
AfterCallAlways(c, r) == IF c = "hello" THEN "auth" ELSE "finish"

\* Register goes on to SendAuth only after a successful hello.
AfterCall(c, r) == IF c = "hello" /\ r = "ok" THEN "auth" ELSE "finish"

\* The request is on the wire and the mutex is still held.
SendMessage ==
  /\ hpc = "write" /\ conn = "open"
  /\ toServer' = toServer \cup
                   {[seq |-> m_seq, call |-> call, digest |-> m_challenge]}
  /\ login' = IF call = "authenticate" THEN m_challenge ELSE login
  /\ hpc' = "get"
  /\ UNCHANGED <<call, result, m_mutex, m_seq, m_challenge, expired, table,
                 reader, network, accepted, issued, sentCount, pushCount, freed>>

\* Mutant: the early return of SendAndWait0 forgets the table entry.
SendMessageFailsKeepsEntry ==
  /\ hpc = "write"
  /\ result' = [result EXCEPT ![call] = "failed"]
  /\ hpc' = "finish"
  /\ UNCHANGED <<call, m_mutex, m_seq, m_challenge, expired, table, reader,
                 network, server, freed>>

\* A failed or short write ends the call; the mutex stays held.
SendMessageFails ==
  /\ hpc = "write"
  /\ m_messages' = Erase(m_seq)
  /\ result' = [result EXCEPT ![call] = "failed"]
  /\ hpc' = "finish"
  /\ UNCHANGED <<call, m_mutex, m_seq, m_challenge, expired, m_flag, m_msg, reader,
                 network, server, freed>>

\* Mutant: a timeout of -1 is taken to mean that there is none.
NoDeadline == FALSE

\* The ten seconds are over, or wait_for returns for no reason: either way it
\* has to take the mutex again before it looks at m_flag.
DeadlinePasses ==
  /\ hpc \in {"wait", "relock"} /\ ~expired
  /\ hpc' = "relock" /\ expired' = TRUE
  /\ UNCHANGED <<call, result, m_mutex, m_seq, m_challenge, table, reader,
                 network, server, freed>>

SpuriousWakeup ==
  /\ hpc = "wait"
  /\ hpc' = "relock"
  /\ UNCHANGED <<call, result, m_mutex, m_seq, m_challenge, expired, table,
                 reader, network, server, freed>>

\* Get() looks at m_flag only with the mutex held: before it waits, and after.
Looks == hpc = "get" \/ (hpc = "relock" /\ m_mutex = "free")

Ready == m_flag \/ expired

\* Mutant: the wait does not release the mutex.
GetWaitsLocked ==
  /\ Looks /\ ~Ready
  /\ hpc' = "wait"
  /\ UNCHANGED <<call, result, m_mutex, m_seq, m_challenge, expired, table,
                 reader, network, server, freed>>

GetWaits ==
  /\ Looks /\ ~Ready
  /\ hpc' = "wait" /\ m_mutex' = "free"
  /\ UNCHANGED <<call, result, m_seq, m_challenge, expired, table, reader,
                 network, server, freed>>

\* Mutant: a wait that timed out returns nothing, whatever m_msg holds.
AnswerUnlessExpired == IF expired THEN None ELSE m_msg

\* Get() takes whatever m_msg holds, even when the wait timed out.
Answer == m_msg

\* SendAndWait0 and its caller judge the answer and destroy it.
Outcome(m) == IF m # None /\ m.says = "ok" THEN "ok" ELSE "failed"

\* SendHello copies the challenge of a successful answer, if it has one.
StoredChallenge(m) ==
  IF call = "hello" /\ Outcome(m) = "ok" /\ m.challenge # None
  THEN m.challenge ELSE m_challenge

GetReturns ==
  /\ Looks /\ Ready
  /\ m_mutex' = "handle"
  /\ m_messages' = Erase(m_seq)
  /\ m_flag' = FALSE /\ m_msg' = None
  /\ result' = [result EXCEPT ![call] = Outcome(Answer)]
  /\ m_challenge' = StoredChallenge(Answer)
  /\ freed' = IF Answer = None THEN freed ELSE freed \cup {Answer.id}
  /\ hpc' = AfterCall(call, Outcome(Answer))
  /\ UNCHANGED <<call, m_seq, expired, reader, network, server>>

\* Mutant: Register returns with the mutex locked.
RegisterEndsLocked ==
  /\ hpc = "finish"
  /\ hpc' = "done"
  /\ UNCHANGED <<call, result, m_mutex, m_seq, m_challenge, expired, table,
                 reader, network, server, freed>>

\* "auth-t" is posted whatever happened, and the mutex is released.
RegisterEnds ==
  /\ hpc = "finish"
  /\ hpc' = "done" /\ m_mutex' = "free"
  /\ UNCHANGED <<call, result, m_seq, m_challenge, expired, table, reader,
                 network, server, freed>>
-----------------------------------------------------------------------------
(* message_read_thread_ *)

\* ReadMessage up to the test for a "seq" field; it needs no lock so far.
ReadMessage ==
  /\ rpc = "read" /\ inbox # <<>>
  /\ cur' = Head(inbox) /\ inbox' = Tail(inbox)
  /\ taken' = taken \cup {Head(inbox).id}
  /\ rpc' = IF Head(inbox).seq # None THEN "lookup" ELSE "dispatch"
  /\ UNCHANGED <<handle, m_mutex, table, conn, torn, server, freed>>

\* End of stream, a length field that came in two pieces or a message that
\* cannot be parsed: MessageReadLoop returns without posting itself again.
ReadMessageFails ==
  /\ rpc = "read"
  /\ inbox # <<>> \/ conn = "down"
  /\ rpc' = "stopped"
  /\ UNCHANGED <<handle, m_mutex, table, cur, taken, network, server, freed>>

\* The connection went down inside a frame: "remaining" never reaches 0.
ReadMessageSpins ==
  /\ rpc = "read"
  /\ inbox = <<>> /\ conn = "down" /\ torn
  /\ rpc' = "spin"
  /\ UNCHANGED <<handle, m_mutex, table, cur, taken, network, server, freed>>

Waiting(m) == m.seq \in DOMAIN m_messages

\* Mutant: Set() does not notify.
NotNotified == hpc

\* notify_all: a thread that is in the wait set goes for the mutex.
Notified == IF hpc = "wait" THEN "relock" ELSE hpc

\* Mutant: after Set() the message is dispatched as well.
SetResponseAndDispatch ==
  /\ rpc = "lookup" /\ m_mutex = "free"
  /\ Waiting(cur)
  /\ m_flag' = TRUE /\ m_msg' = cur
  /\ hpc' = Notified
  /\ rpc' = "dispatch"
  /\ UNCHANGED <<call, result, m_mutex, m_seq, m_messages, m_challenge, expired,
                 cur, taken, network, server, freed>>

SetResponse ==
  /\ rpc = "lookup" /\ m_mutex = "free"
  /\ Waiting(cur)
  /\ m_flag' = TRUE /\ m_msg' = cur
  /\ hpc' = Notified
  /\ rpc' = "read" /\ cur' = None
  /\ UNCHANGED <<call, result, m_mutex, m_seq, m_messages, m_challenge, expired,
                 taken, network, server, freed>>

\* Nobody waits for the answer any more: it is treated like any message.
LookupMisses ==
  /\ rpc = "lookup" /\ m_mutex = "free"
  /\ ~Waiting(cur)
  /\ rpc' = "dispatch"
  /\ UNCHANGED <<handle, m_mutex, table, cur, taken, network, server, freed>>

\* A message without a method is dropped, one with a method goes to
\* HelloWorld::ProcessMessage, which is done with it when it returns.
ProcessMessage ==
  /\ rpc = "dispatch"
  /\ freed' = freed \cup {cur.id}
  /\ rpc' = "read" /\ cur' = None
  /\ UNCHANGED <<handle, m_mutex, table, taken, network, server>>
-----------------------------------------------------------------------------
(* The server and the connection *)

Send(m) == inbox' = Append(inbox, m) /\ sentCount' = sentCount + 1

\* A login is accepted only if its digest was made with the challenge that
\* was issued.
ServerAnswers ==
  /\ conn = "open"
  /\ \E q \in toServer, v \in Verdicts, ch \in Challenges \cup {None} :
       /\ q.call = "hello" \/ ch = None
       /\ v = "ok" => q.call = "hello" \/ q.digest = issued
       /\ Send([id |-> sentCount, seq |-> q.seq, re |-> q.call, says |-> v,
                challenge |-> ch])
       /\ toServer' = toServer \ {q}
       /\ accepted' = IF v = "ok" THEN accepted \cup {q.call} ELSE accepted
       /\ issued' = IF q.call = "hello" /\ v = "ok" THEN ch ELSE issued
  /\ UNCHANGED <<handle, m_mutex, table, reader, conn, torn, login, pushCount, freed>>

ServerPushes ==
  /\ conn = "open" /\ pushCount < MaxPush
  /\ Send([id |-> sentCount, seq |-> None, re |-> None, says |-> "push",
           challenge |-> None])
  /\ pushCount' = pushCount + 1
  /\ UNCHANGED <<handle, m_mutex, table, reader, conn, torn, toServer, accepted,
                 issued, login, freed>>

\* What was in flight may be lost from some byte on.
ConnectionDrops ==
  /\ conn = "open"
  /\ conn' = "down" /\ torn' \in BOOLEAN
  /\ \E n \in 0 .. Len(inbox) : inbox' = SubSeq(inbox, 1, n)
  /\ UNCHANGED <<handle, m_mutex, table, reader, server, freed>>
-----------------------------------------------------------------------------
HandleThread == \/ RegisterLock \/ SendAuth \/ SendMessage \/ SendMessageFails
                \/ GetWaits \/ GetReturns \/ RegisterEnds
ReadThread == \/ ReadMessage \/ ReadMessageFails \/ ReadMessageSpins
              \/ SetResponse \/ LookupMisses \/ ProcessMessage
Environment == ServerAnswers \/ ServerPushes \/ ConnectionDrops

\* Both threads are through; a spinning reader never is, but does nothing.
Stopped == hpc = "done" /\ rpc \in {"stopped", "spin"} /\ UNCHANGED vars

Next == \/ TcpSocketDidOpen \/ HandleThread \/ DeadlinePasses \/ SpuriousWakeup
        \/ ReadThread \/ Environment \/ Stopped

\* Threads run, a blocked Write returns, a deadline passes.  Nothing is
\* assumed of the server.
Fairness == /\ WF_vars(TcpSocketDidOpen)
            /\ WF_vars(HandleThread)
            /\ WF_vars(DeadlinePasses)
            /\ WF_vars(ReadThread)

Safety == Init /\ [][Next]_vars
Spec == Safety /\ Fairness
-----------------------------------------------------------------------------
(* Properties *)

\* m_messages holds pointers to stack objects: an entry exists only while the
\* SendAndWait0 that made it is on the stack, and there is no other.
EntriesLive == \A s \in DOMAIN m_messages :
                 InCall /\ m_messages[s] = call /\ s = m_seq

\* The mutex is held exactly while Register() runs and does not wait, so that
\* the reader is shut out only for the length of a write.
LockDiscipline == m_mutex = "handle" <=> hpc \in {"auth", "write", "get", "finish"}

\* What a call finds in its response object is the server's answer to this
\* call, not to an earlier one and not a message the server sent unasked.
OwnAnswer == m_msg # None => m_flag /\ InCall /\ m_msg.re = call

\* Every message the reader allocated is owned by exactly one of the reader,
\* the response object and nobody (destroyed): none leaks, none is freed
\* while somebody still uses it.
Held == {m \in {cur, m_msg} : m # None}
MessageOwnership ==
  /\ cur # None /\ m_msg # None => cur.id # m_msg.id
  /\ {m.id : m \in Held} \cap freed = {}
  /\ {m.id : m \in Held} \cup freed = taken

\* A waiter is never left asleep with its answer already there.
NoMissedWakeup == hpc = "wait" => ~m_flag

\* A login the server gets was computed with the challenge it issued.
DigestFresh == \A q \in toServer :
                 q.call = "authenticate" => q.digest = issued

\* A call never fails once the server's consent has reached its response
\* object, even when the deadline passes before the waiter has the mutex.
AnswerNotLost ==
  [][\A c \in Calls : result[c] = "none" /\ result'[c] = "failed"
                         => ~(m_flag /\ m_msg.says = "ok")]_vars

\* The reader always gets the mutex it needs to look an answer up.
ReaderGetsMutex == rpc = "lookup" ~> rpc # "lookup"

\* Register() comes to its end whatever server and connection do.
RegisterFinishes == hpc = "lock" ~> hpc = "done"

\* The two threads together are the sequential handshake of HtspHandshake.
CallStatus == [c \in Calls |-> IF result[c] # "none" THEN result[c]
                              ELSE IF InCall /\ call = c THEN "pending"
                              ELSE "idle"]
Handshake == INSTANCE HtspHandshake WITH status <- CallStatus
ImplementsHandshake == Handshake!Spec
=============================================================================
