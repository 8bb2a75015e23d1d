----------------------- MODULE HtspConnection_proofs -----------------------
(***************************************************************************)
(* Proofs about HtspConnection, for every range of sequence numbers above  *)
(* two, every set of challenges and every number of pushed messages.  They *)
(* use the safety part of the specification only; fairness and the         *)
(* liveness properties are left to TLC.                                    *)
(***************************************************************************)
EXTENDS HtspConnection, SequenceTheorems, TLAPS

\* The environment's choice of a surviving prefix of what is in flight.
LEMMA PrefixType ==
  ASSUME NEW S, NEW s \in Seq(S), NEW n \in 0 .. Len(s)
  PROVE  /\ SubSeq(s, 1, n) \in Seq(S)
         /\ Len(SubSeq(s, 1, n)) = n
         /\ \A i \in 1 .. n : SubSeq(s, 1, n)[i] = s[i]
  BY SubSeqProperties

LEMMA TailType ==
  ASSUME NEW S, NEW s \in Seq(S), s # <<>>
  PROVE  /\ Head(s) \in S /\ Tail(s) \in Seq(S)
         /\ Len(s) > 0 /\ Head(s) = s[1]
         /\ Len(Tail(s)) = Len(s) - 1
         /\ \A i \in 1 .. Len(Tail(s)) : Tail(s)[i] = s[i + 1]
  BY HeadTailProperties, EmptySeq

LEMMA EraseType ==
  ASSUME DOMAIN m_messages \subseteq Seqs,
         m_messages \in [DOMAIN m_messages -> Calls], NEW s
  PROVE  /\ DOMAIN Erase(s) \subseteq Seqs
         /\ Erase(s) \in [DOMAIN Erase(s) -> Calls]
  BY DEF Erase, Restrict
-----------------------------------------------------------------------------
\* All variables but the flags.
DataTypeOK == HandleTypeOK /\ ReaderTypeOK /\ NetworkTypeOK

LEMMA DataTypeCorrect == Safety => []DataTypeOK
<1>1. Init => DataTypeOK
  <2> SUFFICES ASSUME Init PROVE DataTypeOK
    OBVIOUS
  <2>1. HandleTypeOK
    BY SeqLimitAssumption DEF Init, HandleTypeOK, Calls, Seqs
  <2>2. ReaderTypeOK
    BY DEF Init, ReaderTypeOK
  <2>3. NetworkTypeOK
    BY MaxPushAssumption DEF Init, NetworkTypeOK
  <2> QED
    BY <2>1, <2>2, <2>3 DEF DataTypeOK
<1>2. DataTypeOK /\ [Next]_vars => DataTypeOK'
  <2> SUFFICES ASSUME DataTypeOK, [Next]_vars PROVE DataTypeOK'
    OBVIOUS
  <2> USE DEF DataTypeOK, HandleTypeOK, ReaderTypeOK, NetworkTypeOK, handle,
              table, reader, network, server, vars
  <2>1. CASE TcpSocketDidOpen
    BY <2>1 DEF TcpSocketDidOpen
  <2>2. CASE RegisterLock
    BY <2>2, SeqLimitAssumption DEF RegisterLock, Begin, NextSeq, Seqs, Calls
  <2>3. CASE SendAuth
    BY <2>3, SeqLimitAssumption DEF SendAuth, Begin, NextSeq, Seqs, Calls
  <2>4. CASE SendMessage
    <3>1. toServer' \in SUBSET Request
      <4>1. [seq |-> m_seq, call |-> call, digest |-> m_challenge] \in Request
        BY <2>4 DEF SendMessage, Request
      <4> QED
        BY <2>4, <4>1 DEF SendMessage
    <3> QED
      BY <2>4, <3>1 DEF SendMessage
  <2>5. CASE SendMessageFails
    <3>1. /\ DOMAIN m_messages' \subseteq Seqs
          /\ m_messages' \in [DOMAIN m_messages' -> Calls]
      BY <2>5, EraseType DEF SendMessageFails
    <3>2. result' \in [Calls -> {"none", "ok", "failed"}]
      BY <2>5 DEF SendMessageFails
    <3> QED
      BY <2>5, <3>1, <3>2 DEF SendMessageFails
  <2>6. CASE GetWaits
    BY <2>6 DEF GetWaits, Looks
  <2>7. CASE GetReturns
    <3>1. /\ DOMAIN m_messages' \subseteq Seqs
          /\ m_messages' \in [DOMAIN m_messages' -> Calls]
      BY <2>7, EraseType DEF GetReturns
    <3>2. result' \in [Calls -> {"none", "ok", "failed"}]
      BY <2>7 DEF GetReturns, Outcome
    <3>3. m_challenge' \in Challenges \cup {None}
      <4>1. \A m \in Message : m.challenge \in Challenges \cup {None}
        BY DEF Message
      <4> QED
        BY <2>7, <4>1 DEF GetReturns, StoredChallenge, Outcome, Answer
    <3>4. freed' \in SUBSET Nat
      BY <2>7 DEF GetReturns, Answer, Message
    <3> QED
      BY <2>7, <3>1, <3>2, <3>3, <3>4 DEF GetReturns, AfterCall, Looks
  <2>8. CASE RegisterEnds
    BY <2>8 DEF RegisterEnds
  <2>9. CASE DeadlinePasses
    BY <2>9 DEF DeadlinePasses
  <2>10. CASE SpuriousWakeup
    BY <2>10 DEF SpuriousWakeup
  <2>11. CASE ReadMessage
    <3>1. inbox # <<>> /\ inbox' = Tail(inbox) /\ cur' = Head(inbox)
      BY <2>11 DEF ReadMessage
    <3>2. Head(inbox) \in Message /\ Tail(inbox) \in Seq(Message)
      BY <3>1, TailType
    <3> QED
      BY <2>11, <3>1, <3>2 DEF ReadMessage, Message
  <2>12. CASE ReadMessageFails
    BY <2>12 DEF ReadMessageFails
  <2>13. CASE ReadMessageSpins
    BY <2>13 DEF ReadMessageSpins
  <2>14. CASE SetResponse
    BY <2>14 DEF SetResponse, Notified
  <2>15. CASE LookupMisses
    BY <2>15 DEF LookupMisses
  <2>16. CASE ProcessMessage
    BY <2>16 DEF ProcessMessage, Message
  <2>17. CASE ServerAnswers
    <3>1. PICK q \in toServer, v \in Verdicts, ch \in Challenges \cup {None} :
            /\ Send([id |-> sentCount, seq |-> q.seq, re |-> q.call,
                     says |-> v, challenge |-> ch])
            /\ toServer' = toServer \ {q}
            /\ accepted' = IF v = "ok" THEN accepted \cup {q.call} ELSE accepted
            /\ issued' = IF q.call = "hello" /\ v = "ok" THEN ch ELSE issued
      BY <2>17 DEF ServerAnswers
    <3>2. [id |-> sentCount, seq |-> q.seq, re |-> q.call, says |-> v,
           challenge |-> ch] \in Message
      BY <3>1 DEF Message, Request
    <3> QED
      BY <2>17, <3>1, <3>2 DEF ServerAnswers, Send, Request
  <2>18. CASE ServerPushes
    <3>1. [id |-> sentCount, seq |-> None, re |-> None, says |-> "push",
           challenge |-> None] \in Message
      BY DEF Message
    <3> QED
      BY <2>18, <3>1, MaxPushAssumption DEF ServerPushes, Send
  <2>19. CASE ConnectionDrops
    BY <2>19, PrefixType DEF ConnectionDrops
  <2>20. CASE UNCHANGED vars
    BY <2>20
  <2> QED
    BY <2>1, <2>2, <2>3, <2>4, <2>5, <2>6, <2>7, <2>8, <2>9, <2>10, <2>11,
       <2>12, <2>13, <2>14, <2>15, <2>16, <2>17, <2>18, <2>19, <2>20
       DEF Next, HandleThread, ReadThread, Environment, Stopped
<1> QED
  BY <1>1, <1>2, PTL DEF Safety

LEMMA FlagsTypeCorrect == Safety => []FlagsTypeOK
<1>1. Init => FlagsTypeOK
  BY DEF Init, FlagsTypeOK
<1>2. FlagsTypeOK /\ [Next]_vars => FlagsTypeOK'
  <2> SUFFICES ASSUME FlagsTypeOK, [Next]_vars PROVE FlagsTypeOK'
    OBVIOUS
  <2> USE DEF FlagsTypeOK, handle, table, reader, network, server, vars
  <2>1. CASE TcpSocketDidOpen
    BY <2>1 DEF TcpSocketDidOpen
  <2>2. CASE RegisterLock
    BY <2>2 DEF RegisterLock, Begin
  <2>3. CASE SendAuth
    BY <2>3 DEF SendAuth, Begin
  <2>4. CASE SendMessage
    BY <2>4 DEF SendMessage
  <2>5. CASE SendMessageFails
    BY <2>5 DEF SendMessageFails
  <2>6. CASE GetWaits
    BY <2>6 DEF GetWaits
  <2>7. CASE GetReturns
    BY <2>7 DEF GetReturns
  <2>8. CASE RegisterEnds
    BY <2>8 DEF RegisterEnds
  <2>9. CASE DeadlinePasses
    BY <2>9 DEF DeadlinePasses
  <2>10. CASE SpuriousWakeup
    BY <2>10 DEF SpuriousWakeup
  <2>11. CASE ReadMessage
    BY <2>11 DEF ReadMessage
  <2>12. CASE ReadMessageFails
    BY <2>12 DEF ReadMessageFails
  <2>13. CASE ReadMessageSpins
    BY <2>13 DEF ReadMessageSpins
  <2>14. CASE SetResponse
    BY <2>14 DEF SetResponse
  <2>15. CASE LookupMisses
    BY <2>15 DEF LookupMisses
  <2>16. CASE ProcessMessage
    BY <2>16 DEF ProcessMessage
  <2>17. CASE ServerAnswers
    BY <2>17 DEF ServerAnswers
  <2>18. CASE ServerPushes
    BY <2>18 DEF ServerPushes
  <2>19. CASE ConnectionDrops
    BY <2>19 DEF ConnectionDrops
  <2>20. CASE UNCHANGED vars
    BY <2>20
  <2> QED
    BY <2>1, <2>2, <2>3, <2>4, <2>5, <2>6, <2>7, <2>8, <2>9, <2>10, <2>11,
       <2>12, <2>13, <2>14, <2>15, <2>16, <2>17, <2>18, <2>19, <2>20
       DEF Next, HandleThread, ReadThread, Environment, Stopped
<1> QED
  BY <1>1, <1>2, PTL DEF Safety

\* Every variable keeps its type, and m_messages maps sequence numbers of the
\* uint32_t range to calls.
THEOREM TypeCorrect == Safety => []TypeOK
<1>1. DataTypeOK /\ FlagsTypeOK => TypeOK
  BY DEF DataTypeOK, TypeOK
<1> QED
  BY <1>1, DataTypeCorrect, FlagsTypeCorrect, PTL
-----------------------------------------------------------------------------
(***************************************************************************)
(* The inductive invariant.  Whether an answer is the waiting call's own   *)
(* is decided by numbers only: SeqOf(c) is the number of call c, because   *)
(* Register() makes each call once.  So the invariant says of every answer *)
(* on its way, in the inbox, in the reader's hands or in the response      *)
(* object, that its number is that of the call it answers and that this    *)
(* call has begun.                                                         *)
(***************************************************************************)
SeqOf(c) == IF c = "hello" THEN 1 ELSE 2

Begun(c) == IF c = "hello" THEN call # None ELSE call = "authenticate"

\* The program counter of Register() and its local variables agree.
ControlInv ==
  /\ m_seq = IF call = None THEN 0 ELSE SeqOf(call)
  /\ \A c \in Calls : ~Begun(c) => result[c] = "none"
  /\ InCall => result[call] = "none"
  /\ call # None /\ ~InCall => result[call] # "none"
  /\ hpc = "auth" => call = "hello"
  /\ hpc = "auth" \/ call = "authenticate" => result["hello"] = "ok"

\* The response object is empty before the wait, and while nobody notified.
ResponseInv ==
  /\ OwnAnswer
  /\ m_flag => m_msg # None
  /\ hpc \in {"write", "get", "wait"} => ~m_flag

\* The request of call c is being written or has not been answered.
Pending(c) == \/ hpc = "write" /\ call = c
              \/ \E q \in toServer : q.call = c

GoodMessages ==
  {m \in Message :
     /\ m.seq = None => m.says = "push" /\ m.re = None
     /\ m.seq # None => m.re \in Calls /\ Begun(m.re) /\ m.seq = SeqOf(m.re)
     /\ m.says = "ok" => m.re \in accepted
     /\ m.re \in Calls => ~Pending(m.re)
     /\ m.re = "hello" /\ m.says = "ok" => m.challenge = issued}

MessageInv ==
  /\ \A i \in 1 .. Len(inbox) : inbox[i] \in GoodMessages
  /\ cur \in GoodMessages \cup {None}
  /\ rpc = "lookup" => cur.seq # None
  /\ m_msg \in GoodMessages \cup {None}

RequestInv ==
  /\ \A q \in toServer :
       /\ Begun(q.call) /\ q.seq = SeqOf(q.call)
       /\ ~(hpc = "write" /\ call = q.call)
       /\ q.digest = IF q.call = "hello" THEN None ELSE issued
  /\ result["hello"] = "none" => m_challenge = None
  /\ result["hello"] = "ok" => m_challenge = issued /\ ~Pending("hello")

\* The server answers a call once, so no two messages answer the same call.
AnswerInv ==
  /\ \A i, j \in 1 .. Len(inbox) :
       inbox[i].re \in Calls /\ inbox[i].re = inbox[j].re => i = j
  /\ \A m \in Held : m.re \in Calls => \A i \in 1 .. Len(inbox) : inbox[i].re # m.re
  /\ cur # None /\ m_msg # None => cur.re # m_msg.re

\* Every message has an object of its own.
IdInv ==
  /\ \A i \in 1 .. Len(inbox) : inbox[i].id < sentCount /\ inbox[i].id \notin taken
  /\ \A i, j \in 1 .. Len(inbox) : inbox[i].id = inbox[j].id => i = j
  /\ \A n \in taken : n < sentCount
  /\ MessageOwnership

Inv == /\ DataTypeOK /\ ControlInv /\ LockDiscipline /\ EntriesLive
       /\ ResponseInv /\ MessageInv /\ RequestInv /\ AnswerInv /\ IdInv
-----------------------------------------------------------------------------
(* Each part of the invariant is preserved by every step. *)

LEMMA ControlStep == DataTypeOK /\ ControlInv /\ [Next]_vars => ControlInv'
<1> SUFFICES ASSUME DataTypeOK /\ ControlInv, [Next]_vars PROVE ControlInv'
  OBVIOUS
<1> USE DEF DataTypeOK, HandleTypeOK, ControlInv, SeqOf, Begun, InCall, Calls,
           handle, table, reader, network, server, vars
<1>1. CASE TcpSocketDidOpen
  BY <1>1, NoneAssumption DEF TcpSocketDidOpen
<1>2. CASE RegisterLock
  BY <1>2, SeqLimitAssumption, NoneAssumption DEF RegisterLock, Begin, NextSeq
<1>3. CASE SendAuth
  BY <1>3, SeqLimitAssumption, NoneAssumption DEF SendAuth, Begin, NextSeq
<1>4. CASE SendMessage
  BY <1>4 DEF SendMessage
<1>5. CASE SendMessageFails
  BY <1>5, NoneAssumption DEF SendMessageFails
<1>6. CASE GetWaits
  BY <1>6, NoneAssumption DEF GetWaits, Looks
<1>7. CASE GetReturns
  BY <1>7, NoneAssumption DEF GetReturns, Looks, AfterCall, Outcome
<1>8. CASE RegisterEnds
  BY <1>8 DEF RegisterEnds
<1>9. CASE DeadlinePasses
  BY <1>9 DEF DeadlinePasses
<1>10. CASE SpuriousWakeup
  BY <1>10 DEF SpuriousWakeup
<1>11. CASE ReadMessage
  BY <1>11 DEF ReadMessage
<1>12. CASE ReadMessageFails
  BY <1>12 DEF ReadMessageFails
<1>13. CASE ReadMessageSpins
  BY <1>13 DEF ReadMessageSpins
<1>14. CASE SetResponse
  BY <1>14 DEF SetResponse, Notified
<1>15. CASE LookupMisses
  BY <1>15 DEF LookupMisses
<1>16. CASE ProcessMessage
  BY <1>16 DEF ProcessMessage
<1>17. CASE ServerAnswers
  BY <1>17 DEF ServerAnswers
<1>18. CASE ServerPushes
  BY <1>18 DEF ServerPushes
<1>19. CASE ConnectionDrops
  BY <1>19 DEF ConnectionDrops
<1>20. CASE UNCHANGED vars
  BY <1>20
<1> QED
  BY <1>1, <1>2, <1>3, <1>4, <1>5, <1>6, <1>7, <1>8, <1>9, <1>10, <1>11, <1>12,
     <1>13, <1>14, <1>15, <1>16, <1>17, <1>18, <1>19, <1>20
     DEF Next, HandleThread, ReadThread, Environment, Stopped

LEMMA LockStep == DataTypeOK /\ LockDiscipline /\ [Next]_vars => LockDiscipline'
<1> SUFFICES ASSUME DataTypeOK /\ LockDiscipline, [Next]_vars PROVE LockDiscipline'
  OBVIOUS
<1> USE DEF DataTypeOK, HandleTypeOK, LockDiscipline, handle, table, reader, network, server, vars
<1>1. CASE TcpSocketDidOpen
  BY <1>1 DEF TcpSocketDidOpen
<1>2. CASE RegisterLock
  BY <1>2 DEF RegisterLock, Begin
<1>3. CASE SendAuth
  BY <1>3 DEF SendAuth, Begin
<1>4. CASE SendMessage
  BY <1>4 DEF SendMessage
<1>5. CASE SendMessageFails
  BY <1>5 DEF SendMessageFails
<1>6. CASE GetWaits
  BY <1>6 DEF GetWaits, Looks
<1>7. CASE GetReturns
  BY <1>7 DEF GetReturns, Looks, AfterCall
<1>8. CASE RegisterEnds
  BY <1>8 DEF RegisterEnds
<1>9. CASE DeadlinePasses
  BY <1>9 DEF DeadlinePasses
<1>10. CASE SpuriousWakeup
  BY <1>10 DEF SpuriousWakeup
<1>11. CASE ReadMessage
  BY <1>11 DEF ReadMessage
<1>12. CASE ReadMessageFails
  BY <1>12 DEF ReadMessageFails
<1>13. CASE ReadMessageSpins
  BY <1>13 DEF ReadMessageSpins
<1>14. CASE SetResponse
  BY <1>14 DEF SetResponse, Notified
<1>15. CASE LookupMisses
  BY <1>15 DEF LookupMisses
<1>16. CASE ProcessMessage
  BY <1>16 DEF ProcessMessage
<1>17. CASE ServerAnswers
  BY <1>17 DEF ServerAnswers
<1>18. CASE ServerPushes
  BY <1>18 DEF ServerPushes
<1>19. CASE ConnectionDrops
  BY <1>19 DEF ConnectionDrops
<1>20. CASE UNCHANGED vars
  BY <1>20
<1> QED
  BY <1>1, <1>2, <1>3, <1>4, <1>5, <1>6, <1>7, <1>8, <1>9, <1>10, <1>11, <1>12,
     <1>13, <1>14, <1>15, <1>16, <1>17, <1>18, <1>19, <1>20
     DEF Next, HandleThread, ReadThread, Environment, Stopped

LEMMA EntriesStep == DataTypeOK /\ EntriesLive /\ [Next]_vars => EntriesLive'
<1> SUFFICES ASSUME DataTypeOK /\ EntriesLive, [Next]_vars PROVE EntriesLive'
  OBVIOUS
<1> USE DEF DataTypeOK, HandleTypeOK, EntriesLive, InCall, handle, table, reader, network, server, vars
<1>1. CASE TcpSocketDidOpen
  BY <1>1 DEF TcpSocketDidOpen
<1>2. CASE RegisterLock
  BY <1>2 DEF RegisterLock, Begin
<1>3. CASE SendAuth
  BY <1>3 DEF SendAuth, Begin
<1>4. CASE SendMessage
  BY <1>4 DEF SendMessage
<1>5. CASE SendMessageFails
  BY <1>5 DEF SendMessageFails, Erase, Restrict
<1>6. CASE GetWaits
  BY <1>6 DEF GetWaits, Looks
<1>7. CASE GetReturns
  BY <1>7 DEF GetReturns, Looks, Erase, Restrict
<1>8. CASE RegisterEnds
  BY <1>8 DEF RegisterEnds
<1>9. CASE DeadlinePasses
  BY <1>9 DEF DeadlinePasses
<1>10. CASE SpuriousWakeup
  BY <1>10 DEF SpuriousWakeup
<1>11. CASE ReadMessage
  BY <1>11 DEF ReadMessage
<1>12. CASE ReadMessageFails
  BY <1>12 DEF ReadMessageFails
<1>13. CASE ReadMessageSpins
  BY <1>13 DEF ReadMessageSpins
<1>14. CASE SetResponse
  BY <1>14 DEF SetResponse, Notified
<1>15. CASE LookupMisses
  BY <1>15 DEF LookupMisses
<1>16. CASE ProcessMessage
  BY <1>16 DEF ProcessMessage
<1>17. CASE ServerAnswers
  BY <1>17 DEF ServerAnswers
<1>18. CASE ServerPushes
  BY <1>18 DEF ServerPushes
<1>19. CASE ConnectionDrops
  BY <1>19 DEF ConnectionDrops
<1>20. CASE UNCHANGED vars
  BY <1>20
<1> QED
  BY <1>1, <1>2, <1>3, <1>4, <1>5, <1>6, <1>7, <1>8, <1>9, <1>10, <1>11, <1>12,
     <1>13, <1>14, <1>15, <1>16, <1>17, <1>18, <1>19, <1>20
     DEF Next, HandleThread, ReadThread, Environment, Stopped

\* The answer the reader hands over is the waiting call's own, and the first.
LEMMA SetFacts ==
  ASSUME Inv, SetResponse
  PROVE  /\ cur \in GoodMessages /\ cur # None
         /\ InCall /\ cur.re = call /\ m_msg = None
<1>1. cur \in GoodMessages /\ cur # None /\ cur.seq # None
  BY NoneAssumption DEF SetResponse, Inv, DataTypeOK, ReaderTypeOK, MessageInv
<1>2. InCall /\ cur.seq = m_seq
  BY DEF SetResponse, Waiting, Inv, EntriesLive
<1>3. call \in Calls /\ m_seq = SeqOf(call)
  BY <1>2, NoneAssumption DEF Inv, DataTypeOK, HandleTypeOK, InCall, ControlInv
<1>4. cur.re = call
  BY <1>1, <1>2, <1>3 DEF GoodMessages, SeqOf, Calls
<1>5. m_msg = None
  BY <1>1, <1>4 DEF Inv, AnswerInv, ResponseInv, OwnAnswer
<1> QED
  BY <1>1, <1>2, <1>4, <1>5

LEMMA ResponseStep == Inv /\ [Next]_vars => ResponseInv'
<1> SUFFICES ASSUME Inv, [Next]_vars PROVE ResponseInv'
  OBVIOUS
<1> USE DEF Inv, DataTypeOK, HandleTypeOK, LockDiscipline, ResponseInv, OwnAnswer,
           InCall, handle, table, reader, network, server, vars
<1>1. CASE TcpSocketDidOpen
  BY <1>1 DEF TcpSocketDidOpen
<1>2. CASE RegisterLock
  BY <1>2 DEF RegisterLock, Begin
<1>3. CASE SendAuth
  BY <1>3 DEF SendAuth, Begin
<1>4. CASE SendMessage
  BY <1>4 DEF SendMessage
<1>5. CASE SendMessageFails
  BY <1>5 DEF SendMessageFails
<1>6. CASE GetWaits
  BY <1>6 DEF GetWaits, Looks, Ready
<1>7. CASE GetReturns
  BY <1>7 DEF GetReturns, Looks, AfterCall
<1>8. CASE RegisterEnds
  BY <1>8 DEF RegisterEnds
<1>9. CASE DeadlinePasses
  BY <1>9 DEF DeadlinePasses
<1>10. CASE SpuriousWakeup
  BY <1>10 DEF SpuriousWakeup
<1>11. CASE ReadMessage
  BY <1>11 DEF ReadMessage
<1>12. CASE ReadMessageFails
  BY <1>12 DEF ReadMessageFails
<1>13. CASE ReadMessageSpins
  BY <1>13 DEF ReadMessageSpins
<1>14. CASE SetResponse
  BY <1>14, SetFacts DEF SetResponse, Notified
<1>15. CASE LookupMisses
  BY <1>15 DEF LookupMisses
<1>16. CASE ProcessMessage
  BY <1>16 DEF ProcessMessage
<1>17. CASE ServerAnswers
  BY <1>17 DEF ServerAnswers
<1>18. CASE ServerPushes
  BY <1>18 DEF ServerPushes
<1>19. CASE ConnectionDrops
  BY <1>19 DEF ConnectionDrops
<1>20. CASE UNCHANGED vars
  BY <1>20
<1> QED
  BY <1>1, <1>2, <1>3, <1>4, <1>5, <1>6, <1>7, <1>8, <1>9, <1>10, <1>11, <1>12,
     <1>13, <1>14, <1>15, <1>16, <1>17, <1>18, <1>19, <1>20
     DEF Next, HandleThread, ReadThread, Environment, Stopped

\* A message that fits the state of the connection goes on to do so.
LEMMA GoodStable == Inv /\ [Next]_vars => GoodMessages \subseteq GoodMessages'
<1> SUFFICES ASSUME Inv, [Next]_vars PROVE GoodMessages \subseteq GoodMessages'
  OBVIOUS
<1> USE DEF Inv, GoodMessages, Pending, Begun, handle, table, reader, network, server, vars
<1>1. CASE TcpSocketDidOpen
  BY <1>1 DEF TcpSocketDidOpen
<1>2. CASE RegisterLock
  BY <1>2, NoneAssumption DEF RegisterLock, Begin, DataTypeOK, HandleTypeOK, Calls
<1>3. CASE SendAuth
  BY <1>3, NoneAssumption DEF SendAuth, Begin, DataTypeOK, HandleTypeOK, ControlInv, Calls
<1>4. CASE SendMessage
  BY <1>4 DEF SendMessage
<1>5. CASE SendMessageFails
  BY <1>5 DEF SendMessageFails
<1>6. CASE GetWaits
  BY <1>6 DEF GetWaits
<1>7. CASE GetReturns
  BY <1>7 DEF GetReturns, AfterCall
<1>8. CASE RegisterEnds
  BY <1>8 DEF RegisterEnds
<1>9. CASE DeadlinePasses
  BY <1>9 DEF DeadlinePasses
<1>10. CASE SpuriousWakeup
  BY <1>10 DEF SpuriousWakeup
<1>11. CASE ReadMessage
  BY <1>11 DEF ReadMessage
<1>12. CASE ReadMessageFails
  BY <1>12 DEF ReadMessageFails
<1>13. CASE ReadMessageSpins
  BY <1>13 DEF ReadMessageSpins
<1>14. CASE SetResponse
  BY <1>14 DEF SetResponse, Notified
<1>15. CASE LookupMisses
  BY <1>15 DEF LookupMisses
<1>16. CASE ProcessMessage
  BY <1>16 DEF ProcessMessage
<1>17. CASE ServerAnswers
  BY <1>17 DEF ServerAnswers, Send
<1>18. CASE ServerPushes
  BY <1>18 DEF ServerPushes
<1>19. CASE ConnectionDrops
  BY <1>19 DEF ConnectionDrops
<1>20. CASE UNCHANGED vars
  BY <1>20
<1> QED
  BY <1>1, <1>2, <1>3, <1>4, <1>5, <1>6, <1>7, <1>8, <1>9, <1>10, <1>11, <1>12,
     <1>13, <1>14, <1>15, <1>16, <1>17, <1>18, <1>19, <1>20
     DEF Next, HandleThread, ReadThread, Environment, Stopped

LEMMA MessageStep == Inv /\ [Next]_vars => MessageInv'
<1> SUFFICES ASSUME Inv, [Next]_vars PROVE MessageInv'
  OBVIOUS
<1>0. GoodMessages \subseteq GoodMessages'
  BY GoodStable
<1>1. CASE ReadMessage
  <2>1. /\ inbox # <<>> /\ inbox \in Seq(Message)
        /\ \A i \in 1 .. Len(inbox) : inbox[i] \in GoodMessages
        /\ inbox' = Tail(inbox) /\ cur' = Head(inbox) /\ m_msg' = m_msg
        /\ rpc' = IF Head(inbox).seq # None THEN "lookup" ELSE "dispatch"
    BY <1>1 DEF ReadMessage, Inv, DataTypeOK, NetworkTypeOK, MessageInv, table
  <2>2. /\ cur' \in GoodMessages
        /\ \A i \in 1 .. Len(inbox') : inbox'[i] \in GoodMessages
    BY <2>1, TailType
  <2>3. m_msg' \in GoodMessages \cup {None}
    BY <2>1 DEF Inv, MessageInv
  <2>4. rpc' = "lookup" => cur'.seq # None
    BY <2>1
  <2> QED
    BY <1>0, <2>2, <2>3, <2>4 DEF MessageInv
<1>2. CASE ServerAnswers
  <2>1. PICK q \in toServer, v \in Verdicts, ch \in Challenges \cup {None} :
          /\ Send([id |-> sentCount, seq |-> q.seq, re |-> q.call,
                   says |-> v, challenge |-> ch])
          /\ toServer' = toServer \ {q}
          /\ accepted' = IF v = "ok" THEN accepted \cup {q.call} ELSE accepted
          /\ issued' = IF q.call = "hello" /\ v = "ok" THEN ch ELSE issued
    BY <1>2 DEF ServerAnswers
  <2> DEFINE m == [id |-> sentCount, seq |-> q.seq, re |-> q.call, says |-> v,
                   challenge |-> ch]
  <2>2. m \in Message /\ q \in Request /\ q.seq # None
    BY NoneAssumption DEF Inv, DataTypeOK, NetworkTypeOK, Message, Request, Seqs
  <2>3. ~Pending(q.call)'
    <3>1. \A r \in toServer : r.call = q.call => r = q
      BY DEF Inv, DataTypeOK, NetworkTypeOK, RequestInv, Request
    <3> QED
      BY <1>2, <2>1, <3>1 DEF ServerAnswers, Pending, Inv, RequestInv, handle
  <2>4. Begun(q.call)' /\ q.call \in Calls /\ q.seq = SeqOf(q.call)
    BY <1>2, <2>2 DEF ServerAnswers, Inv, RequestInv, Begun, handle, Request
  <2>5. m \in GoodMessages'
    BY <2>1, <2>2, <2>3, <2>4 DEF GoodMessages, Begun
  <2>6. inbox' = Append(inbox, m) /\ UNCHANGED <<cur, rpc, m_msg>>
    BY <1>2, <2>1 DEF ServerAnswers, Send, reader, table
  <2> HIDE DEF m
  <2>7. \A i \in 1 .. Len(inbox') : inbox'[i] \in GoodMessages'
    BY <1>0, <2>2, <2>5, <2>6, AppendProperties
       DEF Inv, DataTypeOK, NetworkTypeOK, MessageInv
  <2> QED
    BY <1>0, <2>6, <2>7 DEF MessageInv, Inv
<1>3. CASE ServerPushes
  <2> DEFINE m == [id |-> sentCount, seq |-> None, re |-> None,
                   says |-> "push", challenge |-> None]
  <2>1. m \in Message
    BY DEF Inv, DataTypeOK, NetworkTypeOK, Message
  <2>2. m \in GoodMessages'
    BY <2>1, NoneAssumption DEF GoodMessages, Calls
  <2>3. inbox' = Append(inbox, m) /\ UNCHANGED <<cur, rpc, m_msg>>
    BY <1>3 DEF ServerPushes, Send, reader, table
  <2> HIDE DEF m
  <2>4. \A i \in 1 .. Len(inbox') : inbox'[i] \in GoodMessages'
    BY <1>0, <2>1, <2>2, <2>3, AppendProperties
       DEF Inv, DataTypeOK, NetworkTypeOK, MessageInv
  <2> QED
    BY <1>0, <2>3, <2>4 DEF MessageInv, Inv
<1>4. CASE ConnectionDrops
  <2>1. PICK n \in 0 .. Len(inbox) : inbox' = SubSeq(inbox, 1, n)
    BY <1>4 DEF ConnectionDrops
  <2>2. UNCHANGED <<cur, rpc, m_msg>>
    BY <1>4 DEF ConnectionDrops, reader, table
  <2>3. \A i \in 1 .. Len(inbox') : inbox'[i] \in GoodMessages
    BY <2>1, PrefixType DEF Inv, DataTypeOK, NetworkTypeOK, MessageInv
  <2> QED
    BY <1>0, <2>2, <2>3 DEF MessageInv, Inv
<1>5. CASE SetResponse
  BY <1>0, <1>5 DEF SetResponse, MessageInv, Inv, network
<1>6. CASE ProcessMessage
  BY <1>0, <1>6 DEF ProcessMessage, MessageInv, Inv, table, network
<1>7. CASE GetReturns
  BY <1>0, <1>7 DEF GetReturns, MessageInv, Inv, reader, network
<1>8. CASE UNCHANGED <<inbox, cur, m_msg>> /\ (rpc' = "lookup" => rpc = "lookup")
  BY <1>0, <1>8 DEF MessageInv, Inv
<1>9. CASE RegisterLock \/ SendAuth
  BY <1>0, <1>9 DEF RegisterLock, SendAuth, Begin, MessageInv, Inv, reader, network
<1> QED
  BY <1>1, <1>2, <1>3, <1>4, <1>5, <1>6, <1>7, <1>8, <1>9
     DEF Next, HandleThread, ReadThread, Environment, Stopped, TcpSocketDidOpen,
         SendMessage, SendMessageFails, GetWaits, RegisterEnds, DeadlinePasses,
         SpuriousWakeup, ReadMessageFails, ReadMessageSpins, LookupMisses,
         handle, table, reader, network, vars

LEMMA RequestStep == Inv /\ [Next]_vars => RequestInv'
<1> SUFFICES ASSUME Inv, [Next]_vars PROVE RequestInv'
  OBVIOUS
<1> USE DEF RequestInv, Begun, Pending
<1>1. CASE RegisterLock
  BY <1>1, NoneAssumption DEF RegisterLock, Begin, Inv, DataTypeOK, NetworkTypeOK,
       HandleTypeOK, ControlInv, Request, Calls, server
<1>2. CASE SendAuth
  BY <1>2, NoneAssumption DEF SendAuth, Begin, Inv, DataTypeOK, NetworkTypeOK,
       HandleTypeOK, ControlInv, Request, Calls, server
<1>3. CASE SendMessage
  <2>1. /\ toServer' = toServer \cup {[seq |-> m_seq, call |-> call, digest |-> m_challenge]}
        /\ hpc = "write" /\ hpc' = "get"
        /\ UNCHANGED <<call, m_challenge, issued, result>>
    BY <1>3 DEF SendMessage
  <2>2. /\ call \in Calls /\ m_seq = SeqOf(call) /\ InCall
        /\ call = "authenticate" => result["hello"] = "ok"
        /\ call = "hello" => result["hello"] = "none"
    BY <2>1, NoneAssumption DEF Inv, DataTypeOK, HandleTypeOK, ControlInv, InCall
  <2>3. m_challenge = IF call = "hello" THEN None ELSE issued
    BY <2>2 DEF Inv, Calls
  <2> DEFINE r == [seq |-> m_seq, call |-> call, digest |-> m_challenge]
  <2>4. r.call = call /\ r.seq = SeqOf(call) /\ r.digest = m_challenge
    BY <2>2
  <2>5. \A q \in toServer' : q \in toServer \/ q = r
    BY <2>1
  <2> HIDE DEF r
  <2> QED
    BY <2>1, <2>2, <2>3, <2>4, <2>5, NoneAssumption DEF Inv, Calls
<1>4. CASE SendMessageFails
  BY <1>4 DEF SendMessageFails, Inv, DataTypeOK, HandleTypeOK, server
<1>5. CASE GetReturns
  <2>1. CASE call = "hello" /\ Outcome(Answer) = "ok"
    <3>1. /\ m_msg \in GoodMessages /\ m_msg.re = "hello" /\ m_msg.says = "ok"
      BY <2>1 DEF Outcome, Answer, Inv, MessageInv, ResponseInv, OwnAnswer
    <3>2. m_msg.challenge = issued /\ ~Pending("hello")
      BY <3>1 DEF GoodMessages, Calls
    <3>3. result["hello"] = "none" /\ m_challenge = None
      BY <1>5, <2>1 DEF GetReturns, Looks, Inv, ControlInv, InCall
    <3>4. m_challenge' = issued
      BY <1>5, <2>1, <3>1, <3>2, <3>3 DEF GetReturns, StoredChallenge, Answer
    <3>5. result'["hello"] = "ok" /\ hpc' = "auth"
      BY <1>5, <2>1 DEF GetReturns, AfterCall, Inv, DataTypeOK, HandleTypeOK, Calls
    <3>6. UNCHANGED <<call, toServer, issued>>
      BY <1>5 DEF GetReturns, server
    <3> QED
      BY <3>2, <3>4, <3>5, <3>6 DEF Inv
  <2>2. CASE ~(call = "hello" /\ Outcome(Answer) = "ok")
    BY <1>5, <2>2 DEF GetReturns, StoredChallenge, AfterCall, Outcome, Looks,
         Inv, DataTypeOK, HandleTypeOK, ControlInv, Calls, InCall, server
  <2> QED
    BY <2>1, <2>2
<1>6. CASE ServerAnswers
  <2>1. PICK q \in toServer, v \in Verdicts, ch \in Challenges \cup {None} :
          /\ toServer' = toServer \ {q}
          /\ issued' = IF q.call = "hello" /\ v = "ok" THEN ch ELSE issued
    BY <1>6 DEF ServerAnswers
  <2>2. UNCHANGED <<hpc, call, m_challenge, result>>
    BY <1>6 DEF ServerAnswers, handle
  <2>3. q.call = "hello" => call = "hello" /\ result["hello"] # "ok"
    BY DEF Inv, DataTypeOK, HandleTypeOK, ControlInv, Calls
  <2>4. q.call = "hello" => \A r \in toServer : r.call = "hello"
    BY <2>3 DEF Inv, DataTypeOK, NetworkTypeOK, Request, Calls
  <2> QED
    BY <2>1, <2>2, <2>3, <2>4 DEF Inv
<1>7. CASE /\ UNCHANGED <<call, result, m_challenge, toServer, issued>>
           /\ hpc' = "write" => hpc = "write"
  BY <1>7 DEF Inv
<1> QED
  BY <1>1, <1>2, <1>3, <1>4, <1>5, <1>6, <1>7
     DEF Next, HandleThread, ReadThread, Environment, Stopped, TcpSocketDidOpen,
         GetWaits, RegisterEnds, DeadlinePasses, SpuriousWakeup, ReadMessage,
         ReadMessageFails, ReadMessageSpins, SetResponse, Notified, LookupMisses,
         ProcessMessage, ServerPushes, ConnectionDrops,
         handle, table, reader, network, server, vars

LEMMA AnswerStep == Inv /\ [Next]_vars => AnswerInv'
<1> SUFFICES ASSUME Inv, [Next]_vars PROVE AnswerInv'
  OBVIOUS
<1>0. inbox \in Seq(Message) /\ AnswerInv
  BY DEF Inv, DataTypeOK, NetworkTypeOK
<1>1. CASE ReadMessage
  <2>1. /\ inbox # <<>> /\ inbox' = Tail(inbox) /\ cur' = Head(inbox)
        /\ cur = None /\ m_msg' = m_msg
    BY <1>1 DEF ReadMessage, Inv, DataTypeOK, ReaderTypeOK, table
  <2>2. m_msg # None => m_msg.re \in Calls
    BY NoneAssumption DEF Inv, ResponseInv, OwnAnswer, DataTypeOK, HandleTypeOK, InCall
  <2> QED
    BY <1>0, <2>1, <2>2, TailType DEF AnswerInv, Held
<1>2. CASE ServerAnswers
  <2>1. PICK q \in toServer, v \in Verdicts, ch \in Challenges \cup {None} :
          Send([id |-> sentCount, seq |-> q.seq, re |-> q.call, says |-> v,
                challenge |-> ch])
    BY <1>2 DEF ServerAnswers
  <2> DEFINE m == [id |-> sentCount, seq |-> q.seq, re |-> q.call, says |-> v,
                   challenge |-> ch]
  <2>2. m \in Message /\ m.re = q.call
    BY DEF Inv, DataTypeOK, NetworkTypeOK, Message, Request
  <2>3. inbox' = Append(inbox, m) /\ UNCHANGED <<cur, m_msg>>
    BY <1>2, <2>1 DEF ServerAnswers, Send, reader, table
  <2>4. \A g \in GoodMessages : g.re \in Calls => g.re # q.call
    BY DEF GoodMessages, Pending
  <2> HIDE DEF m
  <2>5. /\ \A i \in 1 .. Len(inbox) : inbox[i].re \in Calls => inbox[i].re # m.re
        /\ \A g \in Held : g.re \in Calls => g.re # m.re
    BY <2>2, <2>4 DEF Inv, MessageInv, Held
  <2> QED
    BY <1>0, <2>2, <2>3, <2>5, AppendProperties DEF AnswerInv, Held
<1>3. CASE ServerPushes
  <2> DEFINE m == [id |-> sentCount, seq |-> None, re |-> None,
                   says |-> "push", challenge |-> None]
  <2>1. m \in Message /\ m.re \notin Calls
    BY NoneAssumption DEF Inv, DataTypeOK, NetworkTypeOK, Message
  <2>2. inbox' = Append(inbox, m) /\ UNCHANGED <<cur, m_msg>>
    BY <1>3 DEF ServerPushes, Send, reader, table
  <2> HIDE DEF m
  <2> QED
    BY <1>0, <2>1, <2>2, AppendProperties DEF AnswerInv, Held
<1>4. CASE ConnectionDrops
  <2>1. PICK n \in 0 .. Len(inbox) : inbox' = SubSeq(inbox, 1, n)
    BY <1>4 DEF ConnectionDrops
  <2>2. UNCHANGED <<cur, m_msg>>
    BY <1>4 DEF ConnectionDrops, reader, table
  <2> QED
    BY <1>0, <2>1, <2>2, PrefixType DEF AnswerInv, Held
<1>5. CASE SetResponse
  <2>1. m_msg' = cur /\ cur' = None /\ m_msg = None /\ cur # None /\ inbox' = inbox
    BY <1>5, SetFacts DEF SetResponse, network
  <2> QED
    BY <1>0, <2>1 DEF AnswerInv, Held
<1>6. CASE ProcessMessage \/ GetReturns \/ RegisterLock \/ SendAuth
  <2>1. inbox' = inbox /\ cur' \in {cur, None} /\ m_msg' \in {m_msg, None}
    BY <1>6 DEF ProcessMessage, GetReturns, RegisterLock, SendAuth, Begin, table,
                reader, network
  <2> QED
    BY <1>0, <2>1 DEF AnswerInv, Held
<1>7. CASE UNCHANGED <<inbox, cur, m_msg>>
  BY <1>0, <1>7 DEF AnswerInv, Held
<1> QED
  BY <1>1, <1>2, <1>3, <1>4, <1>5, <1>6, <1>7
     DEF Next, HandleThread, ReadThread, Environment, Stopped, TcpSocketDidOpen,
         SendMessage, SendMessageFails, GetWaits, RegisterEnds, DeadlinePasses,
         SpuriousWakeup, ReadMessageFails, ReadMessageSpins, LookupMisses,
         handle, table, reader, network, vars

LEMMA IdStep == Inv /\ [Next]_vars => IdInv'
<1> SUFFICES ASSUME Inv, [Next]_vars PROVE IdInv'
  OBVIOUS
<1>0. /\ inbox \in Seq(Message) /\ sentCount \in Nat
      /\ taken \in SUBSET Nat /\ freed \in SUBSET Nat /\ IdInv
  BY DEF Inv, DataTypeOK, NetworkTypeOK, ReaderTypeOK
<1>1. CASE ReadMessage
  <2>1. /\ inbox # <<>> /\ inbox' = Tail(inbox) /\ cur' = Head(inbox)
        /\ cur = None /\ taken' = taken \cup {Head(inbox).id}
        /\ UNCHANGED <<m_msg, freed, sentCount>>
    BY <1>1 DEF ReadMessage, Inv, DataTypeOK, ReaderTypeOK, table, server
  <2>2. /\ Head(inbox) = inbox[1] /\ Head(inbox) \in Message /\ Len(inbox) > 0
        /\ Len(inbox') = Len(inbox) - 1
        /\ \A i \in 1 .. Len(inbox') : inbox'[i] = inbox[i + 1]
    BY <1>0, <2>1, TailType
  <2>3. Head(inbox) # None
    BY <2>2, NoneAssumption
  <2>4. Head(inbox).id \notin taken /\ Head(inbox).id < sentCount
    BY <1>0, <2>2 DEF IdInv
  <2>5. MessageOwnership'
    BY <1>0, <2>1, <2>3, <2>4 DEF IdInv, MessageOwnership, Held
  <2>6. \A i \in 1 .. Len(inbox') : /\ inbox'[i].id < sentCount
                                   /\ inbox'[i].id \notin taken'
    BY <1>0, <2>1, <2>2 DEF IdInv
  <2>7. \A i, j \in 1 .. Len(inbox') : inbox'[i].id = inbox'[j].id => i = j
    BY <1>0, <2>2 DEF IdInv
  <2> QED
    BY <1>0, <2>1, <2>4, <2>5, <2>6, <2>7 DEF IdInv
<1>2. CASE ServerAnswers \/ ServerPushes
  <2>1. /\ \E m \in Message : m.id = sentCount /\ inbox' = Append(inbox, m)
        /\ sentCount' = sentCount + 1
        /\ UNCHANGED <<cur, m_msg, taken, freed>>
    <3>1. CASE ServerAnswers
      <4>1. PICK q \in toServer, v \in Verdicts, ch \in Challenges \cup {None} :
              Send([id |-> sentCount, seq |-> q.seq, re |-> q.call,
                    says |-> v, challenge |-> ch])
        BY <3>1 DEF ServerAnswers
      <4>2. [id |-> sentCount, seq |-> q.seq, re |-> q.call, says |-> v,
             challenge |-> ch] \in Message
        BY DEF Inv, DataTypeOK, NetworkTypeOK, Message, Request
      <4> QED
        BY <3>1, <4>1, <4>2 DEF ServerAnswers, Send, reader, table
    <3>2. CASE ServerPushes
      <4>1. [id |-> sentCount, seq |-> None, re |-> None, says |-> "push",
             challenge |-> None] \in Message
        BY <1>0 DEF Message
      <4> QED
        BY <3>2, <4>1 DEF ServerPushes, Send, reader, table
    <3> QED
      BY <1>2, <3>1, <3>2
  <2>2. PICK m \in Message : m.id = sentCount /\ inbox' = Append(inbox, m)
    BY <2>1
  <2>3. sentCount \notin taken
    BY <1>0 DEF IdInv
  <2>4. MessageOwnership'
    BY <1>0, <2>1 DEF IdInv, MessageOwnership, Held
  <2>5. \A i \in 1 .. Len(inbox') :
          IF i = Len(inbox) + 1 THEN inbox'[i] = m
          ELSE i \in 1 .. Len(inbox) /\ inbox'[i] = inbox[i]
    BY <1>0, <2>2, AppendProperties
  <2>6. \A i \in 1 .. Len(inbox) : inbox[i].id \in Nat
    <3>1. \A g \in Message : g.id \in Nat
      BY DEF Message
    <3> QED
      BY <1>0, <3>1
  <2> QED
    BY <1>0, <2>1, <2>2, <2>3, <2>4, <2>5, <2>6 DEF IdInv
<1>3. CASE ConnectionDrops
  <2>1. PICK n \in 0 .. Len(inbox) : inbox' = SubSeq(inbox, 1, n)
    BY <1>3 DEF ConnectionDrops
  <2>2. UNCHANGED <<cur, m_msg, taken, freed, sentCount>>
    BY <1>3 DEF ConnectionDrops, reader, table, server
  <2>3. MessageOwnership'
    BY <1>0, <2>2 DEF IdInv, MessageOwnership, Held
  <2>4. /\ Len(inbox') \in 0 .. Len(inbox)
        /\ \A i \in 1 .. Len(inbox') : i \in 1 .. Len(inbox) /\ inbox'[i] = inbox[i]
    BY <1>0, <2>1, PrefixType
  <2> QED
    BY <1>0, <2>2, <2>3, <2>4 DEF IdInv
<1>4. CASE SetResponse
  <2>1. m_msg' = cur /\ cur' = None /\ m_msg = None /\ cur # None
    BY <1>4, SetFacts DEF SetResponse
  <2>2. UNCHANGED <<inbox, taken, freed, sentCount>>
    BY <1>4 DEF SetResponse, network, server
  <2> QED
    BY <1>0, <2>1, <2>2 DEF IdInv, MessageOwnership, Held
<1>5. CASE ProcessMessage
  <2>1. cur # None /\ cur' = None /\ freed' = freed \cup {cur.id}
    BY <1>5, NoneAssumption DEF ProcessMessage, Inv, DataTypeOK, ReaderTypeOK
  <2>2. UNCHANGED <<inbox, m_msg, taken, sentCount>>
    BY <1>5 DEF ProcessMessage, table, network, server
  <2> QED
    BY <1>0, <2>1, <2>2 DEF IdInv, MessageOwnership, Held
<1>6. CASE GetReturns
  <2>1. /\ m_msg' = None
        /\ freed' = IF m_msg = None THEN freed ELSE freed \cup {m_msg.id}
        /\ UNCHANGED <<inbox, cur, taken, sentCount>>
    BY <1>6 DEF GetReturns, Answer, reader, network, server
  <2> QED
    BY <1>0, <2>1 DEF IdInv, MessageOwnership, Held
<1>7. CASE RegisterLock \/ SendAuth
  <2>1. m_msg = None /\ m_msg' = None
    BY <1>7 DEF RegisterLock, SendAuth, Begin, Inv, ResponseInv, OwnAnswer, InCall
  <2>2. UNCHANGED <<inbox, cur, taken, freed, sentCount>>
    BY <1>7 DEF RegisterLock, SendAuth, reader, network, server
  <2> QED
    BY <1>0, <2>1, <2>2 DEF IdInv, MessageOwnership, Held
<1>8. CASE UNCHANGED <<inbox, cur, m_msg, taken, freed, sentCount>>
  BY <1>0, <1>8 DEF IdInv, MessageOwnership, Held
<1> QED
  BY <1>1, <1>2, <1>3, <1>4, <1>5, <1>6, <1>7, <1>8
     DEF Next, HandleThread, ReadThread, Environment, Stopped, TcpSocketDidOpen,
         SendMessage, SendMessageFails, GetWaits, RegisterEnds, DeadlinePasses,
         SpuriousWakeup, ReadMessageFails, ReadMessageSpins, LookupMisses,
         handle, table, reader, network, server, vars
-----------------------------------------------------------------------------
\* Inv holds in every state the connection can reach.
THEOREM Invariance == Safety => []Inv
<1>1. Init /\ DataTypeOK => Inv
  <2> SUFFICES ASSUME Init, DataTypeOK PROVE Inv
    OBVIOUS
  <2>1. ControlInv /\ LockDiscipline /\ EntriesLive
    BY NoneAssumption DEF Init, ControlInv, Begun, InCall, LockDiscipline, EntriesLive,
                          Calls
  <2>2. ResponseInv
    BY DEF Init, ResponseInv, OwnAnswer
  <2>3. MessageInv /\ RequestInv
    BY NoneAssumption DEF Init, MessageInv, RequestInv, Calls
  <2>4. AnswerInv /\ IdInv
    BY DEF Init, AnswerInv, IdInv, MessageOwnership, Held
  <2> QED
    BY <2>1, <2>2, <2>3, <2>4 DEF Inv
<1>2. Inv /\ [Next]_vars /\ DataTypeOK' => Inv'
  BY ControlStep, LockStep, EntriesStep, ResponseStep, MessageStep, RequestStep,
     AnswerStep, IdStep DEF Inv
<1> QED
  BY <1>1, <1>2, DataTypeCorrect, PTL DEF Safety

\* The table of pending calls never points at a response object that is gone.
THEOREM PointersLive == Safety => []EntriesLive
<1>1. Inv => EntriesLive
  BY DEF Inv
<1> QED
  BY <1>1, Invariance, PTL

\* The mutex is held exactly where Register() neither waits nor is over.
THEOREM MutexDiscipline == Safety => []LockDiscipline
<1>1. Inv => LockDiscipline
  BY DEF Inv
<1> QED
  BY <1>1, Invariance, PTL

\* A call only ever finds the answer to itself.
THEOREM AnswersMatch == Safety => []OwnAnswer
<1>1. Inv => OwnAnswer
  BY DEF Inv, ResponseInv
<1> QED
  BY <1>1, Invariance, PTL

\* No message leaks and none is freed twice or while in use.
THEOREM MessagesOwned == Safety => []MessageOwnership
<1>1. Inv => MessageOwnership
  BY DEF Inv, IdInv
<1> QED
  BY <1>1, Invariance, PTL

\* A notification is never missed.
THEOREM WakeupsArrive == Safety => []NoMissedWakeup
<1>1. Inv => NoMissedWakeup
  BY DEF Inv, ResponseInv, NoMissedWakeup
<1> QED
  BY <1>1, Invariance, PTL

\* The server gets a login made with the challenge it issued.
THEOREM LoginsFresh == Safety => []DigestFresh
<1>1. Inv => DigestFresh
  BY DEF Inv, RequestInv, DigestFresh
<1> QED
  BY <1>1, Invariance, PTL

\* An answer that made it to the response object decides the call, even if
\* the deadline is over when the waiting thread gets the mutex.
THEOREM AnswersDecide == Safety => AnswerNotLost
<1>1. Inv /\ [Next]_vars =>
        [\A c \in Calls : result[c] = "none" /\ result'[c] = "failed"
                           => ~(m_flag /\ m_msg.says = "ok")]_vars
  <2> SUFFICES ASSUME Inv, [Next]_vars, NEW c \in Calls,
                      result[c] = "none", result'[c] = "failed",
                      m_flag, m_msg.says = "ok"
               PROVE  FALSE
    OBVIOUS
  <2>1. CASE GetReturns
    <3>1. m_msg # None
      BY DEF Inv, ResponseInv
    <3>2. result' = [result EXCEPT ![call] = "ok"]
      BY <2>1, <3>1 DEF GetReturns, Outcome, Answer
    <3> QED
      BY <3>2 DEF Inv, DataTypeOK, HandleTypeOK
  <2>2. CASE SendMessageFails
    BY <2>2 DEF SendMessageFails, Inv, ResponseInv
  <2>3. CASE result' = result
    BY <2>3
  <2> QED
    BY <2>1, <2>2, <2>3
       DEF Next, HandleThread, ReadThread, Environment, Stopped, TcpSocketDidOpen,
           RegisterLock, SendAuth, SendMessage, GetWaits, RegisterEnds,
           DeadlinePasses, SpuriousWakeup, ReadMessage, ReadMessageFails,
           ReadMessageSpins, SetResponse, LookupMisses, ProcessMessage,
           ServerAnswers, ServerPushes, ConnectionDrops, handle, vars
<1> QED
  BY <1>1, Invariance, PTL DEF Safety, AnswerNotLost
-----------------------------------------------------------------------------
(* Every step of the connection is a step of the handshake, or none.       *)

LEMMA SameCalls == Handshake!Calls = Calls
BY DEF Handshake!Calls, Calls

\* Steps that change neither the calls nor what the server accepted.
LEMMA Unchanged ==
  ASSUME UNCHANGED <<result, call, InCall, accepted>>
  PROVE  UNCHANGED Handshake!vars
BY DEF Handshake!vars, CallStatus

LEMMA BeginRefines ==
  ASSUME Inv, NEW c \in Calls, Begin(c), ~InCall, ~Begun(c), accepted' = accepted,
         c = "authenticate" => result["hello"] = "ok", result' = result
  PROVE  Handshake!Start(c)
<1>1. result[c] = "none" /\ CallStatus[c] = "idle"
  BY DEF Inv, ControlInv, CallStatus, Calls
<1>2. CallStatus' = [CallStatus EXCEPT ![c] = "pending"]
  <2>1. InCall' /\ call' = c
    BY DEF Begin, InCall
  <2> QED
    BY <1>1, <2>1 DEF CallStatus, Calls
<1>3. c = "authenticate" => CallStatus["hello"] = "ok"
  BY DEF CallStatus, Calls
<1> QED
  BY <1>1, <1>2, <1>3 DEF Handshake!Start

\* Safety of the refinement: HtspConnection implements HtspHandshake.
THEOREM ConnectionIsHandshake == Safety => Handshake!Safety
<1>1. Init => Handshake!Init
  BY DEF Init, Handshake!Init, Handshake!Calls, CallStatus, Calls, InCall
<1>2. Inv /\ [Next]_vars => [Handshake!Next]_Handshake!vars
  <2> SUFFICES ASSUME Inv, [Next]_vars PROVE [Handshake!Next]_Handshake!vars
    OBVIOUS
  <2>1. CASE RegisterLock
    <3>1. Handshake!Start("hello")
      BY <2>1, BeginRefines, NoneAssumption
         DEF RegisterLock, Inv, DataTypeOK, HandleTypeOK, InCall, Begun, Calls, server
    <3> QED
      BY <3>1, SameCalls DEF Handshake!Next, Calls
  <2>2. CASE SendAuth
    <3>1. Handshake!Start("authenticate")
      BY <2>2, BeginRefines
         DEF SendAuth, Inv, ControlInv, InCall, Begun, Calls, server
    <3> QED
      BY <3>1, SameCalls DEF Handshake!Next, Calls
  <2>3. CASE SendMessageFails
    <3>1. call \in Calls /\ InCall /\ ~InCall' /\ result[call] = "none"
      BY <2>3 DEF SendMessageFails, Inv, DataTypeOK, HandleTypeOK, ControlInv, InCall
    <3>2. /\ result' = [result EXCEPT ![call] = "failed"]
          /\ UNCHANGED <<call, accepted>>
      BY <2>3 DEF SendMessageFails, server
    <3>3. CallStatus[call] = "pending"
      BY <3>1 DEF CallStatus
    <3>4. CallStatus' = [CallStatus EXCEPT ![call] = "failed"]
      BY <3>1, <3>2 DEF CallStatus, Inv, DataTypeOK, HandleTypeOK
    <3> QED
      BY <3>1, <3>2, <3>3, <3>4, SameCalls DEF Handshake!Next, Handshake!Fail
  <2>4. CASE GetReturns
    <3>1. call \in Calls /\ InCall /\ ~InCall' /\ result[call] = "none"
      BY <2>4 DEF GetReturns, Looks, AfterCall, Inv, DataTypeOK, HandleTypeOK,
                  ControlInv, InCall
    <3>2. /\ result' = [result EXCEPT ![call] = Outcome(Answer)]
          /\ UNCHANGED <<call, accepted>>
      BY <2>4 DEF GetReturns, server
    <3>3. CallStatus[call] = "pending"
      BY <3>1 DEF CallStatus
    <3>4. CallStatus' = [CallStatus EXCEPT ![call] = Outcome(Answer)]
      BY <3>1, <3>2 DEF CallStatus, Outcome, Inv, DataTypeOK, HandleTypeOK
    <3>5. Outcome(Answer) = "ok" => call \in accepted
      BY DEF Outcome, Answer, Inv, MessageInv, GoodMessages, ResponseInv, OwnAnswer
    <3>6. Outcome(Answer) \in {"ok", "failed"}
      BY DEF Outcome
    <3> QED
      BY <3>1, <3>2, <3>3, <3>4, <3>5, <3>6, SameCalls
         DEF Handshake!Next, Handshake!Fail, Handshake!Succeed
  <2>5. CASE ServerAnswers
    <3>1. PICK q \in toServer :
            accepted' = accepted \cup {q.call} \/ accepted' = accepted
      BY <2>5 DEF ServerAnswers
    <3>2. UNCHANGED <<result, call, hpc>>
      BY <2>5 DEF ServerAnswers, handle
    <3>3. CallStatus' = CallStatus
      BY <3>2 DEF CallStatus, InCall
    <3>4. q.call \in Calls /\ CallStatus[q.call] # "idle"
      BY DEF Inv, DataTypeOK, HandleTypeOK, NetworkTypeOK, Request, RequestInv, Begun,
             ControlInv, CallStatus, Calls
    <3> QED
      BY <3>1, <3>3, <3>4, SameCalls
         DEF Handshake!Next, Handshake!Accept, Handshake!vars
  <2>6. CASE UNCHANGED <<result, call, InCall, accepted>>
    BY <2>6, Unchanged
  <2> QED
    BY <2>1, <2>2, <2>3, <2>4, <2>5, <2>6
       DEF Next, HandleThread, ReadThread, Environment, Stopped, TcpSocketDidOpen,
           SendMessage, GetWaits, Looks, RegisterEnds, DeadlinePasses,
           SpuriousWakeup, ReadMessage, ReadMessageFails, ReadMessageSpins,
           SetResponse, Notified, LookupMisses, ProcessMessage, ServerPushes,
           ConnectionDrops, InCall, handle, server, vars
<1> QED
  BY <1>1, <1>2, Invariance, PTL DEF Safety, Handshake!Safety
=============================================================================
