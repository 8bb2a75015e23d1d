-------------------------- MODULE UrlLoader_proofs --------------------------
(***************************************************************************)
(* Proofs about UrlLoader, for bodies and read buffers of every size.      *)
(***************************************************************************)
EXTENDS UrlLoader, SequenceLemmas

\* What is handed on are the next bytes of the body.
LEMMA ForwardedBytes ==
  ASSUME NEW n \in 1 .. READ_BUFFER_SIZE, TypeOK, arrived + n <= total
  PROVE  /\ Forwarded(n) = [k \in 1 .. n |-> arrived + k]
         /\ Forwarded(n) \in Seq(1 .. total)
  <1>1. NumBytes(n) = n
    BY BufferAssumption DEF NumBytes
  <1>2. arrived \in Nat /\ total \in Nat
    BY BoundsAssumption DEF TypeOK
  <1>3. Forwarded(n) \in [1 .. n -> 1 .. total]
    BY <1>1, <1>2, BufferAssumption DEF Forwarded
  <1>4. n \in Nat
    BY BufferAssumption
  <1> QED
    BY <1>1, <1>3, <1>4, SeqDef DEF Forwarded

\* A report adds a result to those that were posted.
LEMMA ReportType ==
  ASSUME NEW success \in BOOLEAN, NEW text,
         text \in Seq(1 .. total) \/ text = <<>>,
         posted \in Seq([success : BOOLEAN, text : Seq(1 .. total)]),
         ReportResultAndDie(success, text)
  PROVE  posted' \in Seq([success : BOOLEAN, text : Seq(1 .. total)])
  <1>1. text \in Seq(1 .. total)
    BY EmptySeq
  <1>2. [success |-> success, text |-> text]
          \in [success : BOOLEAN, text : Seq(1 .. total)]
    BY <1>1
  <1> QED
    BY <1>2, AppendProperties DEF ReportResultAndDie

\* What OnRead does at the end, for both of its callers.
LEMMA EndType ==
  ASSUME TypeOK, OnReadEnd
  PROVE  /\ posted' \in Seq([success : BOOLEAN, text : Seq(1 .. total)])
         /\ alive' = FALSE /\ buffer_' = FALSE /\ instance_' = instance_
         /\ callback' = "none" /\ UNCHANGED download
         /\ posted' = posted \/ Len(posted') = Len(posted) + 1
  <1>1. PICK result \in {0, -2} :
          ReportResultAndDie(Succeeds(result),
                             IF Succeeds(result) THEN url_response_body_ ELSE <<>>)
    BY DEF OnReadEnd
  <1>2. Succeeds(result) \in BOOLEAN /\ url_response_body_ \in Seq(1 .. total)
    BY DEF Succeeds, TypeOK
  <1>3. posted' \in Seq([success : BOOLEAN, text : Seq(1 .. total)])
    BY <1>1, <1>2, ReportType DEF TypeOK
  <1> QED
    BY <1>1, <1>3 DEF OnReadEnd, ReportResultAndDie, TypeOK

\* What more bytes do, in ReadBody and OnRead.
LEMMA BytesType ==
  ASSUME TypeOK, NEW n \in 1 .. READ_BUFFER_SIZE, AppendDataBytes(n)
  PROVE  /\ received' \in Seq(1 .. total) /\ arrived' \in 0 .. total
         /\ received' = received \o [k \in 1 .. n |-> arrived + k]
         /\ UNCHANGED <<total, url_response_body_>>
  <1>1. arrived \in Nat /\ total \in Nat
    BY BoundsAssumption DEF TypeOK
  <1>2. received' \in Seq(1 .. total)
    BY ForwardedBytes, ConcatProperties DEF AppendDataBytes, TypeOK
  <1>3. arrived' \in 0 .. total
    BY <1>1, BufferAssumption DEF AppendDataBytes
  <1> QED
    BY <1>2, <1>3, ForwardedBytes DEF AppendDataBytes

\* What there is to show of a step.
LEMMA TypeParts ==
  ASSUME TypeOK, frames' \in Seq(Places),
         callback' \in {"Start", "OnOpen", "OnRead", "none"},
         alive' \in BOOLEAN, buffer_' \in BOOLEAN, instance_' = instance_,
         total' = total, url_response_body_' = url_response_body_,
         arrived' \in 0 .. total, received' \in Seq(1 .. total),
         posted' \in Seq([success : BOOLEAN, text : Seq(1 .. total)])
  PROVE  TypeOK'
  <1>1. instance_' \in BOOLEAN
    BY DEF TypeOK
  <1>2. total' \in 0 .. MaxBody /\ arrived' \in 0 .. total'
    BY DEF TypeOK
  <1>3. {url_response_body_, received}' \subseteq Seq(1 .. total')
    BY DEF TypeOK
  <1>4. posted' \in Seq([success : BOOLEAN, text : Seq(1 .. total')])
    OBVIOUS
  <1> QED
    BY <1>1, <1>2, <1>3, <1>4 DEF TypeOK
-----------------------------------------------------------------------------
(* The functions on the stack.                                             *)

\* ReadBody is called by one function, which has only to return then, as have all
\* when everything is over.
Shape(fs) ==
  /\ fs \in Seq(Places) /\ Len(fs) <= 3
  /\ \A k \in 1 .. Len(fs) : fs[k] = "ReadBody" => k = 2 /\ Len(fs) = 2

FramesInv ==
  /\ Shape(frames)
  /\ Reading => alive /\ callback = "none"
  /\ ~alive => callback = "none"
  /\ alive => buffer_

LEMMA Shapes ==
  /\ Shape(<<>>) /\ Shape(<<"return">>) /\ Shape(<<"return", "ReadBody">>)
  /\ <<"return", "ReadBody">>[Len(<<"return", "ReadBody">>)] = "ReadBody"
  /\ <<"return">>[Len(<<"return">>)] = "return"
  <1>1. Shape(<<>>)
    BY EmptySeq DEF Shape, Places
  <1>2. Shape(<<"return">>)
    BY DEF Shape, Places
  <1>3. Shape(<<"return", "ReadBody">>)
    BY DEF Shape, Places
  <1> QED
    BY <1>1, <1>2, <1>3

\* What a step of ReadBody leaves on the stack.
LEMMA ReadBodySteps ==
  ASSUME FramesInv, Reading, NEW at \in Places, NEW more \in {<<>>, <<"return">>},
         at = "ReadBody" => more = <<>>, Goes(at, more)
  PROVE  Shape(frames') /\ (at = "return" => ~Reading')
  <1> DEFINE e == [frames EXCEPT ![Len(frames)] = at]
  <1>1. /\ frames \in Seq(Places) /\ Len(frames) = 2
        /\ \A k \in 1 .. Len(frames) : frames[k] = "ReadBody" => k = 2
    <2>1. frames \in Seq(Places) /\ Len(frames) \in Nat /\ Len(frames) # 0
      BY LenProperties, EmptySeq DEF FramesInv, Shape, Reading
    <2>2. Len(frames) \in 1 .. Len(frames)
      BY <2>1
    <2> QED
      BY <2>1, <2>2 DEF FramesInv, Shape, Reading
  <1>2. frames[1] = "return"
    BY <1>1, ElementOfSeq DEF Places
  <1>3. /\ e \in Seq(Places) /\ Len(e) = 2 /\ e[1] = "return" /\ e[2] = at
    BY <1>1, <1>2, ExceptSeq
  <1> HIDE DEF e
  <1>4. frames' = e \o more
    BY DEF Goes, e
  <1>5. CASE more = <<>>
    <2>1. frames' = e
      BY <1>3, <1>4, <1>5, ConcatEmptySeq
    <2>2. \A k \in 1 .. Len(e) : k = 1 \/ k = 2
      BY <1>3
    <2>3. Shape(e)
      BY <1>3, <2>2 DEF Shape
    <2>4. at = "return" => ~Reading'
      BY <1>3, <2>1 DEF Reading
    <2> QED
      BY <2>1, <2>3, <2>4
  <1>6. CASE more = <<"return">>
    <2>1. more \in Seq(Places) /\ Len(more) = 1 /\ more[1] = "return"
      BY <1>6 DEF Places
    <2>2. /\ frames' \in Seq(Places) /\ Len(frames') = 3
          /\ frames'[1] = "return" /\ frames'[2] = at /\ frames'[3] = "return"
      BY <1>3, <1>4, <2>1, ConcatProperties
    <2>3. at = "return"
      BY <1>6 DEF Places
    <2> QED
      BY <2>2, <2>3 DEF Shape, Reading
  <1> QED
    BY <1>5, <1>6

LEMMA Returns ==
  ASSUME FramesInv, Return
  PROVE  Shape(frames') /\ ~Reading'
  <1>1. frames \in Seq(Places) /\ Len(frames) \in Nat \ {0} /\ Len(frames) <= 3
    BY LenProperties, EmptySeq DEF FramesInv, Shape, Return
  <1>2. \A k \in 1 .. Len(frames) : frames[k] # "ReadBody"
    BY <1>1 DEF FramesInv, Shape, Return
  <1>3. frames' = SubSeq(frames, 1, Len(frames) - 1)
    BY DEF Return
  <1>4. /\ frames' \in Seq(Places) /\ Len(frames') = Len(frames) - 1
        /\ \A k \in 1 .. Len(frames) - 1 : frames'[k] = frames[k]
    <2>1. PICK m \in Int, n \in Int : m = 1 /\ n = Len(frames) - 1
      BY <1>1
    <2>2. m \in 1 .. Len(frames) + 1 /\ n \in m - 1 .. Len(frames)
      BY <1>1, <2>1
    <2>3. /\ SubSeq(frames, m, n) \in Seq(Places) /\ Len(SubSeq(frames, m, n)) = n - m + 1
          /\ \A i \in 1 .. n - m + 1 : SubSeq(frames, m, n)[i] = frames[m + i - 1]
      BY <1>1, <2>2, SliceType
    <2>4. \A k \in 1 .. n : m + k - 1 = k /\ n - m + 1 = n
      BY <2>1
    <2>5. n - m + 1 = n
      BY <2>1
    <2>6. frames' = SubSeq(frames, m, n)
      BY <1>3, <2>1
    <2>7. /\ frames' \in Seq(Places) /\ Len(frames') = n
          /\ \A k \in 1 .. n : frames'[k] = frames[k]
      BY <2>3, <2>4, <2>5, <2>6
    <2> QED
      BY <2>1, <2>7
  <1>5. \A k \in 1 .. Len(frames') : frames'[k] # "ReadBody"
    BY <1>1, <1>2, <1>4
  <1>6. frames' # <<>> => Len(frames') \in 1 .. Len(frames')
    BY <1>1, <1>4, EmptySeq
  <1> QED
    BY <1>1, <1>4, <1>5, <1>6 DEF Shape, Reading

LEMMA FramesKeep == ASSUME TypeOK, FramesInv, [Next]_vars PROVE FramesInv'
  <1>1. CASE Start
    BY <1>1 DEF Start, Called, FramesInv, Reading, object
  <1>2. CASE OnOpenSucceeds \/ OnReadGetsBytes
    <2>1. frames' = <<"return", "ReadBody">> /\ callback' = "none" /\ alive' /\ buffer_'
      BY <1>2 DEF OnOpenSucceeds, OnReadGetsBytes, Called, FramesInv, object
    <2> QED
      BY <2>1, Shapes DEF FramesInv
  <1>3. CASE OnOpenFails \/ OnReadEnds
    <2>1. frames' = <<"return">> /\ callback' = "none" /\ alive' = FALSE
      BY <1>3, EndType DEF OnOpenFails, OnReadEnds, OpenFailed, ReportResultAndDie
    <2>2. ~Reading'
      BY <2>1, Shapes DEF Reading
    <2> QED
      BY <2>1, <2>2, Shapes DEF FramesInv
  <1>4. CASE ReadBodyGetsBytes
    <2>1. Reading /\ Goes("ReadBody", <<>>) /\ UNCHANGED <<callback, object>>
      BY <1>4 DEF ReadBodyGetsBytes, Loops
    <2>2. Shape(frames')
      BY <2>1, ReadBodySteps DEF Places
    <2> QED
      BY <2>1, <2>2 DEF FramesInv, object
  <1>5. CASE ReadPends
    <2>1. Reading /\ Goes("return", <<>>) /\ callback' = "OnRead" /\ UNCHANGED object
      BY <1>5 DEF ReadPends
    <2>2. Shape(frames') /\ ~Reading'
      BY <2>1, ReadBodySteps DEF Places
    <2> QED
      BY <2>1, <2>2 DEF FramesInv, object
  <1>6. CASE ReadBodyEnds
    <2>1. Reading /\ Goes("return", <<"return">>)
      BY <1>6 DEF ReadBodyEnds, AfterRun
    <2>2. Shape(frames') /\ ~Reading'
      BY <2>1, ReadBodySteps DEF Places
    <2>3. alive' = FALSE /\ callback' = "none"
      BY <1>6, EndType DEF ReadBodyEnds
    <2> QED
      BY <2>2, <2>3 DEF FramesInv
  <1>7. CASE Return
    <2>1. Shape(frames') /\ ~Reading'
      BY <1>7, Returns
    <2> QED
      BY <1>7, <2>1 DEF Return, FramesInv, object
  <1>8. CASE UNCHANGED vars
    BY <1>8 DEF vars, FramesInv, Reading
  <1> QED
    BY <1>1, <1>2, <1>3, <1>4, <1>5, <1>6, <1>7, <1>8 DEF Next
-----------------------------------------------------------------------------
(* The theorems.                                                           *)

\* The types are inductive together with the shapes of the stack.
THEOREM Invariance == Spec => [](TypeOK /\ FramesInv)
<1>1. Init => TypeOK /\ FramesInv
  <2> SUFFICES ASSUME Init PROVE TypeOK /\ FramesInv
    OBVIOUS
  <2>1. frames = <<>> /\ posted = <<>> /\ received = <<>> /\ url_response_body_ = <<>>
    BY DEF Init
  <2>2. TypeOK
    BY <2>1, EmptySeq, BoundsAssumption DEF Init, TypeOK
  <2>3. FramesInv
    BY <2>1, Shapes DEF Init, FramesInv, Reading
  <2> QED
    BY <2>2, <2>3
<1>2. TypeOK /\ FramesInv /\ [Next]_vars => (TypeOK /\ FramesInv)'
  <2> SUFFICES ASSUME TypeOK, FramesInv, [Next]_vars PROVE (TypeOK /\ FramesInv)'
    OBVIOUS
  <2>0. FramesInv'
    BY FramesKeep
  <2>1. frames' \in Seq(Places)
    BY <2>0 DEF FramesInv, Shape
  <2>2. /\ alive \in BOOLEAN /\ buffer_ \in BOOLEAN /\ arrived \in 0 .. total
        /\ received \in Seq(1 .. total)
        /\ posted \in Seq([success : BOOLEAN, text : Seq(1 .. total)])
    BY DEF TypeOK
  <2>3. CASE Start \/ OnOpenSucceeds \/ ReadPends \/ Return \/ UNCHANGED vars
    <3>1. /\ UNCHANGED <<alive, buffer_, instance_, posted, total, arrived>>
          /\ UNCHANGED <<url_response_body_, received>>
          /\ callback' \in {"Start", "OnOpen", "OnRead", "none"}
      BY <2>3 DEF Start, OnOpenSucceeds, ReadPends, Return, vars, object, download, TypeOK
    <3> QED
      BY <2>0, <2>1, <2>2, <3>1, TypeParts
  <2>4. CASE OnOpenFails
    <3>1. posted' \in Seq([success : BOOLEAN, text : Seq(1 .. total)])
      BY <2>2, <2>4, ReportType DEF OnOpenFails
    <3>2. /\ UNCHANGED <<instance_, total, arrived, url_response_body_, received>>
          /\ callback' = "none" /\ alive' = FALSE /\ buffer_' = FALSE
      BY <2>4 DEF OnOpenFails, ReportResultAndDie, download
    <3> QED
      BY <2>0, <2>1, <2>2, <3>1, <3>2, TypeParts
  <2>5. CASE ReadBodyGetsBytes \/ OnReadGetsBytes
    <3>1. PICK n \in 1 .. READ_BUFFER_SIZE : AppendDataBytes(n)
      BY <2>5 DEF ReadBodyGetsBytes, OnReadGetsBytes
    <3>2. /\ received' \in Seq(1 .. total) /\ arrived' \in 0 .. total
          /\ UNCHANGED <<total, url_response_body_>>
      BY <3>1, BytesType
    <3>3. /\ UNCHANGED <<alive, buffer_, instance_, posted>>
          /\ callback' \in {"Start", "OnOpen", "OnRead", "none"}
      BY <2>5 DEF ReadBodyGetsBytes, OnReadGetsBytes, TypeOK, object
    <3> QED
      BY <2>0, <2>1, <2>2, <3>2, <3>3, TypeParts
  <2>6. CASE ReadBodyEnds \/ OnReadEnds
    <3>1. OnReadEnd
      BY <2>6 DEF ReadBodyEnds, OnReadEnds
    <3>2. /\ posted' \in Seq([success : BOOLEAN, text : Seq(1 .. total)])
          /\ alive' = FALSE /\ buffer_' = FALSE /\ callback' = "none"
          /\ UNCHANGED <<instance_, total, arrived, url_response_body_, received>>
      BY <3>1, EndType DEF download
    <3> QED
      BY <2>0, <2>1, <2>2, <3>2, TypeParts
  <2> QED
    BY <2>3, <2>4, <2>5, <2>6 DEF Next
<1> QED
  BY <1>1, <1>2, PTL DEF Spec

\* Every variable keeps its type: bytes and posted results belong to the body.
THEOREM TypeCorrect == Spec => []TypeOK
BY Invariance, PTL

\* No function of a deleted handler goes on, and none is called.
THEOREM NothingUsedAfterDelete == Spec => []NoUseAfterDelete
<1>1. FramesInv => NoUseAfterDelete
  <2> SUFFICES ASSUME FramesInv PROVE NoUseAfterDelete
    OBVIOUS
  <2>1. Len(frames) \in Nat /\ \A k \in 1 .. Len(frames) : frames[k] \in Places
    BY LenProperties, ElementOfSeq DEF FramesInv, Shape
  <2>2. \A k \in 1 .. Len(frames) - 1 : frames[k] = "return"
    BY <2>1 DEF FramesInv, Shape, Places
  <2> QED
    BY <2>2 DEF FramesInv, NoUseAfterDelete
<1> QED
  BY <1>1, Invariance, PTL

\* There are never more than three functions of the handler on the stack.
THEOREM StackIsFlat == Spec => []StackStaysFlat
<1>1. FramesInv => StackStaysFlat
  BY DEF FramesInv, Shape, StackStaysFlat
<1> QED
  BY <1>1, Invariance, PTL

\* The listener has been given the first bytes of the body, each once.
THEOREM ListenerSeesBody == Spec => []ListenerGetsBody
<1>1. Init => ListenerGetsBody
  BY DEF Init, ListenerGetsBody
<1>2. TypeOK /\ ListenerGetsBody /\ [Next]_vars => ListenerGetsBody'
  <2> SUFFICES ASSUME TypeOK, ListenerGetsBody, [Next]_vars
               PROVE  ListenerGetsBody'
    OBVIOUS
  <2>1. CASE ReadBodyGetsBytes \/ OnReadGetsBytes
    <3>1. PICK n \in 1 .. READ_BUFFER_SIZE : AppendDataBytes(n)
      BY <2>1 DEF ReadBodyGetsBytes, OnReadGetsBytes
    <3>2. received' = received \o [k \in 1 .. n |-> arrived + k]
      BY <3>1, BytesType
    <3>3. arrived \in Nat /\ n \in Nat
      BY BoundsAssumption, BufferAssumption DEF TypeOK
    <3>4. received' = [k \in 1 .. arrived + n |-> k]
      BY <3>2, <3>3, NextBytes DEF ListenerGetsBody
    <3> QED
      BY <3>1, <3>4 DEF AppendDataBytes, ListenerGetsBody
  <2>2. CASE UNCHANGED <<arrived, received>>
    BY <2>2 DEF ListenerGetsBody
  <2> QED
    BY <2>1, <2>2 DEF Next, Start, OnOpenSucceeds, OnOpenFails, ReadPends, ReadBodyEnds,
                      OnReadEnds, OnReadEnd, Return, download, vars
<1> QED
  BY <1>1, <1>2, Invariance, PTL DEF Spec

\* One result is reported, with the deletion.
THEOREM ResultReportedOnce == Spec => []ReportsOnce
<1>1. Init => ReportsOnce
  BY DEF Init, ReportsOnce
<1>2. TypeOK /\ FramesInv /\ ReportsOnce /\ [Next]_vars => ReportsOnce'
  <2> SUFFICES ASSUME TypeOK, FramesInv, ReportsOnce, [Next]_vars PROVE ReportsOnce'
    OBVIOUS
  <2>1. ASSUME NEW success, NEW text, alive, ReportResultAndDie(success, text)
        PROVE  ReportsOnce'
    BY <2>1, EmptySeq DEF ReportResultAndDie, ReportsOnce, TypeOK
  <2>2. CASE OnOpenFails
    <3>1. alive
      BY <2>2 DEF OnOpenFails, Called, FramesInv
    <3> QED
      BY <2>1, <2>2, <3>1 DEF OnOpenFails
  <2>3. CASE ReadBodyEnds \/ OnReadEnds
    <3>1. alive
      BY <2>3 DEF ReadBodyEnds, OnReadEnds, Called, FramesInv
    <3>2. \E success, text : ReportResultAndDie(success, text)
      BY <2>3 DEF ReadBodyEnds, OnReadEnds, OnReadEnd
    <3> QED
      BY <2>1, <3>1, <3>2
  <2>4. CASE UNCHANGED object
    BY <2>4 DEF object, ReportsOnce
  <2> QED
    BY <2>2, <2>3, <2>4 DEF Next, Start, OnOpenSucceeds, ReadBodyGetsBytes, ReadPends,
                            OnReadGetsBytes, Return, vars, object
<1> QED
  BY <1>1, <1>2, Invariance, PTL DEF Spec

\* A success means that the listener has the whole body.
THEOREM SuccessHasWholeBody == Spec => []SuccessIsWhole
<1>1. Init => SuccessIsWhole
  BY DEF Init, SuccessIsWhole
<1>2. /\ TypeOK /\ FramesInv /\ ListenerGetsBody /\ ReportsOnce /\ SuccessIsWhole
      /\ [Next]_vars
      => SuccessIsWhole'
  <2> SUFFICES ASSUME TypeOK, FramesInv, ListenerGetsBody, ReportsOnce, SuccessIsWhole,
                      [Next]_vars
               PROVE  SuccessIsWhole'
    OBVIOUS
  <2>1. alive => posted = <<>>
    BY EmptySeq DEF ReportsOnce, TypeOK
  <2>2. CASE ReadBodyEnds \/ OnReadEnds
    <3>1. Len(received) = arrived
      BY BoundsAssumption DEF ListenerGetsBody, TypeOK
    <3>2. posted = <<>>
      BY <2>1, <2>2 DEF ReadBodyEnds, OnReadEnds, Called, FramesInv
    <3>3. OnReadEnd /\ UNCHANGED <<received, total>>
      BY <2>2 DEF ReadBodyEnds, OnReadEnds, OnReadEnd, download
    <3>4. PICK result \in {0, -2} :
            /\ result = 0 => arrived = total
            /\ ReportResultAndDie(Succeeds(result),
                                  IF Succeeds(result) THEN url_response_body_
                                  ELSE <<>>)
      BY <3>3 DEF OnReadEnd
    <3>5. \A k \in 1 .. Len(posted') : posted'[k].success = Succeeds(result)
      BY <3>2, <3>4 DEF ReportResultAndDie
    <3>6. Succeeds(result) => Len(received) = total
      BY <3>1, <3>4 DEF Succeeds
    <3> QED
      BY <3>3, <3>5, <3>6 DEF SuccessIsWhole
  <2>3. CASE OnOpenFails
    <3>1. posted = <<>>
      BY <2>1, <2>3 DEF OnOpenFails, Called, FramesInv
    <3>2. \A k \in 1 .. Len(posted') : ~posted'[k].success
      BY <2>3, <3>1 DEF OnOpenFails, ReportResultAndDie
    <3> QED
      BY <3>2 DEF SuccessIsWhole
  <2>4. CASE ReadBodyGetsBytes \/ OnReadGetsBytes
    <3>1. alive /\ posted' = posted
      BY <2>4 DEF ReadBodyGetsBytes, OnReadGetsBytes, Called, FramesInv, object
    <3>2. posted' = <<>>
      BY <2>1, <3>1
    <3> QED
      BY <3>2 DEF SuccessIsWhole
  <2>5. CASE UNCHANGED <<posted, received, total>>
    BY <2>5 DEF SuccessIsWhole
  <2> QED
    BY <2>2, <2>3, <2>4, <2>5 DEF Next, Start, OnOpenSucceeds, ReadPends, Return, object,
                                  download, vars
<1> QED
  BY <1>1, <1>2, Invariance, ListenerSeesBody, ResultReportedOnce, PTL DEF Spec
=============================================================================
